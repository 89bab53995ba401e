-------------------------- MODULE AgentTurn_proofs --------------------------
(* What is proved of AgentTurn for all values of its constants: the stream  *)
(* and its clients implement AnswerStream.                                  *)
EXTENDS AgentTurn, TLAPS, WellFoundedInduction, FiniteSetTheorems

\* A finite sequence, whatever its elements are.
Finite(s) == \E n \in Nat : DOMAIN s = 1..n /\ s = [i \in 1..n |-> s[i]]

\* An open connection reads on from where its client is.
ReadersAhead ==
    /\ Finite(stream)
    /\ DOMAIN got = Clients /\ got = [c \in Clients |-> got[c]]
    /\ \A c \in Clients : Finite(got[c])
    /\ conn \in [Clients -> {"off", "open", "ended", "gone"}]
    /\ currentId \in [Clients -> Nat]
    /\ \A c \in Clients : conn[c] = "open" => currentId[c] = Len(got[c])

-----------------------------------------------------------------------------
(* Sequences *)

\* A finite sequence is a sequence of its own elements.
LEMMA FiniteIsSeq ==
    ASSUME NEW s, Finite(s)
    PROVE  s \in Seq({s[i] : i \in DOMAIN s}) /\ Len(s) \in Nat
<1>1. PICK n \in Nat : DOMAIN s = 1..n /\ s = [i \in 1..n |-> s[i]]
  BY DEF Finite
<1>2. s \in [1..n -> {s[i] : i \in DOMAIN s}]
  BY <1>1
<1> QED
  BY <1>1, <1>2

\* A sequence over a set is finite.
LEMMA SeqIsFinite ==
    ASSUME NEW S, NEW s \in Seq(S)
    PROVE  Finite(s)
<1>1. Len(s) \in Nat /\ DOMAIN s = 1..Len(s)
  OBVIOUS
<1>2. s = [i \in 1..Len(s) |-> s[i]]
  BY <1>1
<1> QED
  BY <1>1, <1>2 DEF Finite

\* The empty sequence is finite.
LEMMA EmptyIsFinite == Finite(<<>>) /\ Len(<<>>) = 0
<1>1. DOMAIN <<>> = 1..0 /\ <<>> = [i \in 1..0 |-> <<>>[i]]
  OBVIOUS
<1> QED
  BY <1>1 DEF Finite

\* Append adds one element at the end, which any value may be.
LEMMA AppendAtEnd ==
    ASSUME NEW s, NEW e, Finite(s)
    PROVE  /\ Finite(Append(s, e))
           /\ Len(Append(s, e)) = Len(s) + 1
           /\ SubSeq(Append(s, e), 1, Len(s)) = s
<1> DEFINE T == {s[i] : i \in DOMAIN s} \cup {e}
<1>1. s \in Seq({s[i] : i \in DOMAIN s}) /\ Len(s) \in Nat
  BY FiniteIsSeq
<1>2. s \in Seq(T)
  BY <1>1
<1>3. Append(s, e) \in Seq(T) /\ Len(Append(s, e)) = Len(s) + 1
  BY <1>2
<1>4. SubSeq(Append(s, e), 1, Len(s)) = s
  BY <1>2
<1>5. Finite(Append(s, e))
  BY <1>3, SeqIsFinite
<1> QED
  BY <1>3, <1>4, <1>5

-----------------------------------------------------------------------------
(* Readers *)

\* Nothing has been read or written before the turn.
LEMMA ReadersAheadInit == Init => ReadersAhead
<1> SUFFICES ASSUME Init
             PROVE  ReadersAhead
  OBVIOUS
<1>1. Finite(<<>>) /\ Len(<<>>) = 0
  BY EmptyIsFinite
<1>2. stream = <<>> /\ got = [c \in Clients |-> <<>>]
  BY DEF Init
<1>3. /\ conn \in [Clients -> {"off", "open", "ended", "gone"}]
      /\ currentId \in [Clients -> Nat]
      /\ \A c \in Clients : conn[c] # "open"
  BY DEF Init
<1> QED
  BY <1>1, <1>2, <1>3 DEF ReadersAhead

\* What no step but those of the stream and its clients touches.
readerVars == <<stream, got, conn, currentId>>

\* The invariant speaks of the stream and its clients only.
LEMMA OthersKeepReaders ==
    ASSUME ReadersAhead, UNCHANGED readerVars
    PROVE  ReadersAhead'
  BY DEF ReadersAhead, readerVars, Finite

\* The processor adds at the end of the stream or not at all.
LEMMA ProcessGrows ==
    ASSUME ReadersAhead, Process
    PROVE  /\ ReadersAhead'
           /\ UNCHANGED got
           /\ \/ UNCHANGED stream
              \/ /\ Len(stream') = Len(stream) + 1
                 /\ SubSeq(stream', 1, Len(stream)) = stream
<1>1. UNCHANGED <<got, conn, currentId>>
  BY DEF Process, clientVars
<1>2. CASE UNCHANGED stream
  BY <1>1, <1>2, OthersKeepReaders DEF readerVars
<1>3. CASE stream' = Append(stream, pushed[handled + 1])
  <2>1. Finite(stream)
    BY DEF ReadersAhead
  <2>2. /\ Finite(stream')
        /\ Len(stream') = Len(stream) + 1
        /\ SubSeq(stream', 1, Len(stream)) = stream
    BY <1>3, <2>1, AppendAtEnd
  <2> QED
    BY <1>1, <2>2 DEF ReadersAhead, Finite
<1> QED
  BY <1>2, <1>3 DEF Process

\* What a client has is finite, and the step concerns nobody but c.
OnlyFor(c) ==
    /\ UNCHANGED stream
    /\ DOMAIN got' = Clients /\ got' = [d \in Clients |-> got'[d]]
    /\ \A d \in Clients : Finite(got'[d])
    /\ \A d \in Clients : d # c => got'[d] = got[d]

\* A connection that is left need not be anywhere.
LEMMA LeaveKeeps ==
    ASSUME ReadersAhead, NEW c \in Clients, NEW how \in {"off", "ended", "gone"},
           OnlyFor(c), Leave(c, how)
    PROVE  ReadersAhead'
<1>1. Finite(stream)'
  BY DEF OnlyFor, ReadersAhead, Finite
<1>2. /\ conn' = [conn EXCEPT ![c] = how]
      /\ currentId' = [currentId EXCEPT ![c] = 0]
  BY DEF Leave
<1>3. /\ conn' \in [Clients -> {"off", "open", "ended", "gone"}]
      /\ currentId' \in [Clients -> Nat]
  BY <1>2 DEF ReadersAhead
<1>4. \A d \in Clients : conn'[d] = "open" => currentId'[d] = Len(got'[d])
  BY <1>2 DEF ReadersAhead, OnlyFor
<1>5. \A d \in Clients : Finite(got[d])'
  BY DEF OnlyFor, Finite
<1> QED
  BY <1>1, <1>3, <1>4, <1>5 DEF ReadersAhead, OnlyFor

\* A connection that goes on stays where its client is.
LEMMA ContinueKeeps ==
    ASSUME ReadersAhead, NEW c \in Clients, NEW n, NEW r,
           OnlyFor(c), NEW id \in Nat, id = Len(got'[c]), Continue(c, id, n, r)
    PROVE  ReadersAhead'
<1>1. Finite(stream)'
  BY DEF OnlyFor, ReadersAhead, Finite
<1>2. UNCHANGED conn /\ currentId' = [currentId EXCEPT ![c] = id]
  BY DEF Continue
<1>3. currentId' \in [Clients -> Nat]
  BY <1>2 DEF ReadersAhead
<1>4. \A d \in Clients : conn'[d] = "open" => currentId'[d] = Len(got'[d])
  BY <1>2 DEF ReadersAhead, OnlyFor
<1>5. \A d \in Clients : Finite(got[d])'
  BY DEF OnlyFor, Finite
<1> QED
  BY <1>1, <1>2, <1>3, <1>4, <1>5 DEF ReadersAhead, OnlyFor

\* A client receives the entry after the last one it received, or nothing.
LEMMA ClientReceives ==
    ASSUME ReadersAhead, NEW c \in Clients, Connect(c) \/ Disconnect(c) \/ Listen(c)
    PROVE  /\ ReadersAhead'
           /\ UNCHANGED stream
           /\ \/ UNCHANGED got
              \/ /\ Len(got[c]) < Len(stream)
                 /\ got' = [got EXCEPT ![c] = Append(@, stream[Len(@) + 1])]
<1>0. /\ Finite(got[c]) /\ Len(got[c]) \in Nat
      /\ currentId[c] \in Nat
      /\ conn[c] = "open" => currentId[c] = Len(got[c])
  BY FiniteIsSeq DEF ReadersAhead
<1>1. ASSUME UNCHANGED <<stream, got>> PROVE OnlyFor(c)
  BY <1>1 DEF OnlyFor, ReadersAhead
<1>2. CASE Connect(c)
  BY <1>0, <1>2 DEF Connect, queueVars, ReadersAhead, Finite
<1>3. CASE Disconnect(c)
  <2>1. Leave(c, "off") /\ UNCHANGED <<stream, got>>
    BY <1>3 DEF Disconnect, queueVars
  <2> QED
    BY <1>1, <2>1, LeaveKeeps
<1>4. CASE NoStream(c) \/ ReadNothing(c)
  <2>1. /\ UNCHANGED <<stream, got>>
        /\ conn[c] = "open"
        /\ Leave(c, "gone") \/ \E n, r : Continue(c, currentId[c], n, r)
    BY <1>4 DEF NoStream, ReadNothing, queueVars
  <2>2. OnlyFor(c) /\ currentId[c] = Len(got'[c])
    BY <1>0, <1>1, <2>1
  <2>3. CASE Leave(c, "gone")
    BY <2>1, <2>2, <2>3, LeaveKeeps
  <2>4. CASE \E n, r : Continue(c, currentId[c], n, r)
    <3>1. PICK n, r : Continue(c, currentId[c], n, r)
      BY <2>4
    <3> QED
      BY <1>0, <2>1, <2>2, <3>1, ContinueKeeps
  <2> QED
    BY <2>1, <2>3, <2>4
<1>5. CASE ReadNext(c)
  <2> DEFINE m == stream[currentId[c] + 1]
  <2>1. /\ conn[c] = "open" /\ currentId[c] = Len(got[c])
        /\ currentId[c] < Len(stream)
        /\ UNCHANGED stream
    BY <1>0, <1>5 DEF ReadNext, queueVars
  <2>2. CASE Leave(c, "off") /\ UNCHANGED got
    BY <1>1, <2>1, <2>2, LeaveKeeps
  <2>3. CASE /\ got' = [got EXCEPT ![c] = Append(@, m)]
             /\ Continue(c, currentId[c] + 1, 0, 0) \/ Leave(c, "ended")
    <3>1. /\ got'[c] = Append(got[c], m)
          /\ \A d \in Clients : d # c => got'[d] = got[d]
          /\ DOMAIN got' = Clients /\ got' = [d \in Clients |-> got'[d]]
      BY <2>3 DEF ReadersAhead
    <3>2. Finite(got'[c]) /\ Len(got'[c]) = Len(got[c]) + 1
      BY <1>0, <3>1, AppendAtEnd
    <3>3. \A d \in Clients : Finite(got'[d])
      BY <3>1, <3>2 DEF ReadersAhead
    <3>4. OnlyFor(c)
      BY <2>1, <3>1, <3>3 DEF OnlyFor
    <3>5. currentId[c] + 1 \in Nat /\ currentId[c] + 1 = Len(got'[c])
      BY <1>0, <2>1, <3>2
    <3>6. ReadersAhead'
      BY <2>3, <3>4, <3>5, LeaveKeeps, ContinueKeeps
    <3>7. got' = [got EXCEPT ![c] = Append(@, stream[Len(@) + 1])]
      BY <2>1, <2>3 DEF ReadersAhead
    <3> QED
      BY <2>1, <3>6, <3>7
  <2> QED
    BY <1>5, <2>2, <2>3 DEF ReadNext
<1> QED
  BY <1>2, <1>3, <1>4, <1>5 DEF Listen

-----------------------------------------------------------------------------
(* The specification *)

\* The turn leaves the queue's other end, the stream and the clients alone, but that it
\* stops the processing coroutine when it has ended.
LEMMA TurnTouches ==
    ASSUME Turn
    PROVE  /\ UNCHANGED <<handled, lost, stream, exists, clientVars>>
           /\ UNCHANGED processor \/ processor' = FALSE
<1> USE DEF queueVars
<1>1. CASE CallAnswers \/ CallLimited \/ CallRaises
  BY <1>1 DEF CallAnswers, CallLimited, CallRaises
<1>2. CASE ChunkStop \/ ChunksEnd \/ ChunkCancelled
  BY <1>2 DEF ChunkStop, ChunksEnd, ChunkCancelled
<1>3. CASE ChunkToolCalls \/ \E ds \in SUBSET (1..MaxIndex) : ChunkDelta(ds)
  BY <1>3 DEF ChunkToolCalls, ChunkDelta
<1>4. CASE ToolsComplete \/ ToolsRaise
  BY <1>4 DEF ToolsComplete, ToolsRaise
<1>5. CASE Record \/ RecordFault \/ DrainAndStop
  BY <1>5 DEF Record, RecordFault, DrainAndStop
<1> QED
  BY <1>1, <1>2, <1>3, <1>4, <1>5 DEF Turn

\* The turn, cancelling, a crash and the end of the key's life leave the entries and
\* their readers alone.
LEMMA TurnKeepsReaders ==
    ASSUME Turn \/ CancelArrives \/ Crash \/ StreamExpires
    PROVE  UNCHANGED readerVars
<1>1. ASSUME Turn PROVE UNCHANGED readerVars
  BY <1>1, TurnTouches DEF readerVars, clientVars
<1>2. ASSUME CancelArrives \/ Crash \/ StreamExpires PROVE UNCHANGED readerVars
  BY <1>2 DEF CancelArrives, Crash, StreamExpires, readerVars, queueVars, clientVars
<1> QED
  BY <1>1, <1>2

\* A step keeps the readers where their connections are, and is a step of an answer
\* that somebody reads, or none.
LEMMA ReadersStep ==
    ASSUME ReadersAhead, [Next]_vars
    PROVE  ReadersAhead' /\ [Answer!Next]_<<stream, got>>
<1>1. ASSUME Process PROVE ReadersAhead' /\ [Answer!Next]_<<stream, got>>
  <2>1. /\ ReadersAhead' /\ UNCHANGED got
        /\ UNCHANGED stream \/ Answer!Grow
    BY <1>1, ProcessGrows DEF Answer!Grow
  <2> QED
    BY <2>1 DEF Answer!Next
<1>2. ASSUME NEW c \in Clients, Connect(c) \/ Disconnect(c) \/ Listen(c)
      PROVE  ReadersAhead' /\ [Answer!Next]_<<stream, got>>
  <2>1. /\ ReadersAhead' /\ UNCHANGED stream
        /\ UNCHANGED got \/ Answer!Receive(c)
    BY <1>2, ClientReceives DEF Answer!Receive
  <2> QED
    BY <2>1 DEF Answer!Next
<1>3. ASSUME UNCHANGED readerVars PROVE ReadersAhead' /\ [Answer!Next]_<<stream, got>>
  BY <1>3, OthersKeepReaders DEF readerVars
<1>4. ASSUME UNCHANGED vars PROVE UNCHANGED readerVars
  BY <1>4 DEF vars, readerVars, queueVars, clientVars
<1> QED
  BY <1>1, <1>2, <1>3, <1>4, TurnKeepsReaders DEF Next

\* An open connection always reads on from where its client is, whatever was lost,
\* disconnected or reconnected before: what makes Last-Event-ID work.
THEOREM ReadersAheadAlways == Spec => []ReadersAhead
<1>1. ReadersAhead /\ [Next]_vars => ReadersAhead'
  BY ReadersStep
<1> QED
  BY <1>1, ReadersAheadInit, PTL DEF Spec

\* The answer's stream and its clients implement AnswerStream: with every number of
\* clients, rounds, tools, losses and reconnections, each client is given every entry
\* once and in order.
THEOREM StreamIsAnswer == Spec => StreamSpec
<1>1. Init => Answer!Init
  BY DEF Init, Answer!Init
<1>2. ReadersAhead /\ [Next]_vars => [Answer!Next]_<<stream, got>>
  BY ReadersStep
<1> QED
  BY <1>1, <1>2, ReadersAheadAlways, PTL DEF Spec, StreamSpec, Answer!Spec

-----------------------------------------------------------------------------
(* Induction *)

\* What holds of 0, and of n + 1 whenever of n, holds of every number: the set S is the
\* set of the numbers it holds of.
LEMMA Induction ==
    ASSUME NEW S, 0 \in S, \A n \in Nat : n \in S => n + 1 \in S
    PROVE  \A n \in Nat : n \in S
<1> DEFINE T == Nat \ S
           R == OpToRel(<, Nat)
<1> SUFFICES ASSUME T # {} PROVE FALSE
  OBVIOUS
<1>1. IsWellFoundedOn(R, Nat)
  BY NatLessThanWellFounded
<1>2. T \subseteq Nat
  OBVIOUS
<1>3. \E x \in T : \A y \in T : ~(<<y, x>> \in R)
  <2> HIDE DEF R, T
  <2> QED
    BY <1>1, <1>2, WFMin
<1>4. PICK x \in T : \A y \in T : ~(<<y, x>> \in R)
  BY <1>3
<1>5. \A y \in T : ~(y < x)
  BY <1>4 DEF OpToRel
<1>6. x # 0 /\ x \in Nat
  OBVIOUS
<1>7. x - 1 \in Nat /\ x - 1 < x /\ (x - 1) + 1 = x
  BY <1>6
<1>8. x - 1 \in S
  BY <1>5, <1>7
<1> QED
  BY <1>7, <1>8

-----------------------------------------------------------------------------
(* FlattenSeq *)

\* The function that flattens the first n sequences of s.
Flattens(s, n, f) == f = [i \in 1..n |-> IF i = 1 THEN s[i] ELSE f[i - 1] \o s[i]]

\* It flattens one more, from the one before.
LEMMA FlattensNext ==
    ASSUME NEW s, NEW n \in Nat, NEW f, Flattens(s, n, f), NEW k \in Nat, k < n
    PROVE  f[k + 1] = IF k = 0 THEN s[k + 1] ELSE f[k] \o s[k + 1]
<1>1. k + 1 \in 1..n /\ (k + 1 = 1 <=> k = 0) /\ (k + 1) - 1 = k
  OBVIOUS
<1>2. f = [i \in 1..n |-> IF i = 1 THEN s[i] ELSE f[i - 1] \o s[i]]
  BY DEF Flattens
<1>3. f[k + 1] = IF k + 1 = 1 THEN s[k + 1] ELSE f[(k + 1) - 1] \o s[k + 1]
  BY <1>1, <1>2, Zenon
<1> QED
  BY <1>1, <1>3

\* There is such a function.
LEMMA FlattensExists ==
    ASSUME NEW s, NEW n \in Nat
    PROVE  \E f : Flattens(s, n, f)
<1> DEFINE S == {k \in Nat : \E f : Flattens(s, k, f)}
<1>1. 0 \in S
  <2>1. Flattens(s, 0, [i \in 1..0 |-> 0])
    BY DEF Flattens
  <2> QED
    BY <2>1
<1>2. ASSUME NEW k \in Nat, k \in S PROVE k + 1 \in S
  <2>1. PICK f : Flattens(s, k, f)
    BY <1>2
  <2> DEFINE g == [i \in 1..k + 1 |-> IF i = k + 1 THEN (IF i = 1 THEN s[i] ELSE f[k] \o s[i])
                                     ELSE f[i]]
  <2>2. f = [i \in 1..k |-> IF i = 1 THEN s[i] ELSE f[i - 1] \o s[i]]
    BY <2>1 DEF Flattens
  <2>3. \A i \in 1..k : g[i] = f[i]
    OBVIOUS
  <2>4. ASSUME NEW i \in 1..k + 1
        PROVE  g[i] = IF i = 1 THEN s[i] ELSE g[i - 1] \o s[i]
    <3>1. CASE i = k + 1
      <4>1. g[i] = IF i = 1 THEN s[i] ELSE f[k] \o s[i]
        BY <3>1
      <4>2. i - 1 = k /\ (i # 1 => k \in 1..k)
        BY <3>1
      <4>3. i # 1 => g[k] = f[k]
        BY <2>3, <4>2
      <4> HIDE DEF g
      <4> QED
        BY <4>1, <4>2, <4>3
    <3>2. CASE i \in 1..k
      <4>1. g[i] = f[i] /\ (i # 1 => g[i - 1] = f[i - 1])
        BY <2>3, <3>2
      <4>2. f[i] = IF i = 1 THEN s[i] ELSE f[i - 1] \o s[i]
        BY <2>2, <3>2, Zenon
      <4> HIDE DEF g
      <4> QED
        BY <4>1, <4>2
    <3> QED
      BY <3>1, <3>2
  <2>5. Flattens(s, k + 1, g)
    <3> HIDE DEF g
    <3>1. g = [i \in 1..k + 1 |-> g[i]]
      BY DEF g
    <3> QED
      BY <2>4, <3>1 DEF Flattens
  <2> QED
    BY <2>5
<1> HIDE DEF S
<1>3. n \in S
  BY <1>1, <1>2, Induction
<1> QED
  BY <1>3 DEF S

\* Two sequences begin with the same n elements.
AgreeTo(s, t, n) == \A i \in 1..n : s[i] = t[i]

\* A longer function that flattens agrees with a shorter one.
LEMMA FlattensAgree ==
    ASSUME NEW s, NEW t, NEW m \in Nat, NEW n \in Nat, n <= m,
           AgreeTo(s, t, n),
           NEW f, NEW g, Flattens(s, m, f), Flattens(t, n, g)
    PROVE  \A i \in 1..n : f[i] = g[i]
<1> DEFINE S == {k \in Nat : k \in 1..n => f[k] = g[k]}
<1>1. 0 \in S
  OBVIOUS
<1>2. ASSUME NEW k \in Nat, k \in S PROVE k + 1 \in S
  <2> SUFFICES ASSUME k + 1 \in 1..n PROVE f[k + 1] = g[k + 1]
    OBVIOUS
  <2>1. k < n /\ k < m /\ s[k + 1] = t[k + 1]
    BY DEF AgreeTo
  <2>2. /\ f[k + 1] = IF k = 0 THEN s[k + 1] ELSE f[k] \o s[k + 1]
        /\ g[k + 1] = IF k = 0 THEN t[k + 1] ELSE g[k] \o t[k + 1]
    BY <2>1, FlattensNext
  <2>3. k # 0 => f[k] = g[k]
    BY <1>2
  <2> QED
    BY <2>1, <2>2, <2>3
<1> HIDE DEF S
<1>3. \A k \in Nat : k \in S
  BY <1>1, <1>2, Induction
<1> QED
  BY <1>3 DEF S

\* What FlattenSeq is.
LEMMA FlattenIs ==
    ASSUME NEW s, NEW n \in Nat, Len(s) = n, NEW f, Flattens(s, n, f), n # 0
    PROVE  FlattenSeq(s) = f[n]
<1> DEFINE F == CHOOSE g : Flattens(s, n, g)
<1>1. FlattenSeq(s) = F[n]
  BY DEF FlattenSeq, Flattens
<1>2. Flattens(s, n, F)
  OBVIOUS
<1> HIDE DEF F
<1>3. n <= n /\ n \in 1..n /\ AgreeTo(s, s, n)
  BY DEF AgreeTo
<1>4. \A i \in 1..n : f[i] = F[i]
  BY <1>2, <1>3, FlattensAgree
<1> QED
  BY <1>1, <1>3, <1>4

\* Flattening goes from the first sequence to the last.
LEMMA FlattenLast ==
    ASSUME NEW T, NEW s \in Seq(Seq(T)), NEW e \in Seq(T)
    PROVE  /\ FlattenSeq(<<>>) = <<>>
           /\ FlattenSeq(s) \in Seq(T)
           /\ FlattenSeq(Append(s, e)) = FlattenSeq(s) \o e
<1> DEFINE n == Len(s)
           t == Append(s, e)
<1>1. FlattenSeq(<<>>) = <<>>
  BY DEF FlattenSeq
<1>2. n \in Nat /\ \A i \in 1..n : s[i] \in Seq(T)
  OBVIOUS
<1>3. Len(t) = n + 1 /\ t[n + 1] = e /\ \A i \in 1..n : t[i] = s[i]
  OBVIOUS
<1>4. PICK f : Flattens(s, n, f)
  BY <1>2, FlattensExists
<1>5. PICK g : Flattens(t, n + 1, g)
  <2>1. n + 1 \in Nat
    BY <1>2
  <2> QED
    BY <2>1, FlattensExists
<1> HIDE DEF t, n
<1>6. \A i \in 1..n : g[i] = f[i]
  <2>1. n + 1 \in Nat /\ n <= n + 1
    BY <1>2
  <2>2. AgreeTo(t, s, n)
    BY <1>3 DEF AgreeTo
  <2>3. \A m \in Nat : n <= m /\ Flattens(t, m, g) => \A i \in 1..n : g[i] = f[i]
    BY <1>2, <1>4, <2>2, FlattensAgree
  <2> QED
    BY <1>5, <2>1, <2>3
<1>7. FlattenSeq(t) = g[n + 1]
  BY <1>2, <1>3, <1>5, FlattenIs
<1>8. g[n + 1] = IF n = 0 THEN e ELSE g[n] \o e
  <2>1. g[n + 1] = IF n = 0 THEN t[n + 1] ELSE g[n] \o t[n + 1]
    <3>1. n + 1 \in Nat /\ n < n + 1
      BY <1>2
    <3> QED
      BY <1>2, <1>5, <3>1, FlattensNext
  <2> QED
    BY <1>3, <2>1
<1>9. \A i \in 1..n : f[i] \in Seq(T)
  <2> DEFINE S == {k \in Nat : k \in 1..n => f[k] \in Seq(T)}
  <2>1. 0 \in S
    OBVIOUS
  <2>2. ASSUME NEW k \in Nat, k \in S PROVE k + 1 \in S
    <3> SUFFICES ASSUME k + 1 \in 1..n PROVE f[k + 1] \in Seq(T)
      OBVIOUS
    <3>1. f[k + 1] = IF k = 0 THEN s[k + 1] ELSE f[k] \o s[k + 1]
      <4>1. k < n
        BY <1>2
      <4> QED
        BY <1>2, <1>4, <4>1, FlattensNext
    <3>2. s[k + 1] \in Seq(T)
      BY <1>2
    <3>3. k # 0 => f[k] \in Seq(T)
      BY <1>2, <2>2
    <3> QED
      BY <3>1, <3>2, <3>3
  <2> HIDE DEF S
  <2>3. \A k \in Nat : k \in S
    BY <2>1, <2>2, Induction
  <2> QED
    BY <2>3 DEF S
<1>10. CASE n = 0
  <2>1. s = <<>> /\ FlattenSeq(s) = <<>>
    BY <1>1, <1>10 DEF n
  <2>2. FlattenSeq(t) = <<>> \o e
    BY <1>7, <1>8, <1>10
  <2>3. FlattenSeq(s) \in Seq(T)
    <3>1. <<>> \in Seq(T)
      OBVIOUS
    <3> QED
      BY <2>1, <3>1
  <2> QED
    BY <1>1, <2>1, <2>2, <2>3 DEF t
<1>11. CASE n # 0
  <2>1. FlattenSeq(s) = f[n]
    BY <1>2, <1>4, <1>11, FlattenIs DEF n
  <2>2. n \in 1..n /\ f[n] \in Seq(T)
    BY <1>2, <1>9, <1>11
  <2>3. FlattenSeq(t) = FlattenSeq(s) \o e
    BY <1>6, <1>7, <1>8, <1>11, <2>1, <2>2
  <2>4. FlattenSeq(s) \in Seq(T)
    BY <2>1, <2>2
  <2> QED
    BY <1>1, <2>3, <2>4 DEF t
<1> QED
  BY <1>10, <1>11

\* To append to the second of two sequences is to append to both.
LEMMA ConcatAppend ==
    ASSUME NEW U, NEW a \in Seq(U), NEW b \in Seq(U), NEW x \in U
    PROVE  a \o Append(b, x) = Append(a \o b, x)
OBVIOUS

\* Concatenation is associative.
LEMMA ConcatAssoc ==
    ASSUME NEW U, NEW a \in Seq(U), NEW b \in Seq(U), NEW c \in Seq(U)
    PROVE  a \o (b \o c) = (a \o b) \o c
OBVIOUS

\* What a concatenation is.
Joins(m, a, b) ==
    /\ Len(m) = Len(a) + Len(b)
    /\ \A k \in 1..Len(a) : m[k] = a[k]
    /\ \A k \in 1..Len(b) : m[Len(a) + k] = b[k]

\* It has the elements of the one, and behind them those of the other.
LEMMA Concatenated ==
    ASSUME NEW U, NEW a \in Seq(U), NEW b \in Seq(U)
    PROVE  a \o b \in Seq(U) /\ Joins(a \o b, a, b)
  BY DEF Joins

\* One element behind another.
LEMMA TwoInARow ==
    ASSUME NEW U, NEW d \in U, NEW x \in U
    PROVE  <<d>> \o <<x>> = <<d, x>>
<1> DEFINE a == <<d>> \o <<x>>
           b == <<d, x>>
<1>1. <<d>> \in Seq(U) /\ <<x>> \in Seq(U) /\ Len(<<d>>) = 1 /\ Len(<<x>>) = 1
  OBVIOUS
<1>2. a \in Seq(U) /\ Joins(a, <<d>>, <<x>>)
  BY <1>1, Concatenated
<1>3. Len(a) = 2 /\ a[1] = d /\ a[2] = x
  BY <1>1, <1>2 DEF Joins
<1>4. b \in Seq(U) /\ Len(b) = 2 /\ b[1] = d /\ b[2] = x
  OBVIOUS
<1> HIDE DEF a, b
<1>5. \A k \in 1..2 : a[k] = b[k]
  BY <1>3, <1>4
<1>6. DOMAIN a = 1..2 /\ a = [k \in 1..2 |-> a[k]] /\ b = [k \in 1..2 |-> b[k]]
  BY <1>2, <1>3, <1>4
<1>7. a = b
  BY <1>5, <1>6
<1> QED
  BY <1>7 DEF a, b

\* Flattening one list of sequences after another.
LEMMA FlattenConcat ==
    ASSUME NEW T, NEW s \in Seq(Seq(T)), NEW t \in Seq(Seq(T))
    PROVE  FlattenSeq(s \o t) = FlattenSeq(s) \o FlattenSeq(t)
<1> DEFINE P(k) == SubSeq(t, 1, k)
           S == {k \in Nat : k <= Len(t) =>
                    FlattenSeq(s \o P(k)) = FlattenSeq(s) \o FlattenSeq(P(k))}
<1>1. FlattenSeq(s) \in Seq(T) /\ FlattenSeq(<<>>) = <<>>
  <2>1. <<>> \in Seq(T)
    OBVIOUS
  <2> QED
    BY <2>1, FlattenLast
<1>2. 0 \in S
  <2>1. P(0) = <<>>
    OBVIOUS
  <2>2. s \o <<>> = s
    OBVIOUS
  <2>3. FlattenSeq(s) \o <<>> = FlattenSeq(s)
    BY <1>1
  <2> QED
    BY <1>1, <2>1, <2>2, <2>3
<1>3. ASSUME NEW k \in Nat, k \in S PROVE k + 1 \in S
  <2> SUFFICES ASSUME k + 1 <= Len(t)
               PROVE  FlattenSeq(s \o P(k + 1)) = FlattenSeq(s) \o FlattenSeq(P(k + 1))
    OBVIOUS
  <2>1. /\ P(k) \in Seq(Seq(T)) /\ t[k + 1] \in Seq(T)
        /\ P(k + 1) = Append(P(k), t[k + 1])
    OBVIOUS
  <2>2. FlattenSeq(s \o P(k)) = FlattenSeq(s) \o FlattenSeq(P(k))
    BY <1>3
  <2> HIDE DEF P
  <2>3. s \o P(k + 1) = Append(s \o P(k), t[k + 1]) /\ s \o P(k) \in Seq(Seq(T))
    <3> DEFINE U == Seq(T)
               b == P(k)
               x == t[k + 1]
    <3> HIDE DEF U, b, x
    <3>1. s \o Append(P(k), t[k + 1]) = Append(s \o P(k), t[k + 1])
      <4>1. s \in Seq(U) /\ b \in Seq(U) /\ x \in U
        BY <2>1 DEF U, b, x
      <4>2. s \o Append(b, x) = Append(s \o b, x)
        BY <4>1, ConcatAppend
      <4> QED
        BY <4>2 DEF b, x
    <3>2. s \o P(k) \in Seq(Seq(T))
      BY <2>1
    <3> QED
      BY <2>1, <3>1, <3>2
  <2>4. FlattenSeq(s \o P(k + 1)) = FlattenSeq(s \o P(k)) \o t[k + 1]
    BY <2>1, <2>3, FlattenLast
  <2>5. /\ FlattenSeq(P(k + 1)) = FlattenSeq(P(k)) \o t[k + 1]
        /\ FlattenSeq(P(k)) \in Seq(T)
    BY <2>1, FlattenLast
  <2>6. FlattenSeq(s) \o (FlattenSeq(P(k)) \o t[k + 1])
          = (FlattenSeq(s) \o FlattenSeq(P(k))) \o t[k + 1]
    <3> DEFINE a == FlattenSeq(s)
               c == FlattenSeq(P(k))
               x == t[k + 1]
    <3>1. a \in Seq(T) /\ c \in Seq(T) /\ x \in Seq(T)
      BY <1>1, <2>1, <2>5
    <3> HIDE DEF a, c, x
    <3>2. a \o (c \o x) = (a \o c) \o x
      BY <3>1, ConcatAssoc
    <3> QED
      BY <3>2 DEF a, c, x
  <2> QED
    BY <2>2, <2>4, <2>5, <2>6
<1> HIDE DEF S
<1>4. Len(t) \in S
  <2>1. \A k \in Nat : k \in S
    BY <1>2, <1>3, Induction
  <2>2. Len(t) \in Nat
    OBVIOUS
  <2> QED
    BY <2>1, <2>2
<1>5. SubSeq(t, 1, Len(t)) = t
  OBVIOUS
<1>6. Len(t) <= Len(t)
  OBVIOUS
<1> QED
  BY <1>4, <1>5, <1>6 DEF S

-----------------------------------------------------------------------------
(* Sequences of messages, memories and rows *)

\* Sequences of nothing flatten to nothing.
LEMMA FlattenNothing ==
    ASSUME NEW n \in Nat
    PROVE  FlattenSeq([k \in 1..n |-> <<>>]) = <<>>
<1> DEFINE e(k) == [i \in 1..k |-> <<>>]
           S == {k \in Nat : FlattenSeq(e(k)) = <<>>}
<1>0. <<>> \in Seq({}) /\ \A k \in Nat : e(k) \in Seq(Seq({})) /\ Len(e(k)) = k
  OBVIOUS
<1>1. 0 \in S
  <2>1. e(0) = <<>>
    OBVIOUS
  <2>2. FlattenSeq(<<>>) = <<>>
    BY DEF FlattenSeq
  <2> QED
    BY <2>1, <2>2
<1>2. ASSUME NEW k \in Nat, k \in S PROVE k + 1 \in S
  <2>1. e(k + 1) = Append(e(k), <<>>)
    OBVIOUS
  <2>2. FlattenSeq(Append(e(k), <<>>)) = FlattenSeq(e(k)) \o <<>>
    <3> HIDE DEF e
    <3> QED
      BY <1>0, FlattenLast
  <2>3. FlattenSeq(e(k)) = <<>>
    BY <1>2
  <2>4. <<>> \o <<>> = <<>>
    OBVIOUS
  <2>5. FlattenSeq(e(k + 1)) = <<>>
    <3> HIDE DEF e
    <3> QED
      BY <2>1, <2>2, <2>3, <2>4
  <2> QED
    BY <2>5
<1> HIDE DEF S
<1>3. n \in S
  BY <1>1, <1>2, Induction
<1> QED
  BY <1>3 DEF S

\* Sequences of one element each flatten to the sequence of the elements.
LEMMA FlattenSingles ==
    ASSUME NEW T, NEW s \in Seq(T)
    PROVE  FlattenSeq([k \in 1..Len(s) |-> <<s[k]>>]) = s
<1> DEFINE e(k) == [i \in 1..k |-> <<s[i]>>]
           S == {k \in Nat : k <= Len(s) => FlattenSeq(e(k)) = SubSeq(s, 1, k)}
<1>0. \A k \in Nat : k <= Len(s) => e(k) \in Seq(Seq(T)) /\ Len(e(k)) = k
  OBVIOUS
<1>1. 0 \in S
  <2>1. e(0) = <<>> /\ SubSeq(s, 1, 0) = <<>>
    OBVIOUS
  <2>2. FlattenSeq(<<>>) = <<>>
    BY DEF FlattenSeq
  <2> QED
    BY <2>1, <2>2
<1>2. ASSUME NEW k \in Nat, k \in S PROVE k + 1 \in S
  <2> SUFFICES ASSUME k + 1 <= Len(s) PROVE FlattenSeq(e(k + 1)) = SubSeq(s, 1, k + 1)
    <3> HIDE DEF e
    <3> QED
      OBVIOUS
  <2>1. e(k + 1) = Append(e(k), <<s[k + 1]>>) /\ <<s[k + 1]>> \in Seq(T)
    OBVIOUS
  <2>2. FlattenSeq(Append(e(k), <<s[k + 1]>>)) = FlattenSeq(e(k)) \o <<s[k + 1]>>
    <3>1. e(k) \in Seq(Seq(T))
      BY <1>0
    <3> HIDE DEF e
    <3> QED
      BY <2>1, <3>1, FlattenLast
  <2>3. FlattenSeq(e(k)) = SubSeq(s, 1, k)
    BY <1>2
  <2>4. SubSeq(s, 1, k) \o <<s[k + 1]>> = SubSeq(s, 1, k + 1)
    OBVIOUS
  <2> HIDE DEF e
  <2> QED
    BY <2>1, <2>2, <2>3, <2>4
<1> HIDE DEF S
<1>3. \A k \in Nat : k \in S
  BY <1>1, <1>2, Induction
<1>4. Len(s) \in Nat /\ Len(s) <= Len(s) /\ SubSeq(s, 1, Len(s)) = s
  OBVIOUS
<1> QED
  BY <1>3, <1>4 DEF S

\* One sequence flattens to itself.
LEMMA FlattenOne ==
    ASSUME NEW T, NEW e \in Seq(T)
    PROVE  FlattenSeq(<<e>>) = e
<1>1. <<>> \in Seq(Seq(T)) /\ Append(<<>>, e) = <<e>> /\ <<>> \o e = e
  OBVIOUS
<1>2. FlattenSeq(Append(<<>>, e)) = FlattenSeq(<<>>) \o e /\ FlattenSeq(<<>>) = <<>>
  BY <1>1, FlattenLast
<1> QED
  BY <1>1, <1>2

-----------------------------------------------------------------------------
(* The tool calls of a response *)

\* The first n values of o go up.
Rises(o, n) == \A i, j \in 1..n : i < j => o[i] < o[j]

\* Every set of numbers up to a bound can be put in order.
LEMMA CanBeSorted ==
    ASSUME NEW m \in Nat, NEW A \in SUBSET (1..m)
    PROVE  /\ Cardinality(A) \in Nat
           /\ \E o \in [1..Cardinality(A) -> A] : Rises(o, Cardinality(A))
<1> DEFINE Sorted(B) == /\ Cardinality(B) \in Nat
                        /\ \E o \in [1..Cardinality(B) -> B] : Rises(o, Cardinality(B))
           S == {k \in Nat : \A B \in SUBSET (1..k) : Sorted(B)}
<1>1. 0 \in S
  <2>1. Sorted({})
    <3>1. Cardinality({}) = 0
      BY FS_EmptySet
    <3> DEFINE none == [i \in 1..0 |-> 0]
    <3>2. none \in [1..0 -> {}] /\ Rises(none, 0)
      BY DEF Rises
    <3> HIDE DEF none
    <3>3. none \in [1..Cardinality({}) -> {}] /\ Rises(none, Cardinality({}))
      BY <3>1, <3>2
    <3>4. Cardinality({}) \in Nat
      BY <3>1
    <3> QED
      BY <3>3, <3>4
  <2>2. \A B \in SUBSET (1..0) : B = {}
    OBVIOUS
  <2> HIDE DEF Sorted
  <2> QED
    BY <2>1, <2>2
<1>2. ASSUME NEW k \in Nat, k \in S PROVE k + 1 \in S
  <2> SUFFICES ASSUME NEW B \in SUBSET (1..k + 1) PROVE Sorted(B)
    OBVIOUS
  <2>1. CASE k + 1 \notin B
    <3>1. B \in SUBSET (1..k)
      BY <2>1
    <3> HIDE DEF Sorted
    <3> QED
      BY <1>2, <3>1
  <2>2. CASE k + 1 \in B
    <3> DEFINE C == B \ {k + 1}
               c == Cardinality(C)
    <3>1. C \in SUBSET (1..k)
      OBVIOUS
    <3>2. Sorted(C)
      <4> HIDE DEF Sorted, C
      <4> QED
        BY <1>2, <3>1
    <3>3. PICK o \in [1..c -> C] : Rises(o, c)
      BY <3>2
    <3>4. c \in Nat
      BY <3>2
    <3>5. Cardinality(B) = c + 1
      <4>1. IsFiniteSet(1..k + 1)
        <5>1. 1 \in Int /\ k + 1 \in Int
          OBVIOUS
        <5> QED
          BY <5>1, FS_Interval
      <4>2. IsFiniteSet(B)
        BY <4>1, FS_Subset
      <4>3. Cardinality(C) = Cardinality(B) - 1 /\ Cardinality(B) \in Nat
        BY <2>2, <4>2, FS_RemoveElement, FS_CardinalityType
      <4> QED
        BY <4>3
    <3> DEFINE p == [i \in 1..c + 1 |-> IF i = c + 1 THEN k + 1 ELSE o[i]]
    <3> HIDE DEF c
    <3>6. p \in [1..c + 1 -> B]
      <4>1. \A i \in 1..c : o[i] \in B
        BY <3>3
      <4>2. \A i \in 1..c + 1 : i # c + 1 => i \in 1..c
        BY <3>4
      <4> QED
        BY <2>2, <4>1, <4>2
    <3>7. Rises(p, c + 1)
      <4> SUFFICES ASSUME NEW i \in 1..c + 1, NEW j \in 1..c + 1, i < j PROVE p[i] < p[j]
        BY DEF Rises
      <4>1. i \in 1..c /\ p[i] = o[i] /\ o[i] \in 1..k
        <5>1. i \in 1..c /\ i # c + 1
          BY <3>4
        <5>2. o[i] \in C
          BY <3>3, <5>1
        <5> QED
          BY <3>1, <5>1, <5>2
      <4>2. CASE j = c + 1
        BY <3>4, <4>1, <4>2
      <4>3. CASE j \in 1..c
        BY <3>3, <3>4, <4>1, <4>3 DEF Rises
      <4> QED
        BY <3>4, <4>2, <4>3
    <3>8. Cardinality(B) \in Nat
      BY <3>4, <3>5
    <3> HIDE DEF p
    <3> QED
      BY <3>5, <3>6, <3>7, <3>8
  <2> HIDE DEF Sorted
  <2> QED
    BY <2>1, <2>2
<1> HIDE DEF Sorted
<1>3. \A k \in Nat : k \in S
  <2> HIDE DEF S
  <2> QED
    BY <1>1, <1>2, Induction
<1>4. Sorted(A)
  BY <1>3
<1> QED
  BY <1>4 DEF Sorted

\* What a response asks for are calls of its round, one for each index it names.
LEMMA ParsedCalls ==
    ASSUME indices \subseteq 1..MaxIndex, iteration \in 1..MaxIterations
    PROVE  /\ ParseToolCalls \in Seq(Calls)
           /\ Len(ParseToolCalls) = Cardinality(indices)
<1> DEFINE n == Cardinality(indices)
           fits(o) == \A i, j \in 1..n : i < j => o[i] < o[j]
           order == CHOOSE o \in [1..n -> indices] : fits(o)
<1>1. n \in Nat /\ \E o \in [1..n -> indices] : Rises(o, n)
  <2>1. MaxIndex \in Nat
    BY AgentTurnAssumption
  <2> QED
    BY <2>1, CanBeSorted
<1>2. \E o \in [1..n -> indices] : fits(o)
  BY <1>1 DEF Rises
<1>3. order \in [1..n -> indices]
  <2> HIDE DEF fits, n
  <2> QED
    BY <1>2
<1>4. ParseToolCalls = [k \in 1..n |-> [iter |-> iteration, index |-> order[k]]]
  BY DEF ParseToolCalls
<1> HIDE DEF order, n
<1>5. \A k \in 1..n : [iter |-> iteration, index |-> order[k]] \in Calls
  BY <1>3 DEF Calls
<1>6. ParseToolCalls \in [1..n -> Calls]
  BY <1>4, <1>5
<1> QED
  BY <1>1, <1>6 DEF n

-----------------------------------------------------------------------------
(* Messages *)

\* The constructors make messages, of the type they are given.
LEMMA MessagesMade ==
    /\ \A t \in TextTypes, i \in 1..MaxIterations : Text(t, i) \in Message /\ Text(t, i).type = t
    /\ \A c \in Calls : ToolCall(c) \in Message /\ ToolCall(c).type = "tool_call"
    /\ \A c \in Calls, r \in {"ok", "link", "none"} :
          ToolResponse(c, r) \in Message /\ ToolResponse(c, r).type = "tool_response"
    /\ \A t \in EndTypes : End(t) \in Message /\ End(t).type = t
  BY DEF Text, ToolCall, ToolResponse, End, Message

\* Messages of which none announces a tool call.
Silent(ms) == \A k \in 1..Len(ms) : ms[k].type # "tool_call"

\* Messages are pushed, and after a cancellation none of them announces a tool call.
Pushes(ms) ==
    /\ ms \in Seq(Message)
    /\ pushed' = pushed \o ms
    /\ cancelEvent => Silent(ms)

\* What the actions of the turn read and keep.
TurnTyped ==
    /\ pc \in {"call", "chunks", "tools", "record", "drain", "exited", "dead"}
    /\ iteration \in 1..MaxIterations
    /\ attempt \in 0..MaxRetries
    /\ chunks \in 0..MaxChunks
    /\ indices \subseteq 1..MaxIndex
    /\ batch \in Seq(Calls)
    /\ mem \in Seq(Memory)
    /\ rows \in Seq(Row)
    /\ cancelEvent \in BOOLEAN
    /\ outcome \in {"none", "completed", "cancelled", "failed"}
    /\ status \in {"processing", "completed", "cancelled", "failed"}
    /\ pushed \in Seq(Message)
    /\ pc = "tools" => iteration < MaxIterations
    /\ pc = "record" => outcome # "none"

\* Announcing calls pushes one message for each.
LEMMA AnnounceIs ==
    ASSUME NEW calls \in Seq(Calls)
    PROVE  /\ Announce(calls) \in Seq(Message)
           /\ Len(Announce(calls)) = Len(calls)
           /\ \A k \in 1..Len(calls) : Announce(calls)[k] = ToolCall(calls[k])
<1>1. \A k \in 1..Len(calls) : calls[k] \in Calls
  OBVIOUS
<1>2. Len(calls) \in Nat
  OBVIOUS
<1>3. Announce(calls) \in [1..Len(calls) -> Message]
  BY <1>1, MessagesMade DEF Announce
<1> QED
  BY <1>2, <1>3 DEF Announce

\* The responses to the first n calls, of which none raised.
LEMMA ResponsesAre ==
    ASSUME batch \in Seq(Calls), NEW res \in Results, NEW n \in 0..Len(batch),
           \A k \in 1..n : res[k] # "raised"
    PROVE  /\ Responses(res, n) \in Seq(Message)
           /\ Len(Responses(res, n)) = n
           /\ \A k \in 1..n : /\ Responses(res, n)[k] = ToolResponse(batch[k], res[k])
                              /\ Responses(res, n)[k].type = "tool_response"
           /\ \A k \in 1..n : batch[k] \in Calls /\ res[k] \in {"ok", "link", "none"}
<1>1. \A k \in 1..n : k \in 1..Len(batch)
  OBVIOUS
<1>2. res \in [1..Len(batch) -> {"ok", "link", "raised", "none"}]
  BY DEF Results
<1>3. \A k \in 1..n : batch[k] \in Calls /\ res[k] \in {"ok", "link", "none"}
  BY <1>1, <1>2
<1>4. Responses(res, n) \in [1..n -> Message] /\ n \in Nat
  BY <1>3, MessagesMade DEF Responses
<1>5. \A k \in 1..n : Responses(res, n)[k] = ToolResponse(batch[k], res[k])
  BY DEF Responses
<1>6. \A k \in 1..n : ToolResponse(batch[k], res[k]).type = "tool_response"
  BY <1>3, MessagesMade
<1>7. Len(Responses(res, n)) = n
  BY <1>4
<1>8. Responses(res, n) \in Seq(Message)
  BY <1>4
<1> QED
  BY <1>3, <1>5, <1>6, <1>7, <1>8

\* Pushing one more message that announces no call.
LEMMA SilentAppend ==
    ASSUME NEW ms \in Seq(Message), NEW t \in EndTypes
    PROVE  /\ Append(ms, End(t)) \in Seq(Message)
           /\ Silent(ms) => Silent(Append(ms, End(t)))
<1> DEFINE e == End(t)
<1>1. e \in Message /\ e.type # "tool_call"
  BY MessagesMade DEF EndTypes
<1> HIDE DEF e
<1>2. Append(ms, e) \in Seq(Message)
  BY <1>1
<1>3. ASSUME Silent(ms), NEW k \in 1..Len(Append(ms, e)) PROVE Append(ms, e)[k].type # "tool_call"
  <2>1. CASE k = Len(ms) + 1
    BY <1>1, <2>1
  <2>2. CASE k \in 1..Len(ms)
    BY <1>3, <2>2 DEF Silent
  <2> QED
    BY <2>1, <2>2
<1> QED
  BY <1>2, <1>3 DEF Silent, e

\* One text is a message, and announces no call.
LEMMA SilentText ==
    ASSUME NEW t \in TextTypes, NEW i \in 1..MaxIterations
    PROVE  <<Text(t, i)>> \in Seq(Message) /\ Silent(<<Text(t, i)>>)
<1> DEFINE m == Text(t, i)
<1>1. m \in Message /\ m.type # "tool_call"
  BY MessagesMade DEF TextTypes
<1> HIDE DEF m
<1>2. <<m>> \in Seq(Message) /\ Len(<<m>>) = 1 /\ <<m>>[1] = m
  BY <1>1
<1> QED
  BY <1>1, <1>2 DEF Silent, m

\* A run that raises, or completes, has pushed these messages and an end.
LEMMA EndPushes ==
    ASSUME NEW ms \in Seq(Message), cancelEvent => Silent(ms), Raise(ms) \/ Complete(ms)
    PROVE  \E ns \in Seq(Message) : Pushes(ns)
<1>1. \E t \in EndTypes : pushed' = pushed \o Append(ms, End(t))
  BY DEF Raise, Complete, Push, EndTypes
<1>2. PICK t \in EndTypes : pushed' = pushed \o Append(ms, End(t))
  BY <1>1
<1>3. Append(ms, End(t)) \in Seq(Message) /\ (Silent(ms) => Silent(Append(ms, End(t))))
  BY SilentAppend
<1> QED
  BY <1>2, <1>3 DEF Pushes

\* Nothing is pushed.
LEMMA PushesNothing ==
    ASSUME pushed \in Seq(Message), UNCHANGED pushed
    PROVE  Pushes(<<>>) /\ <<>> \in Seq(Message)
<1>1. <<>> \in Seq(Message) /\ pushed \o <<>> = pushed /\ Len(<<>>) = 0
  OBVIOUS
<1> QED
  BY <1>1 DEF Pushes, Silent

\* No message at all announces no call.
LEMMA SilentNothing == <<>> \in Seq(Message) /\ Silent(<<>>)
<1>1. <<>> \in Seq(Message) /\ Len(<<>>) = 0
  OBVIOUS
<1> QED
  BY <1>1 DEF Silent

\* The three messages of a cancelled answer announce no call.
LEMMA SilentCancelled ==
    ASSUME iteration \in 1..MaxIterations
    PROVE  LET ms == <<Text("text_msg_delta", iteration), Text("text_msg_end", iteration),
                       End("stream_end_exception")>>
           IN  ms \in Seq(Message) /\ Silent(ms)
<1> DEFINE a == Text("text_msg_delta", iteration)
           b == Text("text_msg_end", iteration)
           e == End("stream_end_exception")
<1>1. /\ a \in Message /\ b \in Message /\ e \in Message
      /\ a.type # "tool_call" /\ b.type # "tool_call" /\ e.type # "tool_call"
  <2>1. a \in Message /\ a.type = "text_msg_delta"
    BY MessagesMade DEF TextTypes
  <2>2. b \in Message /\ b.type = "text_msg_end"
    BY MessagesMade DEF TextTypes
  <2>3. e \in Message /\ e.type = "stream_end_exception"
    BY MessagesMade DEF EndTypes
  <2> HIDE DEF a, b, e
  <2> QED
    BY <2>1, <2>2, <2>3
<1> HIDE DEF a, b, e
<1>2. <<a, b, e>> \in Seq(Message) /\ Silent(<<a, b, e>>)
  BY <1>1 DEF Silent
<1> QED
  BY <1>2 DEF a, b, e

\* A step of the turn pushes messages behind the ones there are, and after the user has
\* cancelled it announces no tool call.
LEMMA TurnPushes ==
    ASSUME TurnTyped, Turn
    PROVE  \E ms \in Seq(Message) : Pushes(ms)
<1>0. /\ pushed \in Seq(Message) /\ iteration \in 1..MaxIterations
      /\ indices \subseteq 1..MaxIndex /\ batch \in Seq(Calls)
  BY DEF TurnTyped
<1>1. <<>> \in Seq(Message) /\ Silent(<<>>)
  BY SilentNothing
<1>2. ASSUME NEW t \in TextTypes, Push(<<Text(t, iteration)>>)
      PROVE  \E ms \in Seq(Message) : Pushes(ms)
  BY <1>0, <1>2, SilentText DEF Pushes, Push
<1>3. ASSUME UNCHANGED pushed PROVE \E ms \in Seq(Message) : Pushes(ms)
  BY <1>0, <1>3, PushesNothing
<1>4. <<Text("text_msg_end", iteration)>> \in Seq(Message)
      /\ Silent(<<Text("text_msg_end", iteration)>>)
  BY <1>0, SilentText DEF TextTypes
<1>5. CASE CallAnswers
  <2>1. Push(<<Text("text_msg_begin", iteration)>>)
    BY <1>5 DEF CallAnswers
  <2> QED
    BY <1>2, <2>1 DEF TextTypes
<1>6. CASE CallLimited
  <2>1. UNCHANGED pushed \/ Raise(<<>>)
    BY <1>6 DEF CallLimited
  <2> QED
    BY <1>1, <1>3, <2>1, EndPushes
<1>7. CASE CallRaises
  <2>1. Raise(<<>>)
    BY <1>7 DEF CallRaises
  <2> QED
    BY <1>1, <2>1, EndPushes
<1>8. CASE ChunkStop
  <2>1. Complete(<<Text("text_msg_end", iteration)>>)
    BY <1>8 DEF ChunkStop
  <2> QED
    BY <1>4, <2>1, EndPushes
<1>9. CASE ChunksEnd
  <2>1. Complete(<<>>)
    BY <1>9 DEF ChunksEnd
  <2> QED
    BY <1>1, <2>1, EndPushes
<1>10. CASE ChunkCancelled
  BY <1>0, <1>10, SilentCancelled DEF ChunkCancelled, Push, Pushes
<1>11. CASE ChunkToolCalls
  <2> DEFINE text == <<Text("text_msg_end", iteration)>>
             announced == text \o Announce(ParseToolCalls)
  <2>1. ~cancelEvent /\ (Raise(text) \/ Raise(announced) \/ Push(announced))
    BY <1>11 DEF ChunkToolCalls, Chunk
  <2>2. announced \in Seq(Message)
    <3>1. Announce(ParseToolCalls) \in Seq(Message)
      BY <1>0, ParsedCalls, AnnounceIs
    <3> QED
      BY <1>4, <3>1
  <2> HIDE DEF text, announced
  <2>3. CASE Push(announced)
    BY <2>1, <2>2, <2>3 DEF Push, Pushes
  <2>4. text \in Seq(Message)
    BY <1>4 DEF text
  <2> QED
    BY <2>1, <2>2, <2>3, <2>4, EndPushes
<1>12. CASE \E ds \in SUBSET (1..MaxIndex) : ChunkDelta(ds)
  <2>1. Push(<<Text("text_msg_delta", iteration)>>) \/ UNCHANGED pushed
    BY <1>12 DEF ChunkDelta
  <2>2. "text_msg_delta" \in TextTypes
    BY DEF TextTypes
  <2> QED
    BY <1>2, <1>3, <2>1, <2>2
<1>13. ASSUME NEW res \in Results, NEW n \in 0..Len(batch), \A k \in 1..n : res[k] # "raised"
       PROVE  Responses(res, n) \in Seq(Message) /\ Silent(Responses(res, n))
  <2>1. /\ Responses(res, n) \in Seq(Message)
        /\ Len(Responses(res, n)) = n
        /\ \A k \in 1..n : Responses(res, n)[k].type = "tool_response"
    BY <1>0, <1>13, ResponsesAre
  <2> QED
    BY <2>1 DEF Silent
<1>14. CASE ToolsComplete
  <2>1. PICK res \in Results : /\ \A k \in 1..Len(batch) : res[k] # "raised"
                               /\ Push(Responses(res, Len(batch)))
    BY <1>14 DEF ToolsComplete
  <2>2. Len(batch) \in 0..Len(batch)
    BY <1>0
  <2>3. Responses(res, Len(batch)) \in Seq(Message) /\ Silent(Responses(res, Len(batch)))
    BY <1>13, <2>1, <2>2
  <2> QED
    BY <2>1, <2>3 DEF Push, Pushes
<1>15. CASE ToolsRaise
  <2>1. PICK res \in Results, n \in 1..Len(batch) :
             /\ \A k \in 1..Len(batch) : res[k] = "raised" => n <= k
             /\ Raise(Responses(res, n - 1))
    BY <1>15 DEF ToolsRaise
  <2>2. n - 1 \in 0..Len(batch) /\ \A k \in 1..(n - 1) : k \in 1..Len(batch) /\ ~(n <= k)
    BY <1>0
  <2>3. Responses(res, n - 1) \in Seq(Message) /\ Silent(Responses(res, n - 1))
    BY <1>13, <2>1, <2>2
  <2> QED
    BY <2>1, <2>3, EndPushes
<1>16. CASE Record \/ DrainAndStop
  <2>1. UNCHANGED pushed
    BY <1>16 DEF Record, DrainAndStop
  <2> QED
    BY <1>3, <2>1
<1>17. CASE RecordFault
  <2>1. UNCHANGED pushed \/ Raise(<<>>)
    BY <1>17 DEF RecordFault
  <2> QED
    BY <1>1, <1>3, <2>1, EndPushes
<1> QED
  BY <1>5, <1>6, <1>7, <1>8, <1>9, <1>10, <1>11, <1>12, <1>14, <1>15, <1>16, <1>17 DEF Turn

-----------------------------------------------------------------------------
(* Rows and memories *)

\* A row, but for its number.
Unnumbered == [type : {"text"}, of : 1..MaxIterations]
                \cup [type : {"tool_call", "session_link"}, of : Calls]

\* A number makes a row of it.
LEMMA NumberMakesRow ==
    ASSUME NEW r \in Unnumbered, NEW n \in Nat
    PROVE  /\ [seq |-> n, type |-> r.type, of |-> r.of] \in Row
           /\ [type |-> r.type, of |-> r.of] = r
<1>1. CASE r \in [type : {"text"}, of : 1..MaxIterations]
  BY <1>1 DEF Row
<1>2. CASE r \in [type : {"tool_call", "session_link"}, of : Calls]
  BY <1>2 DEF Row
<1> QED
  BY <1>1, <1>2 DEF Unnumbered

\* The rows that are added are numbered from where the rows end.
LEMMA NumberedIs ==
    ASSUME rows \in Seq(Row), NEW rs \in Seq(Unnumbered)
    PROVE  /\ Numbered(rs) \in Seq(Row)
           /\ Len(Numbered(rs)) = Len(rows) + Len(rs)
           /\ \A k \in 1..Len(rows) : Numbered(rs)[k] = rows[k]
           /\ \A k \in 1..Len(rs) :
                 Numbered(rs)[Len(rows) + k] =
                     [seq |-> Len(rows) + k - 1, type |-> rs[k].type, of |-> rs[k].of]
<1> DEFINE new(k) == [seq |-> Len(rows) + k - 1, type |-> rs[k].type, of |-> rs[k].of]
           added == [k \in 1..Len(rs) |-> new(k)]
<1>1. Len(rows) \in Nat /\ Len(rs) \in Nat
  OBVIOUS
<1>2. \A k \in 1..Len(rs) : new(k) \in Row
  <2> TAKE k \in 1..Len(rs)
  <2>1. rs[k] \in Unnumbered /\ Len(rows) + k - 1 \in Nat
    BY <1>1
  <2> QED
    BY <2>1, NumberMakesRow
<1>3. Numbered(rs) = rows \o added
  BY DEF Numbered
<1> HIDE DEF new
<1>4. added \in Seq(Row) /\ Len(added) = Len(rs) /\ \A k \in 1..Len(rs) : added[k] = new(k)
  BY <1>1, <1>2
<1> HIDE DEF added
<1>5. /\ rows \o added \in Seq(Row)
      /\ Len(rows \o added) = Len(rows) + Len(rs)
      /\ \A k \in 1..Len(rows) : (rows \o added)[k] = rows[k]
      /\ \A k \in 1..Len(rs) : (rows \o added)[Len(rows) + k] = added[k]
  BY <1>1, <1>4
<1> QED
  BY <1>3, <1>4, <1>5 DEF new

\* The row of a text.
LEMMA TextRow ==
    ASSUME iteration \in 1..MaxIterations
    PROVE  LET r == [type |-> "text", of |-> iteration]
           IN  r \in Unnumbered /\ <<r>> \in Seq(Unnumbered)
<1> DEFINE r == [type |-> "text", of |-> iteration]
<1>1. r \in Unnumbered
  BY DEF Unnumbered
<1> HIDE DEF r
<1>2. <<r>> \in Seq(Unnumbered)
  BY <1>1
<1> QED
  BY <1>1, <1>2 DEF r

\* The rows of one call.
LEMMA CallRowsAre ==
    ASSUME NEW c \in Calls, NEW r \in {"ok", "link", "none"}
    PROVE  CallRows(c, r) \in Seq(Unnumbered)
<1> DEFINE a == [type |-> "tool_call", of |-> c]
           b == [type |-> "session_link", of |-> c]
<1>1. a \in Unnumbered /\ b \in Unnumbered
  BY DEF Unnumbered
<1>2. CallRows(c, r) \in {<<a>>, <<a, b>>, <<>>}
  BY DEF CallRows
<1> HIDE DEF a, b
<1>3. <<a>> \in Seq(Unnumbered) /\ <<a, b>> \in Seq(Unnumbered) /\ <<>> \in Seq(Unnumbered)
  BY <1>1
<1> QED
  BY <1>2, <1>3

\* The rows of every call of a batch.
RowsOfBatch(res) == [k \in 1..Len(batch) |-> CallRows(batch[k], res[k])]

\* The rows of a batch none of whose calls raised.
LEMMA BatchRowsAre ==
    ASSUME batch \in Seq(Calls), NEW res \in Results, \A k \in 1..Len(batch) : res[k] # "raised"
    PROVE  /\ RowsOfBatch(res) \in Seq(Seq(Unnumbered))
           /\ FlattenSeq(RowsOfBatch(res)) \in Seq(Unnumbered)
<1>1. Len(batch) \in Nat /\ Len(batch) \in 0..Len(batch)
  OBVIOUS
<1>2. \A k \in 1..Len(batch) : batch[k] \in Calls /\ res[k] \in {"ok", "link", "none"}
  BY <1>1, ResponsesAre
<1>3. RowsOfBatch(res) \in [1..Len(batch) -> Seq(Unnumbered)]
  BY <1>2, CallRowsAre DEF RowsOfBatch
<1>4. RowsOfBatch(res) \in Seq(Seq(Unnumbered))
  BY <1>1, <1>3
<1>5. <<>> \in Seq(Unnumbered)
  OBVIOUS
<1> QED
  BY <1>4, <1>5, FlattenLast

\* An assistant message with its calls, and the answer to a call, are memories.
LEMMA MemoriesMade ==
    /\ \A calls \in Seq(Calls) : Assistant(calls) \in Memory /\ Assistant(calls).calls = calls
    /\ \A c \in Calls : LET m == [role |-> "tool", calls |-> <<>>, call |-> c]
                        IN  m \in Memory /\ m.calls = <<>>
  BY DEF Assistant, Memory

\* The answers to a batch.
LEMMA ToolMemoriesAre ==
    ASSUME batch \in Seq(Calls)
    PROVE  /\ ToolMemories \in Seq(Memory)
           /\ Len(ToolMemories) = Len(batch)
           /\ \A k \in 1..Len(batch) :
                 ToolMemories[k] = [role |-> "tool", calls |-> <<>>, call |-> batch[k]]
<1> DEFINE m(k) == [role |-> "tool", calls |-> <<>>, call |-> batch[k]]
<1>1. \A k \in 1..Len(batch) : m(k) \in Memory
  <2> TAKE k \in 1..Len(batch)
  <2>1. batch[k] \in Calls
    OBVIOUS
  <2> QED
    BY <2>1, MemoriesMade
<1>2. ToolMemories = [k \in 1..Len(batch) |-> m(k)]
  BY DEF ToolMemories
<1>3. Len(batch) \in Nat
  OBVIOUS
<1> HIDE DEF m
<1>4. ToolMemories \in [1..Len(batch) -> Memory]
  BY <1>1, <1>2
<1>5. \A k \in 1..Len(batch) : ToolMemories[k] = m(k)
  BY <1>2
<1>6. ToolMemories \in Seq(Memory) /\ Len(ToolMemories) = Len(batch)
  BY <1>3, <1>4
<1> QED
  BY <1>5, <1>6 DEF m

-----------------------------------------------------------------------------
(* Types *)

\* The turn keeps its types when it raises: what was collected is dropped.
LEMMA RaiseTyped ==
    ASSUME TurnTyped, NEW ms, Raise(ms), pushed' \in Seq(Message), UNCHANGED status
    PROVE  TurnTyped'
<1>1. /\ <<>> \in Seq(Calls) /\ <<>> \in Seq(Memory) /\ <<>> \in Seq(Row)
      /\ 0 \in 0..MaxRetries /\ 0 \in 0..MaxChunks
  BY AgentTurnAssumption
<1> QED
  BY <1>1 DEF TurnTyped, Raise, Forget

\* And when it completes.
LEMMA CompleteTyped ==
    ASSUME TurnTyped, NEW ms, Complete(ms), pushed' \in Seq(Message), UNCHANGED status,
           mem' \in Seq(Memory), rows' \in Seq(Row)
    PROVE  TurnTyped'
<1>1. /\ <<>> \in Seq(Calls)
      /\ 0 \in 0..MaxRetries /\ 0 \in 0..MaxChunks
  BY AgentTurnAssumption
<1> QED
  BY <1>1 DEF TurnTyped, Complete, Forget

\* The text of a response is a row, and a memory without calls.
LEMMA TextIsKept ==
    ASSUME TurnTyped
    PROVE  /\ WithText \in Seq(Row)
           /\ Append(mem, Assistant(<<>>)) \in Seq(Memory)
<1>1. rows \in Seq(Row) /\ mem \in Seq(Memory) /\ iteration \in 1..MaxIterations
  BY DEF TurnTyped
<1>2. WithText \in Seq(Row)
  BY <1>1, TextRow, NumberedIs DEF WithText
<1>3. Assistant(<<>>) \in Memory
  <2>1. <<>> \in Seq(Calls)
    OBVIOUS
  <2> QED
    BY <2>1, MemoriesMade
<1> QED
  BY <1>1, <1>2, <1>3

\* A step of the turn keeps the types of what the turn works on.
LEMMA TurnKeepsTyped ==
    ASSUME TurnTyped, Turn
    PROVE  TurnTyped'
<1>1. pushed' \in Seq(Message)
  <2>1. PICK ms \in Seq(Message) : Pushes(ms)
    BY TurnPushes
  <2>2. pushed \in Seq(Message) /\ pushed' = pushed \o ms
    BY <2>1 DEF Pushes, TurnTyped
  <2> QED
    BY <2>2
<1>2. /\ <<>> \in Seq(Calls) /\ 0 \in 0..MaxRetries /\ 0 \in 0..MaxChunks
      /\ MaxIterations \in Nat /\ MaxRetries \in Nat /\ MaxChunks \in Nat
  BY AgentTurnAssumption
<1>3. WithText \in Seq(Row) /\ Append(mem, Assistant(<<>>)) \in Seq(Memory)
  BY TextIsKept
<1>4. CASE CallAnswers
  BY <1>1, <1>2, <1>4 DEF CallAnswers, Forget, TurnTyped, endVars
<1>5. CASE CallLimited
  <2>1. CASE pc = "call" /\ Raise(<<>>) /\ UNCHANGED status
    BY <1>1, <2>1, RaiseTyped
  <2>2. CASE /\ attempt < MaxRetries /\ attempt' = attempt + 1 /\ pc = "call"
             /\ UNCHANGED <<pc, chunks, indices, batch, iteration, mem, rows, cancelEvent,
                            pushed, outcome, status>>
    BY <1>2, <2>2 DEF TurnTyped
  <2> QED
    BY <1>5, <2>1, <2>2 DEF CallLimited
<1>6. CASE CallRaises
  BY <1>1, <1>6, RaiseTyped DEF CallRaises
<1>7. CASE ChunkStop
  BY <1>1, <1>3, <1>7, CompleteTyped DEF ChunkStop
<1>8. CASE ChunksEnd
  <2>1. mem' \in Seq(Memory) /\ rows' \in Seq(Row)
    BY <1>8 DEF ChunksEnd, TurnTyped
  <2> QED
    BY <1>1, <1>8, <2>1, CompleteTyped DEF ChunksEnd
<1>9. CASE ChunkCancelled
  BY <1>1, <1>2, <1>3, <1>9 DEF ChunkCancelled, Forget, TurnTyped
<1>10. CASE ChunkToolCalls
  <2>1. CASE \E ms : Raise(ms) /\ UNCHANGED status
    BY <1>1, <2>1, RaiseTyped
  <2>2. CASE /\ batch' = ParseToolCalls /\ rows' = WithText /\ pc' = "tools"
             /\ iteration < MaxIterations
             /\ UNCHANGED <<attempt, chunks, indices, iteration, mem, cancelEvent, outcome, status>>
    <3>1. ParseToolCalls \in Seq(Calls)
      BY ParsedCalls DEF TurnTyped
    <3> QED
      BY <1>1, <1>3, <2>2, <3>1 DEF TurnTyped
  <2> QED
    BY <1>10, <2>1, <2>2 DEF ChunkToolCalls
<1>11. CASE \E ds \in SUBSET (1..MaxIndex) : ChunkDelta(ds)
  <2>1. PICK ds \in SUBSET (1..MaxIndex) : ChunkDelta(ds)
    BY <1>11
  <2>2. /\ pc = "chunks" /\ chunks < MaxChunks /\ chunks' = chunks + 1
        /\ indices' = indices \cup ds
        /\ UNCHANGED <<pc, attempt, batch, iteration, mem, rows, cancelEvent, outcome, status>>
    BY <2>1 DEF ChunkDelta, Chunk, endVars
  <2> QED
    BY <1>1, <1>2, <2>2 DEF TurnTyped
<1>12. CASE ToolsComplete
  <2>1. PICK res \in Results :
             /\ \A k \in 1..Len(batch) : res[k] # "raised"
             /\ rows' = Numbered(FlattenSeq(RowsOfBatch(res)))
    BY <1>12 DEF ToolsComplete, RowsOfBatch
  <2>2. batch \in Seq(Calls) /\ rows \in Seq(Row) /\ mem \in Seq(Memory)
    BY DEF TurnTyped
  <2>3. rows' \in Seq(Row)
    BY <2>1, <2>2, BatchRowsAre, NumberedIs
  <2>4. mem' \in Seq(Memory)
    <3>1. mem' = Append(mem, Assistant(batch)) \o ToolMemories
      BY <1>12 DEF ToolsComplete
    <3>2. Assistant(batch) \in Memory /\ ToolMemories \in Seq(Memory)
      BY <2>2, MemoriesMade, ToolMemoriesAre
    <3> QED
      BY <2>2, <3>1, <3>2
  <2>5. /\ pc = "tools" /\ pc' = "call" /\ iteration' = iteration + 1
        /\ Forget
        /\ UNCHANGED <<cancelEvent, outcome, status>>
    BY <1>12 DEF ToolsComplete, endVars
  <2> QED
    BY <1>1, <1>2, <2>3, <2>4, <2>5 DEF TurnTyped, Forget
<1>13. CASE ToolsRaise
  <2>1. \E ms : Raise(ms) /\ UNCHANGED status
    BY <1>13 DEF ToolsRaise
  <2> QED
    BY <1>1, <2>1, RaiseTyped
<1>14. CASE Record
  BY <1>14 DEF Record, turnVars, localVars, TurnTyped
<1>15. CASE RecordFault
  <2>1. CASE Raise(<<>>) /\ UNCHANGED status
    BY <1>1, <2>1, RaiseTyped
  <2>2. CASE pc' = "drain" /\ UNCHANGED <<turnVars, cancelEvent, pushed, outcome, status>>
    BY <2>2 DEF TurnTyped, turnVars, localVars
  <2> QED
    BY <1>15, <2>1, <2>2 DEF RecordFault
<1>16. CASE DrainAndStop
  BY <1>16 DEF DrainAndStop, turnVars, localVars, endVars, TurnTyped
<1> QED
  BY <1>4, <1>5, <1>6, <1>7, <1>8, <1>9, <1>10, <1>11, <1>12, <1>13, <1>14, <1>15, <1>16 DEF Turn

\* What the queue and the stream are.
QueueTyped ==
    /\ handled \in 0..Len(pushed)
    /\ lost \subseteq 1..handled
    /\ processor \in BOOLEAN
    /\ stream \in Seq(Message)
    /\ exists \in BOOLEAN

\* What the clients are: none has more than there is.
ClientsTyped ==
    /\ conn \in [Clients -> {"off", "open", "ended", "gone"}]
    /\ got \in [Clients -> Seq(Message)]
    /\ currentId \in [Clients -> 0..Len(stream)]
    /\ checks \in [Clients -> 0..MaxChecks]
    /\ reads \in [Clients -> 0..MaxReads]
    /\ connects \in [Clients -> 0..MaxConnects]
    /\ \A c \in Clients : Len(got[c]) <= Len(stream)

\* The turn, the queue and the clients are what they are, at every moment.
AllTyped == TurnTyped /\ QueueTyped /\ ClientsTyped /\ ReadersAhead

\* A step of the turn leaves the queue at least as long as it was.
LEMMA TurnKeepsQueue ==
    ASSUME TurnTyped, QueueTyped, Turn
    PROVE  QueueTyped'
<1>1. PICK ms \in Seq(Message) : Pushes(ms)
  BY TurnPushes
<1>2. Len(pushed') \in Nat /\ Len(pushed) <= Len(pushed')
  <2>1. pushed \in Seq(Message) /\ pushed' = pushed \o ms
    BY <1>1 DEF Pushes, TurnTyped
  <2> QED
    BY <2>1
<1>3. /\ UNCHANGED <<handled, lost, stream, exists>>
      /\ UNCHANGED processor \/ processor' = FALSE
  BY TurnTouches
<1>4. Len(pushed) \in Nat
  BY DEF TurnTyped
<1>5. handled' \in 0..Len(pushed')
  BY <1>2, <1>3, <1>4 DEF QueueTyped
<1>6. lost' \subseteq 1..handled' /\ stream' \in Seq(Message)
  BY <1>3 DEF QueueTyped
<1>7. processor' \in BOOLEAN /\ exists' \in BOOLEAN
  BY <1>3, Zenon DEF QueueTyped
<1> QED
  BY <1>5, <1>6, <1>7 DEF QueueTyped

\* And the clients where they are.
LEMMA TurnKeepsClients ==
    ASSUME ClientsTyped, Turn \/ CancelArrives \/ Crash \/ StreamExpires
    PROVE  ClientsTyped'
<1>1. ASSUME Turn PROVE UNCHANGED <<clientVars, stream>>
  BY <1>1, TurnTouches
<1>2. ASSUME CancelArrives \/ Crash \/ StreamExpires PROVE UNCHANGED <<clientVars, stream>>
  BY <1>2 DEF CancelArrives, Crash, StreamExpires, queueVars
<1>3. UNCHANGED <<clientVars, stream>>
  BY <1>1, <1>2
<1> QED
  BY <1>3 DEF ClientsTyped, clientVars

\* The processor is done with one message more.
LEMMA ProcessTyped ==
    ASSUME TurnTyped, QueueTyped, ClientsTyped, Process
    PROVE  TurnTyped' /\ QueueTyped' /\ ClientsTyped'
<1>1. /\ pushed \in Seq(Message) /\ Len(pushed) \in Nat
      /\ handled \in 0..Len(pushed) /\ lost \subseteq 1..handled
      /\ stream \in Seq(Message) /\ Len(stream) \in Nat
  BY DEF TurnTyped, QueueTyped
<1>2. /\ handled < Len(pushed) /\ handled' = handled + 1
      /\ UNCHANGED <<pc, turnVars, cancelEvent, endVars, pushed, processor, clientVars>>
  BY DEF Process
<1>3. TurnTyped'
  BY <1>2 DEF TurnTyped, turnVars, localVars, endVars
<1>4. handled' \in 0..Len(pushed') /\ handled + 1 \in 1..handled' /\ handled + 1 \in 1..Len(pushed)
  BY <1>1, <1>2
<1>5. CASE /\ stream' = Append(stream, pushed[handled + 1])
           /\ exists' = TRUE /\ UNCHANGED lost
  <2>1. pushed[handled + 1] \in Message
    BY <1>1, <1>4
  <2>2. stream' \in Seq(Message) /\ Len(stream') = Len(stream) + 1
    BY <1>1, <1>5, <2>1
  <2>3. lost' \subseteq 1..handled'
    BY <1>1, <1>2, <1>5
  <2>4. processor' \in BOOLEAN /\ exists' \in BOOLEAN
    BY <1>2, <1>5, Zenon DEF QueueTyped
  <2>5. ClientsTyped'
    <3>1. \A k \in 0..Len(stream) : k \in 0..Len(stream')
      BY <1>1, <2>2
    <3>2. \A c \in Clients : Len(got[c]) \in Nat /\ Len(got[c]) <= Len(stream')
      BY <1>1, <2>2 DEF ClientsTyped
    <3> QED
      BY <1>2, <3>1, <3>2 DEF ClientsTyped, clientVars
  <2> QED
    BY <1>3, <1>4, <2>2, <2>3, <2>4, <2>5 DEF QueueTyped
<1>6. CASE lost' = lost \cup {handled + 1} /\ UNCHANGED <<stream, exists>>
  <2>1. lost' \subseteq 1..handled'
    BY <1>1, <1>2, <1>4, <1>6
  <2>2. processor' \in BOOLEAN /\ exists' \in BOOLEAN
    BY <1>2, <1>6, Zenon DEF QueueTyped
  <2>3. stream' \in Seq(Message)
    BY <1>1, <1>6
  <2>4. ClientsTyped'
    BY <1>2, <1>6 DEF ClientsTyped, clientVars
  <2> QED
    BY <1>3, <1>4, <2>1, <2>2, <2>3, <2>4 DEF QueueTyped
<1> QED
  BY <1>5, <1>6 DEF Process

\* A connection that is left keeps its client's types.
LEMMA LeaveTyped ==
    ASSUME ClientsTyped, NEW c \in Clients, NEW how \in {"off", "ended", "gone"}, Leave(c, how),
           UNCHANGED <<stream, connects>>, got' \in [Clients -> Seq(Message)],
           \A d \in Clients : Len(got'[d]) <= Len(stream), stream \in Seq(Message)
    PROVE  ClientsTyped'
<1>1. MaxChecks \in Nat /\ MaxReads \in Nat /\ 0 \in 0..Len(stream)
  BY AgentTurnAssumption
<1>2. /\ conn' \in [Clients -> {"off", "open", "ended", "gone"}]
      /\ currentId' \in [Clients -> 0..Len(stream)]
  BY <1>1 DEF ClientsTyped, Leave
<1>3. checks' \in [Clients -> 0..MaxChecks] /\ reads' \in [Clients -> 0..MaxReads]
  BY <1>1 DEF ClientsTyped, Leave
<1> QED
  BY <1>2, <1>3 DEF ClientsTyped

\* So does one that goes on.
LEMMA ContinueTyped ==
    ASSUME ClientsTyped, NEW c \in Clients, NEW id \in 0..Len(stream),
           NEW n \in 0..MaxChecks, NEW r \in 0..MaxReads, Continue(c, id, n, r),
           UNCHANGED <<stream, connects>>, got' \in [Clients -> Seq(Message)],
           \A d \in Clients : Len(got'[d]) <= Len(stream)
    PROVE  ClientsTyped'
  BY DEF ClientsTyped, Continue

\* A step of a client keeps the types of the clients.
LEMMA ClientTyped ==
    ASSUME ClientsTyped, ReadersAhead, stream \in Seq(Message),
           NEW c \in Clients, Connect(c) \/ Disconnect(c) \/ Listen(c)
    PROVE  ClientsTyped'
<1>1. /\ MaxChecks \in Nat \ {0} /\ MaxReads \in Nat \ {0} /\ MaxConnects \in Nat
      /\ Len(stream) \in Nat /\ 0 \in 0..MaxChecks /\ 0 \in 0..MaxReads
  BY AgentTurnAssumption
<1>2. /\ got \in [Clients -> Seq(Message)] /\ Len(got[c]) \in Nat
      /\ Len(got[c]) <= Len(stream)
      /\ currentId[c] \in 0..Len(stream)
      /\ checks[c] \in 0..MaxChecks /\ reads[c] \in 0..MaxReads
      /\ conn[c] = "open" => currentId[c] = Len(got[c])
  BY DEF ClientsTyped, ReadersAhead
<1>3. UNCHANGED stream
  BY DEF Connect, Disconnect, Listen, NoStream, ReadNext, ReadNothing, queueVars
<1>4. CASE Connect(c)
  <2>1. /\ conn' = [conn EXCEPT ![c] = "open"]
        /\ connects' = [connects EXCEPT ![c] = @ + 1]
        /\ connects[c] < MaxConnects
        /\ currentId' = [currentId EXCEPT ![c] = Len(got[c])]
        /\ checks' = [checks EXCEPT ![c] = 0]
        /\ reads' = [reads EXCEPT ![c] = 0]
        /\ UNCHANGED got
    BY <1>4 DEF Connect
  <2>2. Len(got[c]) \in 0..Len(stream)
    BY <1>1, <1>2
  <2>3. connects' \in [Clients -> 0..MaxConnects]
    BY <1>1, <2>1 DEF ClientsTyped
  <2> QED
    BY <1>1, <1>3, <2>1, <2>2, <2>3 DEF ClientsTyped
<1>5. CASE Disconnect(c)
  BY <1>3, <1>5, LeaveTyped DEF Disconnect, ClientsTyped
<1>6. CASE NoStream(c)
  <2>1. UNCHANGED <<got, connects>>
    BY <1>6 DEF NoStream
  <2>2. CASE Leave(c, "gone")
    BY <1>3, <2>1, <2>2, LeaveTyped DEF ClientsTyped
  <2>3. CASE checks[c] + 1 < MaxChecks /\ Continue(c, currentId[c], checks[c] + 1, reads[c])
    <3>1. checks[c] + 1 \in 0..MaxChecks
      BY <1>1, <1>2, <2>3
    <3> QED
      BY <1>2, <1>3, <2>1, <2>3, <3>1, ContinueTyped DEF ClientsTyped
  <2> QED
    BY <1>6, <2>2, <2>3 DEF NoStream
<1>7. CASE ReadNothing(c)
  <2>1. UNCHANGED <<got, connects>>
    BY <1>7 DEF ReadNothing
  <2>2. CASE Leave(c, "gone")
    BY <1>3, <2>1, <2>2, LeaveTyped DEF ClientsTyped
  <2>3. CASE reads[c] + 1 < MaxReads /\ Continue(c, currentId[c], 0, reads[c] + 1)
    <3>1. reads[c] + 1 \in 0..MaxReads
      BY <1>1, <1>2, <2>3
    <3> QED
      BY <1>1, <1>2, <1>3, <2>1, <2>3, <3>1, ContinueTyped DEF ClientsTyped
  <2> QED
    BY <1>7, <2>2, <2>3 DEF ReadNothing
<1>8. CASE ReadNext(c)
  <2> DEFINE m == stream[currentId[c] + 1]
  <2>1. /\ conn[c] = "open" /\ currentId[c] < Len(stream)
        /\ UNCHANGED connects
        /\ \/ /\ got' = [got EXCEPT ![c] = Append(@, m)]
              /\ Continue(c, currentId[c] + 1, 0, 0) \/ Leave(c, "ended")
           \/ Leave(c, "off") /\ UNCHANGED got
    BY <1>8 DEF ReadNext
  <2>2. currentId[c] + 1 \in 0..Len(stream) /\ m \in Message
    BY <1>1, <1>2, <2>1
  <2>3. CASE Leave(c, "off") /\ UNCHANGED got
    BY <1>3, <2>1, <2>3, LeaveTyped DEF ClientsTyped
  <2>4. CASE /\ got' = [got EXCEPT ![c] = Append(@, m)]
             /\ Continue(c, currentId[c] + 1, 0, 0) \/ Leave(c, "ended")
    <3> HIDE DEF m
    <3>1. got[c] \in Seq(Message)
      BY <1>2
    <3>2. Append(got[c], m) \in Seq(Message) /\ Len(Append(got[c], m)) = Len(got[c]) + 1
      BY <2>2, <3>1
    <3>3. got' \in [Clients -> Seq(Message)]
      BY <1>2, <2>4, <3>2
    <3>4. \A d \in Clients : Len(got'[d]) <= Len(stream)
      <4>1. got'[c] = Append(got[c], m) /\ \A d \in Clients : d # c => got'[d] = got[d]
        BY <1>2, <2>4
      <4>2. Len(got[c]) + 1 <= Len(stream)
        BY <1>1, <1>2, <2>1
      <4> QED
        BY <3>2, <4>1, <4>2 DEF ClientsTyped
    <3>5. CASE Leave(c, "ended")
      BY <1>3, <2>1, <3>3, <3>4, <3>5, LeaveTyped
    <3>6. CASE Continue(c, currentId[c] + 1, 0, 0)
      BY <1>1, <1>3, <2>1, <2>2, <3>3, <3>4, <3>6, ContinueTyped
    <3> QED
      BY <2>4, <3>5, <3>6
  <2> QED
    BY <2>1, <2>3, <2>4
<1> QED
  BY <1>4, <1>5, <1>6, <1>7, <1>8 DEF Listen

\* Everything is what it is when the turn begins.
LEMMA TypedInit == Init => AllTyped
<1> SUFFICES ASSUME Init PROVE AllTyped
  OBVIOUS
<1>1. /\ <<>> \in Seq(Calls) /\ <<>> \in Seq(Memory) /\ <<>> \in Seq(Row) /\ <<>> \in Seq(Message)
      /\ Len(<<>>) = 0
  OBVIOUS
<1>2. /\ MaxIterations \in Nat \ {0} /\ 0 \in 0..MaxRetries /\ 0 \in 0..MaxChunks
      /\ 0 \in 0..MaxChecks /\ 0 \in 0..MaxReads /\ 0 \in 0..MaxConnects
  BY AgentTurnAssumption
<1>3. TurnTyped
  <2>1. /\ pc = "call" /\ iteration \in 1..MaxIterations /\ attempt \in 0..MaxRetries
        /\ chunks \in 0..MaxChunks /\ indices \subseteq 1..MaxIndex
    BY <1>2 DEF Init
  <2>2. batch \in Seq(Calls) /\ mem \in Seq(Memory) /\ rows \in Seq(Row) /\ pushed \in Seq(Message)
    BY <1>1, Zenon DEF Init
  <2>3. cancelEvent \in BOOLEAN /\ outcome = "none" /\ status = "processing"
    BY Zenon DEF Init
  <2> QED
    BY <2>1, <2>2, <2>3 DEF TurnTyped
<1>4. QueueTyped
  <2>1. handled \in 0..Len(pushed) /\ lost \subseteq 1..handled
    BY <1>1 DEF Init
  <2>2. processor \in BOOLEAN /\ exists \in BOOLEAN /\ stream \in Seq(Message)
    BY <1>1, Zenon DEF Init
  <2> QED
    BY <2>1, <2>2 DEF QueueTyped
<1>5. ClientsTyped
  BY <1>1, <1>2 DEF Init, ClientsTyped
<1> QED
  BY <1>3, <1>4, <1>5, ReadersAheadInit DEF AllTyped

\* Every step keeps everything what it is.
LEMMA TypedStep ==
    ASSUME AllTyped, [Next]_vars
    PROVE  AllTyped'
<1>0. TurnTyped /\ QueueTyped /\ ClientsTyped /\ ReadersAhead /\ stream \in Seq(Message)
  BY DEF AllTyped, QueueTyped
<1>1. ReadersAhead'
  BY <1>0, ReadersStep
<1>2. CASE Turn
  BY <1>0, <1>1, <1>2, TurnKeepsTyped, TurnKeepsQueue, TurnKeepsClients DEF AllTyped
<1>3. CASE Process
  BY <1>0, <1>1, <1>3, ProcessTyped DEF AllTyped
<1>4. CASE CancelArrives \/ Crash \/ StreamExpires
  <2>1. ClientsTyped'
    BY <1>0, <1>4, TurnKeepsClients
  <2>2. CASE CancelArrives
    BY <1>0, <1>1, <2>1, <2>2
       DEF CancelArrives, AllTyped, TurnTyped, QueueTyped, turnVars, localVars, endVars, queueVars
  <2>3. CASE Crash
    BY <1>0, <1>1, <2>1, <2>3
       DEF Crash, AllTyped, TurnTyped, QueueTyped, turnVars, localVars, endVars
  <2>4. CASE StreamExpires
    BY <1>0, <1>1, <2>1, <2>4
       DEF StreamExpires, AllTyped, TurnTyped, QueueTyped, turnVars, localVars, endVars
  <2> QED
    BY <1>4, <2>2, <2>3, <2>4
<1>5. CASE \E c \in Clients : Connect(c) \/ Disconnect(c) \/ Listen(c)
  <2>1. UNCHANGED <<pc, turnVars, cancelEvent, endVars, pushed, queueVars>>
    BY <1>5 DEF Connect, Disconnect, Listen, NoStream, ReadNext, ReadNothing
  <2>2. TurnTyped' /\ QueueTyped'
    BY <1>0, <2>1 DEF TurnTyped, QueueTyped, turnVars, localVars, endVars, queueVars
  <2>3. ClientsTyped'
    BY <1>0, <1>5, ClientTyped
  <2> QED
    BY <1>1, <2>2, <2>3 DEF AllTyped
<1>6. CASE UNCHANGED vars
  <2>1. TurnTyped' /\ QueueTyped'
    BY <1>0, <1>6 DEF vars, TurnTyped, QueueTyped, turnVars, localVars, endVars, queueVars
  <2>2. ClientsTyped'
    BY <1>0, <1>6 DEF vars, ClientsTyped, clientVars, queueVars
  <2> QED
    BY <1>1, <2>1, <2>2 DEF AllTyped
<1> QED
  BY <1>2, <1>3, <1>4, <1>5, <1>6 DEF Next

\* The types hold at every moment, and no client has received more than was written.
THEOREM TypedAlways == Spec => []AllTyped
<1>1. AllTyped /\ [Next]_vars => AllTyped'
  BY TypedStep
<1> QED
  BY <1>1, TypedInit, PTL DEF Spec

\* Type correctness of the turn, its queue and its clients, with any number of rounds,
\* tool calls, retries, losses and listeners.
THEOREM TypeCorrect == Spec => []TypeOK
<1>1. AllTyped => TypeOK
  BY DEF AllTyped, TurnTyped, QueueTyped, ClientsTyped, TypeOK
<1> QED
  BY <1>1, TypedAlways, PTL

\* Once the user has cancelled, no step announces a tool call: in no round, with no
\* retry, and whatever the response that is under way still asks for.
THEOREM NoToolAfterCancelAlways == Spec => NoToolAfterCancel
<1> DEFINE NoneAnnounced ==
      cancelEvent => \A k \in (Len(pushed) + 1)..Len(pushed') : pushed'[k].type # "tool_call"
<1>1. ASSUME AllTyped, [Next]_vars PROVE [NoneAnnounced]_vars
  <2>0. TurnTyped /\ pushed \in Seq(Message) /\ Len(pushed) \in Nat
    BY <1>1 DEF AllTyped, TurnTyped
  <2>1. CASE Turn
    <3>1. PICK ms \in Seq(Message) : Pushes(ms)
      BY <2>0, <2>1, TurnPushes
    <3>2. pushed' = pushed \o ms /\ (cancelEvent => Silent(ms))
      BY <3>1 DEF Pushes
    <3>3. ASSUME NEW k \in (Len(pushed) + 1)..Len(pushed')
          PROVE  k - Len(pushed) \in 1..Len(ms) /\ pushed'[k] = ms[k - Len(pushed)]
      BY <2>0, <3>2
    <3> QED
      BY <3>2, <3>3 DEF Silent
  <2>2. ASSUME UNCHANGED pushed PROVE NoneAnnounced
    BY <2>0, <2>2
  <2>3. CASE Process \/ CancelArrives \/ Crash \/ StreamExpires
    BY <2>2, <2>3 DEF Process, CancelArrives, Crash, StreamExpires
  <2>4. CASE \E c \in Clients : Connect(c) \/ Disconnect(c) \/ Listen(c)
    BY <2>2, <2>4 DEF Connect, Disconnect, Listen, NoStream, ReadNext, ReadNothing
  <2> QED
    BY <1>1, <2>1, <2>3, <2>4 DEF Next
<1>2. AllTyped /\ [Next]_vars => [NoneAnnounced]_vars
  BY <1>1
<1> QED
  BY <1>2, TypedAlways, PTL DEF Spec, NoToolAfterCancel

-----------------------------------------------------------------------------
(* What messages say *)

\* A message announces at most one call, and stands for at most two rows.
LEMMA MessageSays ==
    ASSUME NEW m \in Message
    PROVE  /\ CallsOf(m) \in Seq(Calls)
           /\ RowsOf(m) \in Seq(Unnumbered)
           /\ m.type # "tool_call" => CallsOf(m) = <<>>
           /\ m.type \notin {"text_msg_end", "tool_response"} => RowsOf(m) = <<>>
<1>1. <<>> \in Seq(Calls) /\ <<>> \in Seq(Unnumbered)
  OBVIOUS
<1>2. CASE m \in [type : TextTypes, of : 1..MaxIterations]
  <2> DEFINE r == [type |-> "text", of |-> m.of]
  <2>1. m.type \in TextTypes /\ m.of \in 1..MaxIterations
    BY <1>2
  <2>2. r \in Unnumbered
    BY <2>1 DEF Unnumbered
  <2>3. CallsOf(m) = <<>> /\ RowsOf(m) = IF m.type = "text_msg_end" THEN <<r>> ELSE <<>>
    BY <2>1 DEF TextTypes, CallsOf, RowsOf
  <2> HIDE DEF r
  <2>4. <<r>> \in Seq(Unnumbered)
    BY <2>2
  <2> QED
    BY <1>1, <2>3, <2>4
<1>3. CASE m \in [type : {"tool_call"}, of : Calls]
  <2>1. m.type = "tool_call" /\ m.of \in Calls
    BY <1>3
  <2>2. CallsOf(m) = <<m.of>> /\ RowsOf(m) = <<>>
    BY <2>1 DEF CallsOf, RowsOf
  <2>3. <<m.of>> \in Seq(Calls)
    BY <2>1
  <2> QED
    BY <1>1, <2>1, <2>2, <2>3
<1>4. CASE m \in [type : {"tool_response"}, of : Calls, result : {"ok", "link", "none"}]
  <2> DEFINE a == [type |-> "tool_call", of |-> m.of]
             b == [type |-> "session_link", of |-> m.of]
  <2>1. m.type = "tool_response" /\ m.of \in Calls /\ m.result \in {"ok", "link", "none"}
    BY <1>4
  <2>2. CallsOf(m) = <<>> /\ RowsOf(m) \in {<<a>>, <<a, b>>, <<>>}
    BY <2>1 DEF CallsOf, RowsOf
  <2>3. a \in Unnumbered /\ b \in Unnumbered
    BY <2>1 DEF Unnumbered
  <2> HIDE DEF a, b
  <2>4. <<a>> \in Seq(Unnumbered) /\ <<a, b>> \in Seq(Unnumbered)
    BY <2>3
  <2> QED
    BY <1>1, <2>1, <2>2, <2>4
<1>5. CASE m \in [type : EndTypes]
  <2>1. m.type \in EndTypes
    BY <1>5
  <2>2. CallsOf(m) = <<>> /\ RowsOf(m) = <<>>
    BY <2>1 DEF EndTypes, CallsOf, RowsOf
  <2> QED
    BY <1>1, <2>1, <2>2
<1> QED
  BY <1>2, <1>3, <1>4, <1>5 DEF Message

\* Messages one by one, as what each of them says.
CallLists(ms) == [k \in 1..Len(ms) |-> CallsOf(ms[k])]
RowLists(ms)  == [k \in 1..Len(ms) |-> RowsOf(ms[k])]

\* What messages say are lists of calls and of rows.
LEMMA ListsAre ==
    ASSUME NEW ms \in Seq(Message)
    PROVE  /\ CallLists(ms) \in Seq(Seq(Calls)) /\ CallsIn(ms) = FlattenSeq(CallLists(ms))
           /\ RowLists(ms) \in Seq(Seq(Unnumbered)) /\ RowsIn(ms) = FlattenSeq(RowLists(ms))
           /\ CallsIn(ms) \in Seq(Calls) /\ RowsIn(ms) \in Seq(Unnumbered)
<1>1. \A k \in 1..Len(ms) : ms[k] \in Message
  OBVIOUS
<1>2. Len(ms) \in Nat
  OBVIOUS
<1>3. /\ CallLists(ms) \in [1..Len(ms) -> Seq(Calls)]
      /\ RowLists(ms) \in [1..Len(ms) -> Seq(Unnumbered)]
  BY <1>1, MessageSays DEF CallLists, RowLists
<1>4. CallLists(ms) \in Seq(Seq(Calls)) /\ RowLists(ms) \in Seq(Seq(Unnumbered))
  <2> DEFINE a == CallLists(ms)
             b == RowLists(ms)
             T == Seq(Calls)
             U == Seq(Unnumbered)
             n == Len(ms)
  <2>1. n \in Nat /\ a \in [1..n -> T] /\ b \in [1..n -> U]
    BY <1>2, <1>3
  <2> HIDE DEF a, b, T, U, n
  <2>2. a \in Seq(T)
    BY <2>1
  <2>3. b \in Seq(U)
    BY <2>1
  <2> QED
    BY <2>2, <2>3 DEF a, b, T, U
<1>5. CallsIn(ms) = FlattenSeq(CallLists(ms)) /\ RowsIn(ms) = FlattenSeq(RowLists(ms))
  BY DEF CallsIn, RowsIn, CallLists, RowLists
<1>6. <<>> \in Seq(Calls) /\ <<>> \in Seq(Unnumbered)
  OBVIOUS
<1>7. FlattenSeq(CallLists(ms)) \in Seq(Calls) /\ FlattenSeq(RowLists(ms)) \in Seq(Unnumbered)
  BY <1>4, <1>6, FlattenLast
<1> QED
  BY <1>4, <1>5, <1>7

\* Messages behind others say what they say behind what those say.
LEMMA SaidBehind ==
    ASSUME NEW ms \in Seq(Message), NEW ns \in Seq(Message)
    PROVE  /\ CallsIn(ms \o ns) = CallsIn(ms) \o CallsIn(ns)
           /\ RowsIn(ms \o ns) = RowsIn(ms) \o RowsIn(ns)
<1>1. ms \o ns \in Seq(Message)
  OBVIOUS
<1>2. CallLists(ms \o ns) = CallLists(ms) \o CallLists(ns)
  BY DEF CallLists
<1>3. RowLists(ms \o ns) = RowLists(ms) \o RowLists(ns)
  BY DEF RowLists
<1>4. FlattenSeq(CallLists(ms) \o CallLists(ns))
        = FlattenSeq(CallLists(ms)) \o FlattenSeq(CallLists(ns))
  BY ListsAre, FlattenConcat
<1>5. FlattenSeq(RowLists(ms) \o RowLists(ns))
        = FlattenSeq(RowLists(ms)) \o FlattenSeq(RowLists(ns))
  BY ListsAre, FlattenConcat
<1> QED
  BY <1>1, <1>2, <1>3, <1>4, <1>5, ListsAre

\* One message more.
LEMMA SaidLast ==
    ASSUME NEW ms \in Seq(Message), NEW m \in Message
    PROVE  /\ CallsIn(Append(ms, m)) = CallsIn(ms) \o CallsOf(m)
           /\ RowsIn(Append(ms, m)) = RowsIn(ms) \o RowsOf(m)
           /\ CallsIn(<<>>) = <<>> /\ RowsIn(<<>>) = <<>>
<1>1. Append(ms, m) \in Seq(Message)
  OBVIOUS
<1>2. CallLists(Append(ms, m)) = Append(CallLists(ms), CallsOf(m))
  BY DEF CallLists
<1>3. RowLists(Append(ms, m)) = Append(RowLists(ms), RowsOf(m))
  BY DEF RowLists
<1>4. FlattenSeq(Append(CallLists(ms), CallsOf(m))) = FlattenSeq(CallLists(ms)) \o CallsOf(m)
  BY ListsAre, MessageSays, FlattenLast
<1>5. FlattenSeq(Append(RowLists(ms), RowsOf(m))) = FlattenSeq(RowLists(ms)) \o RowsOf(m)
  BY ListsAre, MessageSays, FlattenLast
<1>6. CallsIn(<<>>) = <<>> /\ RowsIn(<<>>) = <<>>
  BY DEF CallsIn, RowsIn, FlattenSeq
<1> QED
  BY <1>1, <1>2, <1>3, <1>4, <1>5, <1>6, ListsAre

\* The messages that announce no call, and those that stand for no row.
LEMMA SaysNothing ==
    ASSUME NEW ms \in Seq(Message)
    PROVE  /\ Silent(ms) => CallsIn(ms) = <<>>
           /\ (\A k \in 1..Len(ms) : RowsOf(ms[k]) = <<>>) => RowsIn(ms) = <<>>
<1>1. Len(ms) \in Nat /\ \A k \in 1..Len(ms) : ms[k] \in Message
  OBVIOUS
<1>2. FlattenSeq([k \in 1..Len(ms) |-> <<>>]) = <<>>
  BY <1>1, FlattenNothing
<1>3. ASSUME Silent(ms) PROVE CallsIn(ms) = <<>>
  <2>1. \A k \in 1..Len(ms) : CallsOf(ms[k]) = <<>>
    BY <1>1, <1>3, MessageSays DEF Silent
  <2>2. CallLists(ms) = [k \in 1..Len(ms) |-> <<>>]
    BY <2>1 DEF CallLists
  <2> QED
    BY <1>2, <2>2, ListsAre
<1>4. ASSUME \A k \in 1..Len(ms) : RowsOf(ms[k]) = <<>> PROVE RowsIn(ms) = <<>>
  <2>1. RowLists(ms) = [k \in 1..Len(ms) |-> <<>>]
    BY <1>4 DEF RowLists
  <2> QED
    BY <1>2, <2>1, ListsAre
<1> QED
  BY <1>3, <1>4

\* Announcing calls says these calls, and no row.
LEMMA AnnounceSays ==
    ASSUME NEW calls \in Seq(Calls)
    PROVE  CallsIn(Announce(calls)) = calls /\ RowsIn(Announce(calls)) = <<>>
<1>1. /\ Announce(calls) \in Seq(Message) /\ Len(Announce(calls)) = Len(calls)
      /\ \A k \in 1..Len(calls) : Announce(calls)[k] = ToolCall(calls[k])
  BY AnnounceIs
<1>2. \A k \in 1..Len(calls) :
         CallsOf(ToolCall(calls[k])) = <<calls[k]>> /\ RowsOf(ToolCall(calls[k])) = <<>>
  BY DEF ToolCall, CallsOf, RowsOf
<1>3. CallLists(Announce(calls)) = [k \in 1..Len(calls) |-> <<calls[k]>>]
  BY <1>1, <1>2 DEF CallLists
<1>4. CallsIn(Announce(calls)) = calls
  BY <1>1, <1>3, ListsAre, FlattenSingles
<1>5. \A k \in 1..Len(Announce(calls)) : RowsOf(Announce(calls)[k]) = <<>>
  BY <1>1, <1>2
<1> QED
  BY <1>1, <1>4, <1>5, SaysNothing

\* The responses of a batch none of whose calls raised say its rows, and no call.
LEMMA ResponsesSay ==
    ASSUME batch \in Seq(Calls), NEW res \in Results, \A k \in 1..Len(batch) : res[k] # "raised"
    PROVE  LET ms == Responses(res, Len(batch))
           IN  /\ ms \in Seq(Message)
               /\ \A k \in 1..Len(ms) : ms[k].type = "tool_response"
               /\ CallsIn(ms) = <<>>
               /\ RowsIn(ms) = FlattenSeq(RowsOfBatch(res))
<1> DEFINE n == Len(batch)
           ms == Responses(res, n)
<1>1. n \in 0..Len(batch)
  OBVIOUS
<1>2. /\ ms \in Seq(Message) /\ Len(ms) = n
      /\ \A k \in 1..n : /\ ms[k] = ToolResponse(batch[k], res[k])
                         /\ ms[k].type = "tool_response"
      /\ \A k \in 1..n : res[k] \in {"ok", "link", "none"}
  BY <1>1, ResponsesAre
<1>3. Silent(ms)
  BY <1>2 DEF Silent
<1>4. CallsIn(ms) = <<>>
  BY <1>2, <1>3, SaysNothing
<1>5. \A k \in 1..n : RowsOf(ToolResponse(batch[k], res[k])) = CallRows(batch[k], res[k])
  BY <1>2 DEF ToolResponse, RowsOf, CallRows
<1>6. RowLists(ms) = RowsOfBatch(res)
  <2> HIDE DEF ms
  <2> QED
    BY <1>2, <1>5 DEF RowLists, RowsOfBatch
<1> QED
  BY <1>2, <1>4, <1>6, ListsAre

-----------------------------------------------------------------------------
(* What is kept of a turn *)

\* The calls of memories, and rows without their numbers.
MemCalls(m) == [k \in 1..Len(m) |-> m[k].calls]
Stripped(rs) == [k \in 1..Len(rs) |-> [type |-> rs[k].type, of |-> rs[k].of]]

\* Rows are numbered from 0 without a gap.
CountedUp(rs) == \A k \in 1..Len(rs) : rs[k].seq = k - 1

\* Rows that are added are numbered on, and are the rows that were asked for.
LEMMA NumberedOn ==
    ASSUME rows \in Seq(Row), NEW rs \in Seq(Unnumbered)
    PROVE  /\ CountedUp(rows) => CountedUp(Numbered(rs))
           /\ Stripped(rows) \in Seq(Unnumbered)
           /\ Stripped(Numbered(rs)) = Stripped(rows) \o rs
<1> DEFINE ns == Numbered(rs)
           new(k) == [seq |-> Len(rows) + k - 1, type |-> rs[k].type, of |-> rs[k].of]
<1>0. /\ \A k \in 1..Len(rs) : ns[Len(rows) + k] = new(k)
      /\ \A k : /\ new(k).seq = Len(rows) + k - 1
               /\ new(k).type = rs[k].type
               /\ new(k).of = rs[k].of
  BY NumberedIs
<1>1. /\ ns \in Seq(Row) /\ Len(ns) = Len(rows) + Len(rs)
      /\ Len(rows) \in Nat /\ Len(rs) \in Nat
      /\ \A k \in 1..Len(rows) : ns[k] = rows[k]
  BY NumberedIs
<1>2. ASSUME NEW k \in 1..Len(ns)
      PROVE  \/ k \in 1..Len(rows)
             \/ \E j \in 1..Len(rs) : k = Len(rows) + j
  <2>1. CASE k > Len(rows)
    <3>1. k - Len(rows) \in 1..Len(rs) /\ k = Len(rows) + (k - Len(rows))
      BY <1>1, <2>1
    <3> QED
      BY <3>1
  <2> QED
    BY <1>1, <2>1
<1> HIDE DEF ns, new
<1>3. ASSUME CountedUp(rows) PROVE CountedUp(ns)
  <2> SUFFICES ASSUME NEW k \in 1..Len(ns) PROVE ns[k].seq = k - 1
    BY DEF CountedUp
  <2>1. CASE k \in 1..Len(rows)
    BY <1>1, <1>3, <2>1 DEF CountedUp
  <2>2. ASSUME NEW j \in 1..Len(rs), k = Len(rows) + j PROVE ns[k].seq = k - 1
    <3>1. ns[Len(rows) + j].seq = Len(rows) + j - 1
      BY <1>0
    <3> QED
      BY <2>2, <3>1
  <2> QED
    BY <1>2, <2>1, <2>2
<1>4. \A k \in 1..Len(rows) : [type |-> rows[k].type, of |-> rows[k].of] \in Unnumbered
  <2> TAKE k \in 1..Len(rows)
  <2>1. rows[k] \in Row
    OBVIOUS
  <2> QED
    BY <2>1 DEF Row, Unnumbered
<1>5. Stripped(rows) \in Seq(Unnumbered) /\ Len(Stripped(rows)) = Len(rows)
  BY <1>1, <1>4 DEF Stripped
<1>6. \A k \in 1..Len(rs) : [type |-> rs[k].type, of |-> rs[k].of] = rs[k]
  <2> TAKE k \in 1..Len(rs)
  <2>1. rs[k] \in Unnumbered /\ 0 \in Nat
    OBVIOUS
  <2> QED
    BY <2>1, NumberMakesRow
<1>7. Stripped(ns) = Stripped(rows) \o rs
  <2> DEFINE a == Stripped(ns)
             b == Stripped(rows) \o rs
  <2>1. DOMAIN a = 1..(Len(rows) + Len(rs)) /\ a = [k \in DOMAIN a |-> a[k]]
    BY <1>1 DEF Stripped
  <2>2. DOMAIN b = 1..(Len(rows) + Len(rs)) /\ b = [k \in DOMAIN b |-> b[k]]
    <3>1. b \in Seq(Unnumbered) /\ Len(b) = Len(rows) + Len(rs)
      <4> DEFINE c == Stripped(rows)
                 U == Unnumbered
      <4>1. c \in Seq(U) /\ rs \in Seq(U) /\ Len(c) = Len(rows)
        BY <1>5
      <4> HIDE DEF c, U
      <4>2. c \o rs \in Seq(U) /\ Len(c \o rs) = Len(c) + Len(rs)
        BY <4>1
      <4> QED
        BY <4>1, <4>2 DEF c, U
    <3> HIDE DEF b
    <3> QED
      BY <3>1
  <2>3. ASSUME NEW k \in 1..(Len(rows) + Len(rs)) PROVE a[k] = b[k]
    <3>1. k \in 1..Len(ns) /\ a[k] = [type |-> ns[k].type, of |-> ns[k].of]
      BY <1>1 DEF Stripped
    <3>2. CASE k \in 1..Len(rows)
      <4>1. b[k] = Stripped(rows)[k]
        BY <1>1, <1>5, <3>2
      <4>2. Stripped(rows)[k] = [type |-> rows[k].type, of |-> rows[k].of]
        BY <3>2 DEF Stripped
      <4> QED
        BY <1>1, <3>1, <3>2, <4>1, <4>2
    <3>3. ASSUME NEW j \in 1..Len(rs), k = Len(rows) + j PROVE a[k] = b[k]
      <4>1. b[k] = rs[j]
        BY <1>1, <1>5, <3>3
      <4>2. ns[Len(rows) + j].type = rs[j].type /\ ns[Len(rows) + j].of = rs[j].of
        BY <1>0
      <4>3. a[k] = [type |-> rs[j].type, of |-> rs[j].of]
        BY <3>1, <3>3, <4>2
      <4> QED
        BY <1>6, <4>1, <4>3
    <3> QED
      BY <1>2, <3>1, <3>2, <3>3
  <2> HIDE DEF a, b
  <2>4. a = b
    BY <2>1, <2>2, <2>3
  <2> QED
    BY <2>4 DEF a, b
<1> QED
  BY <1>3, <1>5, <1>7 DEF ns

\* Every call of a memory is followed by its own answer.
AnswersFollow(m) ==
    \A k \in 1..Len(m) : \A j \in 1..Len(m[k].calls) :
        /\ k + j <= Len(m)
        /\ m[k + j] = [role |-> "tool", calls |-> <<>>, call |-> m[k].calls[j]]

\* The calls of memories are lists of calls.
LEMMA MemCallsAre ==
    ASSUME NEW m \in Seq(Memory)
    PROVE  /\ MemCalls(m) \in Seq(Seq(Calls))
           /\ FlattenSeq(MemCalls(m)) \in Seq(Calls)
<1>1. \A k \in 1..Len(m) : m[k].calls \in Seq(Calls)
  <2> TAKE k \in 1..Len(m)
  <2>1. m[k] \in Memory /\ <<>> \in Seq(Calls)
    OBVIOUS
  <2> QED
    BY <2>1 DEF Memory
<1>2. Len(m) \in Nat
  OBVIOUS
<1>3. MemCalls(m) \in [1..Len(m) -> Seq(Calls)]
  BY <1>1 DEF MemCalls
<1>4. MemCalls(m) \in Seq(Seq(Calls))
  BY <1>2, <1>3
<1>5. <<>> \in Seq(Calls)
  OBVIOUS
<1> QED
  BY <1>4, <1>5, FlattenLast

\* The calls of memories behind others are behind their calls.
LEMMA MemCallsConcat ==
    ASSUME NEW m \in Seq(Memory), NEW n \in Seq(Memory)
    PROVE  MemCalls(m \o n) = MemCalls(m) \o MemCalls(n)
  BY DEF MemCalls

\* A memory of the text of a response, which asks for nothing.
LEMMA TextRemembered ==
    ASSUME mem \in Seq(Memory)
    PROVE  LET m == Append(mem, Assistant(<<>>))
           IN  /\ AnswersFollow(mem) => AnswersFollow(m)
               /\ FlattenSeq(MemCalls(m)) = FlattenSeq(MemCalls(mem))
<1> DEFINE a == Assistant(<<>>)
           m == Append(mem, a)
<1>0. <<>> \in Seq(Calls)
  OBVIOUS
<1>1. a \in Memory /\ a.calls = <<>>
  BY <1>0, MemoriesMade
<1> HIDE DEF a
<1>2. /\ m \in Seq(Memory) /\ Len(m) = Len(mem) + 1 /\ m[Len(mem) + 1] = a
      /\ \A k \in 1..Len(mem) : m[k] = mem[k]
      /\ Len(mem) \in Nat
  BY <1>1
<1>3. MemCalls(m) = Append(MemCalls(mem), <<>>)
  BY <1>1, <1>2 DEF MemCalls
<1>4. FlattenSeq(Append(MemCalls(mem), <<>>)) = FlattenSeq(MemCalls(mem)) \o <<>>
  BY <1>0, MemCallsAre, FlattenLast
<1>5. FlattenSeq(MemCalls(mem)) \o <<>> = FlattenSeq(MemCalls(mem))
  <2>1. FlattenSeq(MemCalls(mem)) \in Seq(Calls)
    BY MemCallsAre
  <2> QED
    BY <2>1
<1> HIDE DEF m
<1>6. ASSUME AnswersFollow(mem) PROVE AnswersFollow(m)
  <2> SUFFICES ASSUME NEW k \in 1..Len(m), NEW j \in 1..Len(m[k].calls)
               PROVE  /\ k + j <= Len(m)
                      /\ m[k + j] = [role |-> "tool", calls |-> <<>>, call |-> m[k].calls[j]]
    BY DEF AnswersFollow
  <2>1. k \in 1..Len(mem)
    <3>1. CASE k = Len(mem) + 1
      <4>1. m[k].calls = <<>> /\ Len(<<>>) = 0
        BY <1>1, <1>2, <3>1
      <4> QED
        BY <4>1
    <3> QED
      BY <1>2, <3>1
  <2>2. m[k] = mem[k]
    BY <1>2, <2>1
  <2>3. k + j <= Len(mem)
        /\ mem[k + j] = [role |-> "tool", calls |-> <<>>, call |-> mem[k].calls[j]]
    BY <1>6, <2>1, <2>2 DEF AnswersFollow
  <2>4. k + j \in 1..Len(mem) /\ k + j <= Len(m)
    <3>1. mem[k] \in Memory
      BY <2>1
    <3>2. mem[k].calls \in Seq(Calls)
      BY <1>0, <3>1 DEF Memory
    <3>3. j \in Nat \ {0}
      BY <2>2, <3>2
    <3> QED
      BY <1>2, <2>1, <2>3, <3>3
  <2> QED
    BY <1>2, <2>2, <2>3, <2>4
<1> QED
  BY <1>3, <1>4, <1>5, <1>6 DEF m, a

\* The memory of a batch, and the answers to its calls behind it.
LEMMA BatchRemembered ==
    ASSUME mem \in Seq(Memory), batch \in Seq(Calls)
    PROVE  LET m == Append(mem, Assistant(batch)) \o ToolMemories
           IN  /\ AnswersFollow(mem) => AnswersFollow(m)
               /\ FlattenSeq(MemCalls(m)) = FlattenSeq(MemCalls(mem)) \o batch
<1> DEFINE a == Assistant(batch)
           b == Append(mem, a)
           t == ToolMemories
           m == b \o t
           n == Len(mem)
           answer(c) == [role |-> "tool", calls |-> <<>>, call |-> c]
<1>0. <<>> \in Seq(Calls) /\ Len(<<>>) = 0
  OBVIOUS
<1>1. a \in Memory /\ a.calls = batch
  BY MemoriesMade
<1>2. t \in Seq(Memory) /\ Len(t) = Len(batch) /\ \A k \in 1..Len(batch) : t[k] = answer(batch[k])
  BY ToolMemoriesAre
<1>3. \A c : answer(c).calls = <<>>
  OBVIOUS
<1> HIDE DEF a, t, answer
<1>4. /\ b \in Seq(Memory) /\ Len(b) = n + 1 /\ b[n + 1] = a
      /\ \A k \in 1..n : b[k] = mem[k]
      /\ n \in Nat /\ Len(batch) \in Nat
  BY <1>1
<1> HIDE DEF b
<1>5. /\ m \in Seq(Memory) /\ Len(m) = n + 1 + Len(batch)
      /\ \A k \in 1..n + 1 : m[k] = b[k]
      /\ \A k \in 1..Len(batch) : m[n + 1 + k] = t[k]
  <2>1. /\ m \in Seq(Memory) /\ Len(m) = Len(b) + Len(t)
        /\ \A k \in 1..Len(b) : m[k] = b[k]
        /\ \A k \in 1..Len(t) : m[Len(b) + k] = t[k]
    <3>1. b \in Seq(Memory) /\ t \in Seq(Memory)
      BY <1>2, <1>4
    <3> QED
      BY <3>1, Concatenated DEF Joins
  <2> HIDE DEF m, n
  <2> QED
    BY <1>2, <1>4, <2>1
<1>6. MemCalls(b) = Append(MemCalls(mem), batch)
  BY <1>1, <1>4 DEF MemCalls, b
<1>7. FlattenSeq(MemCalls(b)) = FlattenSeq(MemCalls(mem)) \o batch
  BY <1>6, MemCallsAre, FlattenLast
<1>8. FlattenSeq(MemCalls(t)) = <<>>
  <2>1. MemCalls(t) = [k \in 1..Len(batch) |-> <<>>]
    BY <1>2, <1>3 DEF MemCalls
  <2> QED
    BY <1>4, <2>1, FlattenNothing
<1>9. FlattenSeq(MemCalls(m)) = FlattenSeq(MemCalls(mem)) \o batch
  <2>1. MemCalls(b \o t) = MemCalls(b) \o MemCalls(t)
    BY <1>2, <1>4, MemCallsConcat
  <2>2. FlattenSeq(MemCalls(b) \o MemCalls(t)) = FlattenSeq(MemCalls(b)) \o FlattenSeq(MemCalls(t))
    BY <1>2, <1>4, MemCallsAre, FlattenConcat
  <2>3. FlattenSeq(MemCalls(b)) \in Seq(Calls)
    BY <1>4, MemCallsAre
  <2>4. FlattenSeq(MemCalls(b)) \o <<>> = FlattenSeq(MemCalls(b))
    BY <2>3
  <2> QED
    BY <1>7, <1>8, <2>1, <2>2, <2>4
<1> HIDE DEF m, n
<1>10. ASSUME AnswersFollow(mem) PROVE AnswersFollow(m)
  <2> SUFFICES ASSUME NEW k \in 1..Len(m), NEW j \in 1..Len(m[k].calls)
               PROVE  k + j <= Len(m) /\ m[k + j] = answer(m[k].calls[j])
    BY DEF AnswersFollow, answer
  <2>1. CASE k \in 1..n
    <3>1. m[k] = mem[k]
      BY <1>4, <1>5, <2>1
    <3>2. k + j <= n /\ mem[k + j] = answer(mem[k].calls[j])
      BY <1>10, <2>1, <3>1 DEF AnswersFollow, answer, n
    <3>3. mem[k] \in Memory
      BY <2>1 DEF n
    <3>4. mem[k].calls \in Seq(Calls)
      BY <1>0, <3>3 DEF Memory
    <3>5. j \in Nat \ {0}
      BY <3>1, <3>4
    <3>6. k + j \in 1..n /\ k + j \in 1..n + 1 /\ k + j <= Len(m)
      BY <1>4, <1>5, <2>1, <3>2, <3>5
    <3> QED
      BY <1>4, <1>5, <3>1, <3>2, <3>6
  <2>2. CASE k = n + 1
    <3>1. k \in 1..n + 1
      BY <1>4, <2>2
    <3>2. m[k].calls = batch
      BY <1>1, <1>4, <1>5, <2>2, <3>1
    <3>3. j \in 1..Len(batch)
      BY <3>2
    <3>4. m[n + 1 + j] = answer(batch[j])
      BY <1>2, <1>5, <3>3
    <3> QED
      BY <1>4, <1>5, <2>2, <3>2, <3>3, <3>4
  <2>3. CASE k > n + 1
    <3>1. k - (n + 1) \in 1..Len(batch) /\ n + 1 + (k - (n + 1)) = k
      BY <1>4, <1>5, <2>3
    <3>2. m[k] = answer(batch[k - (n + 1)])
      BY <1>2, <1>5, <3>1
    <3>3. Len(m[k].calls) = 0
      BY <1>0, <1>3, <3>2
    <3> QED
      BY <3>3
  <2> QED
    BY <1>4, <1>5, <2>1, <2>2, <2>3
<1> QED
  BY <1>9, <1>10 DEF m, a, b, t

-----------------------------------------------------------------------------
(* The invariant of the turn *)

\* The run of the agent goes on, or what it collected is kept.
Running == pc \in {"call", "chunks", "tools"}
Kept == Running \/ Recorded

\* Nothing but ends follows an end.
NoEnd(ms) == \A k \in 1..Len(ms) : ms[k].type \notin EndTypes
EndsLast(ms) ==
    \A i, j \in 1..Len(ms) : i < j /\ ms[i].type \in EndTypes => ms[j].type \in EndTypes

\* The calls that are under way: announced, and not yet remembered.
Pending == IF pc = "tools" THEN batch ELSE <<>>

\* Until the end is announced, every announced call is remembered or under way, and every
\* text that ended and every response has its rows: neither the user nor the next LLM call
\* is ever ahead of the other.
TurnKept ==
    /\ Running => outcome = "none" /\ NoEnd(pushed)
    /\ EndsLast(pushed)
    /\ AnswersFollow(mem)
    /\ Kept => /\ CallsIn(pushed) = FlattenSeq(MemCalls(mem)) \o Pending
               /\ CountedUp(rows)
               /\ RowsIn(pushed) = Stripped(rows)

\* A text announces no call, is a row when it has ended, and is no end of the answer.
LEMMA TextSays ==
    ASSUME NEW t \in TextTypes, NEW i \in 1..MaxIterations
    PROVE  /\ <<Text(t, i)>> \in Seq(Message)
           /\ CallsIn(<<Text(t, i)>>) = <<>>
           /\ t # "text_msg_end" => RowsIn(<<Text(t, i)>>) = <<>>
           /\ t = "text_msg_end" => RowsIn(<<Text(t, i)>>) = <<[type |-> "text", of |-> i]>>
           /\ NoEnd(<<Text(t, i)>>)
<1> DEFINE m == Text(t, i)
           r == [type |-> "text", of |-> i]
<1>1. m \in Message /\ m.type = t /\ m.of = i
  BY MessagesMade DEF Text
<1>2. CallsOf(m) = <<>> /\ RowsOf(m) = IF t = "text_msg_end" THEN <<r>> ELSE <<>>
  BY <1>1 DEF TextTypes, CallsOf, RowsOf
<1>3. r \in Unnumbered
  BY DEF Unnumbered
<1> HIDE DEF m, r
<1>4. <<>> \in Seq(Message) /\ Append(<<>>, m) = <<m>> /\ <<m>> \in Seq(Message)
      /\ <<>> \o <<>> = <<>> /\ <<>> \o <<r>> = <<r>>
  BY <1>1, <1>3
<1>5. CallsIn(<<m>>) = <<>> /\ RowsIn(<<m>>) = IF t = "text_msg_end" THEN <<r>> ELSE <<>>
  <2>1. /\ CallsIn(Append(<<>>, m)) = CallsIn(<<>>) \o CallsOf(m)
        /\ RowsIn(Append(<<>>, m)) = RowsIn(<<>>) \o RowsOf(m)
        /\ CallsIn(<<>>) = <<>> /\ RowsIn(<<>>) = <<>>
    BY <1>1, <1>4, SaidLast
  <2> QED
    BY <1>2, <1>4, <2>1
<1>6. NoEnd(<<m>>)
  BY <1>1 DEF NoEnd, EndTypes, TextTypes
<1> QED
  BY <1>4, <1>5, <1>6 DEF m, r

\* Messages of which none is an end, one behind the other.
LEMMA NoEndBehind ==
    ASSUME NEW ms \in Seq(Message), NEW ns \in Seq(Message), NoEnd(ms), NoEnd(ns)
    PROVE  NoEnd(ms \o ns) /\ EndsLast(ms \o ns) /\ EndsLast(ms)
<1>1. ms \o ns \in Seq(Message) /\ Joins(ms \o ns, ms, ns)
  BY Concatenated
<1>2. NoEnd(ms \o ns)
  <2> SUFFICES ASSUME NEW k \in 1..Len(ms \o ns) PROVE (ms \o ns)[k].type \notin EndTypes
    BY DEF NoEnd
  <2>1. CASE k \in 1..Len(ms)
    BY <1>1, <2>1 DEF NoEnd, Joins
  <2>2. CASE k > Len(ms)
    <3>1. k - Len(ms) \in 1..Len(ns) /\ Len(ms) + (k - Len(ms)) = k
      BY <1>1, <2>2 DEF Joins
    <3> QED
      BY <1>1, <3>1 DEF NoEnd, Joins
  <2> QED
    BY <2>1, <2>2
<1> QED
  BY <1>2 DEF NoEnd, EndsLast

\* An end may follow whatever there is.
LEMMA EndBehind ==
    ASSUME NEW ms \in Seq(Message), EndsLast(ms), NEW t \in EndTypes
    PROVE  /\ EndsLast(Append(ms, End(t)))
           /\ CallsIn(Append(ms, End(t))) = CallsIn(ms)
           /\ RowsIn(Append(ms, End(t))) = RowsIn(ms)
<1> DEFINE e == End(t)
<1>1. e \in Message /\ e.type = t
  BY MessagesMade
<1>2. CallsOf(e) = <<>> /\ RowsOf(e) = <<>>
  BY <1>1, MessageSays DEF EndTypes
<1> HIDE DEF e
<1>3. EndsLast(Append(ms, e))
  <2>1. /\ Len(Append(ms, e)) = Len(ms) + 1 /\ Len(ms) \in Nat
        /\ Append(ms, e)[Len(ms) + 1] = e
        /\ \A k \in 1..Len(ms) : Append(ms, e)[k] = ms[k]
    BY <1>1
  <2>2. e.type \in EndTypes
    BY <1>1
  <2> QED
    BY <2>1, <2>2 DEF EndsLast
<1>4. /\ CallsIn(Append(ms, e)) = CallsIn(ms) \o <<>>
      /\ RowsIn(Append(ms, e)) = RowsIn(ms) \o <<>>
  BY <1>1, <1>2, SaidLast
<1>5. CallsIn(ms) \in Seq(Calls) /\ RowsIn(ms) \in Seq(Unnumbered)
  BY ListsAre
<1>6. CallsIn(ms) \o <<>> = CallsIn(ms) /\ RowsIn(ms) \o <<>> = RowsIn(ms)
  BY <1>5
<1> QED
  BY <1>3, <1>4, <1>6 DEF e

\* A run that raises keeps nothing.
LEMMA RaiseKept ==
    ASSUME pushed \in Seq(Message), NEW ms \in Seq(Message), EndsLast(pushed \o ms), Raise(ms)
    PROVE  TurnKept'
<1>1. /\ pc' = "record" /\ outcome' = "failed" /\ mem' = <<>>
      /\ pushed' = pushed \o Append(ms, End("stream_end_exception"))
  BY DEF Raise, Push
<1>2. End("stream_end_exception") \in Message /\ "stream_end_exception" \in EndTypes
  BY MessagesMade DEF EndTypes
<1>3. pushed' = Append(pushed \o ms, End("stream_end_exception")) /\ pushed \o ms \in Seq(Message)
  BY <1>1, <1>2, ConcatAppend
<1>4. EndsLast(pushed)'
  <2>1. EndsLast(pushed')
    BY <1>2, <1>3, EndBehind
  <2> QED
    BY <2>1 DEF EndsLast
<1>5. ~Running' /\ ~Kept'
  BY <1>1 DEF Running, Kept, Recorded
<1>6. AnswersFollow(mem)'
  BY <1>1 DEF AnswersFollow
<1> QED
  BY <1>4, <1>5, <1>6 DEF TurnKept

\* A run that ends otherwise keeps what it collected, and its end is the end.
LEMMA EndKept ==
    ASSUME pushed \in Seq(Message), NEW ms \in Seq(Message), EndsLast(pushed \o ms),
           NEW t \in EndTypes, pushed' = pushed \o Append(ms, End(t)), pc' = "record",
           AnswersFollow(mem'), CountedUp(rows'), mem' \in Seq(Memory),
           CallsIn(pushed \o ms) = FlattenSeq(MemCalls(mem')),
           RowsIn(pushed \o ms) = Stripped(rows')
    PROVE  TurnKept'
<1>1. End(t) \in Message
  BY MessagesMade
<1>2. pushed' = Append(pushed \o ms, End(t)) /\ pushed \o ms \in Seq(Message)
  BY <1>1, ConcatAppend
<1>3. /\ EndsLast(pushed')
      /\ CallsIn(pushed') = CallsIn(pushed \o ms)
      /\ RowsIn(pushed') = RowsIn(pushed \o ms)
  BY <1>2, EndBehind
<1>4. ~Running' /\ Pending' = <<>>
  BY DEF Running, Pending
<1>5. FlattenSeq(MemCalls(mem')) \o <<>> = FlattenSeq(MemCalls(mem'))
  <2>1. FlattenSeq(MemCalls(mem')) \in Seq(Calls)
    BY MemCallsAre
  <2> QED
    BY <2>1
<1>6. /\ EndsLast(pushed)' /\ AnswersFollow(mem)' /\ CountedUp(rows)'
  BY <1>3 DEF EndsLast, AnswersFollow, CountedUp
<1>7. CallsIn(pushed)' = FlattenSeq(MemCalls(mem))' \o Pending'
  BY <1>3, <1>4, <1>5 DEF CallsIn, MemCalls, CallsOf
<1>8. RowsIn(pushed)' = Stripped(rows)'
  BY <1>3 DEF RowsIn, Stripped, RowsOf
<1> QED
  BY <1>4, <1>6, <1>7, <1>8 DEF TurnKept

\* What is pushed while the run goes on, and stands neither for a call nor for a row,
\* leaves everything in its place.
LEMMA PlainKept ==
    ASSUME pushed \in Seq(Message), TurnKept, Running, Running',
           NEW ms \in Seq(Message), NoEnd(ms), CallsIn(ms) = <<>>, RowsIn(ms) = <<>>,
           pushed' = pushed \o ms, UNCHANGED <<mem, rows, outcome>>, Pending' = Pending
    PROVE  TurnKept'
<1>1. NoEnd(pushed')
  BY NoEndBehind DEF TurnKept
<1>2. EndsLast(pushed')
  BY NoEndBehind DEF TurnKept
<1>3. CallsIn(pushed') = CallsIn(pushed) /\ RowsIn(pushed') = RowsIn(pushed)
  <2>1. CallsIn(pushed') = CallsIn(pushed) \o <<>> /\ RowsIn(pushed') = RowsIn(pushed) \o <<>>
    BY SaidBehind
  <2>2. CallsIn(pushed) \in Seq(Calls) /\ RowsIn(pushed) \in Seq(Unnumbered)
    BY ListsAre
  <2> QED
    BY <2>1, <2>2
<1>4. /\ CallsIn(pushed) = FlattenSeq(MemCalls(mem)) \o Pending
      /\ CountedUp(rows) /\ RowsIn(pushed) = Stripped(rows)
      /\ AnswersFollow(mem) /\ outcome = "none"
  BY DEF TurnKept, Kept
<1>5. /\ NoEnd(pushed)' /\ EndsLast(pushed)' /\ AnswersFollow(mem)' /\ CountedUp(rows)'
  BY <1>1, <1>2, <1>4 DEF NoEnd, EndsLast, AnswersFollow, CountedUp
<1>6. CallsIn(pushed)' = FlattenSeq(MemCalls(mem))' \o Pending'
  BY <1>3, <1>4 DEF CallsIn, MemCalls, CallsOf
<1>7. RowsIn(pushed)' = Stripped(rows)'
  BY <1>3, <1>4 DEF RowsIn, Stripped, RowsOf
<1> QED
  BY <1>4, <1>5, <1>6, <1>7 DEF TurnKept

\* When nothing of it changes, it holds on, unless the run was left without an outcome.
LEMMA NothingKept ==
    ASSUME TurnKept, UNCHANGED <<pushed, mem, rows, outcome>>,
           Running' => Running, Pending' = Pending \/ ~Kept'
    PROVE  TurnKept'
<1>1. /\ NoEnd(pushed)' <=> NoEnd(pushed)
      /\ EndsLast(pushed)' <=> EndsLast(pushed)
      /\ AnswersFollow(mem)' <=> AnswersFollow(mem)
      /\ CountedUp(rows)' <=> CountedUp(rows)
  BY DEF NoEnd, EndsLast, AnswersFollow, CountedUp
<1>2. /\ CallsIn(pushed)' = CallsIn(pushed)
      /\ FlattenSeq(MemCalls(mem))' = FlattenSeq(MemCalls(mem))
      /\ RowsIn(pushed)' = RowsIn(pushed)
      /\ Stripped(rows)' = Stripped(rows)
  BY DEF CallsIn, CallsOf, MemCalls, RowsIn, RowsOf, Stripped
<1>3. Kept' => Kept
  BY DEF Kept, Recorded
<1> QED
  BY <1>1, <1>2, <1>3 DEF TurnKept

\* The text of a response that ended, with its row and its memory.
LEMMA TextKept ==
    ASSUME TurnTyped, TurnKept, Running, pc # "tools"
    PROVE  LET text == <<Text("text_msg_end", iteration)>>
               m    == Append(mem, Assistant(<<>>))
           IN  /\ NoEnd(pushed \o text) /\ EndsLast(pushed \o text)
               /\ pushed \o text \in Seq(Message)
               /\ CallsIn(pushed \o text) = FlattenSeq(MemCalls(mem))
               /\ FlattenSeq(MemCalls(m)) = FlattenSeq(MemCalls(mem))
               /\ AnswersFollow(m) /\ m \in Seq(Memory)
               /\ CountedUp(WithText)
               /\ RowsIn(pushed \o text) = Stripped(WithText)
<1> DEFINE text == <<Text("text_msg_end", iteration)>>
           r == [type |-> "text", of |-> iteration]
<1>0. /\ pushed \in Seq(Message) /\ mem \in Seq(Memory) /\ rows \in Seq(Row)
      /\ iteration \in 1..MaxIterations /\ "text_msg_end" \in TextTypes
  BY DEF TurnTyped, TextTypes
<1>1. text \in Seq(Message) /\ NoEnd(text) /\ CallsIn(text) = <<>> /\ RowsIn(text) = <<r>>
  BY <1>0, TextSays
<1> HIDE DEF text
<1>2. /\ NoEnd(pushed) /\ AnswersFollow(mem) /\ CountedUp(rows)
      /\ CallsIn(pushed) = FlattenSeq(MemCalls(mem)) \o <<>>
      /\ RowsIn(pushed) = Stripped(rows)
  BY DEF TurnKept, Kept, Pending
<1>3. NoEnd(pushed \o text) /\ EndsLast(pushed \o text) /\ pushed \o text \in Seq(Message)
  <2>1. pushed \o text \in Seq(Message)
    BY <1>0, <1>1
  <2> QED
    BY <1>0, <1>1, <1>2, <2>1, NoEndBehind
<1>4. /\ CallsIn(pushed \o text) = CallsIn(pushed) \o <<>>
      /\ RowsIn(pushed \o text) = Stripped(rows) \o <<r>>
  BY <1>0, <1>1, <1>2, SaidBehind
<1>5. FlattenSeq(MemCalls(mem)) \in Seq(Calls)
  BY <1>0, MemCallsAre
<1>6. CallsIn(pushed \o text) = FlattenSeq(MemCalls(mem))
  BY <1>2, <1>4, <1>5
<1>7. CountedUp(WithText) /\ Stripped(WithText) = Stripped(rows) \o <<r>>
  BY <1>0, <1>2, TextRow, NumberedOn DEF WithText
<1>8. Append(mem, Assistant(<<>>)) \in Seq(Memory)
  BY TextIsKept
<1> QED
  BY <1>0, <1>2, <1>3, <1>4, <1>6, <1>7, <1>8, TextRemembered DEF text

\* A batch that starts is announced after the text, and under way.
LEMMA AnnouncedKept ==
    ASSUME TurnTyped, TurnKept, pc = "chunks", outcome' = outcome,
           NEW calls \in Seq(Calls),
           pushed' = pushed \o (<<Text("text_msg_end", iteration)>> \o Announce(calls)),
           batch' = calls, rows' = WithText, pc' = "tools", UNCHANGED mem
    PROVE  TurnKept'
<1> DEFINE text == <<Text("text_msg_end", iteration)>>
           said == pushed \o text
           announced == Announce(calls)
<1>0. Running /\ Running' /\ pc # "tools" /\ pushed \in Seq(Message) /\ mem \in Seq(Memory)
  BY DEF Running, TurnTyped
<1>1. /\ NoEnd(said) /\ said \in Seq(Message)
      /\ CallsIn(said) = FlattenSeq(MemCalls(mem))
      /\ CountedUp(WithText) /\ RowsIn(said) = Stripped(WithText)
  BY <1>0, TextKept
<1>2. text \in Seq(Message)
  BY TextSays DEF TurnTyped, TextTypes
<1>3. announced \in Seq(Message) /\ CallsIn(announced) = calls /\ RowsIn(announced) = <<>>
  BY AnnounceIs, AnnounceSays
<1>4. NoEnd(announced)
  <2>1. \A k \in 1..Len(announced) : announced[k].type = "tool_call"
    <3>1. \A k \in 1..Len(calls) : calls[k] \in Calls
      OBVIOUS
    <3>2. Len(announced) = Len(calls) /\ \A k \in 1..Len(calls) : announced[k] = ToolCall(calls[k])
      BY AnnounceIs
    <3>3. \A k \in 1..Len(calls) : ToolCall(calls[k]).type = "tool_call"
      BY <3>1, MessagesMade
    <3> HIDE DEF announced
    <3> QED
      BY <3>2, <3>3
  <2> QED
    BY <2>1 DEF NoEnd, EndTypes
<1>5. pushed' = said \o announced
  <2> HIDE DEF text, announced
  <2>1. pushed \o (text \o announced) = (pushed \o text) \o announced
    BY <1>0, <1>2, <1>3, ConcatAssoc
  <2> QED
    BY <2>1 DEF text, announced
<1>6. RowsIn(said) \in Seq(Unnumbered)
  BY <1>1, ListsAre
<1> HIDE DEF text, said, announced
<1>7. /\ NoEnd(pushed') /\ EndsLast(pushed')
      /\ CallsIn(pushed') = CallsIn(said) \o calls
      /\ RowsIn(pushed') = RowsIn(said) \o <<>>
  BY <1>1, <1>3, <1>4, <1>5, NoEndBehind, SaidBehind
<1>8. RowsIn(pushed') = Stripped(WithText)
  <2>1. RowsIn(said) \o <<>> = RowsIn(said)
    BY <1>6
  <2> QED
    BY <1>1, <1>7, <2>1
<1>9. AnswersFollow(mem) /\ outcome = "none"
  BY <1>0 DEF TurnKept
<1>10. /\ NoEnd(pushed)' /\ EndsLast(pushed)' /\ AnswersFollow(mem)' /\ CountedUp(rows)'
  BY <1>1, <1>7, <1>9 DEF NoEnd, EndsLast, AnswersFollow, CountedUp
<1>11. CallsIn(pushed)' = FlattenSeq(MemCalls(mem))' \o Pending'
  BY <1>1, <1>7 DEF CallsIn, MemCalls, CallsOf, Pending
<1>12. RowsIn(pushed)' = Stripped(rows)'
  BY <1>8 DEF RowsIn, Stripped, RowsOf
<1> QED
  BY <1>9, <1>10, <1>11, <1>12 DEF TurnKept

\* A batch that is done: its calls are remembered with their answers, its responses have
\* their rows, and nothing is under way.
LEMMA BatchKept ==
    ASSUME TurnTyped, TurnKept, pc = "tools", outcome' = outcome, pc' = "call",
           NEW res \in Results, \A k \in 1..Len(batch) : res[k] # "raised",
           pushed' = pushed \o Responses(res, Len(batch)),
           rows' = Numbered(FlattenSeq(RowsOfBatch(res))),
           mem' = Append(mem, Assistant(batch)) \o ToolMemories
    PROVE  TurnKept'
<1> DEFINE ms == Responses(res, Len(batch))
           rs == FlattenSeq(RowsOfBatch(res))
<1>0. /\ pushed \in Seq(Message) /\ batch \in Seq(Calls)
      /\ mem \in Seq(Memory) /\ rows \in Seq(Row)
  BY DEF TurnTyped
<1>1. /\ ms \in Seq(Message) /\ CallsIn(ms) = <<>> /\ RowsIn(ms) = rs
      /\ \A k \in 1..Len(ms) : ms[k].type = "tool_response"
  BY <1>0, ResponsesSay
<1>2. rs \in Seq(Unnumbered)
  BY <1>0, BatchRowsAre
<1> HIDE DEF ms, rs
<1>3. NoEnd(ms)
  BY <1>1 DEF NoEnd, EndTypes
<1>4. /\ outcome = "none" /\ NoEnd(pushed) /\ AnswersFollow(mem)
      /\ CallsIn(pushed) = FlattenSeq(MemCalls(mem)) \o batch
      /\ CountedUp(rows) /\ RowsIn(pushed) = Stripped(rows)
  BY DEF TurnKept, Kept, Running, Pending
<1>5. pushed' = pushed \o ms
  BY DEF ms
<1>6. /\ NoEnd(pushed') /\ EndsLast(pushed')
      /\ CallsIn(pushed') = CallsIn(pushed) \o <<>>
      /\ RowsIn(pushed') = Stripped(rows) \o rs
  BY <1>0, <1>1, <1>3, <1>4, <1>5, NoEndBehind, SaidBehind
<1>7. AnswersFollow(mem') /\ FlattenSeq(MemCalls(mem')) = FlattenSeq(MemCalls(mem)) \o batch
  BY <1>0, <1>4, BatchRemembered
<1>8. CallsIn(pushed) \in Seq(Calls)
  BY <1>0, ListsAre
<1>9. CallsIn(pushed') = FlattenSeq(MemCalls(mem')) \o <<>>
  BY <1>4, <1>6, <1>7
<1>10. CountedUp(rows') /\ RowsIn(pushed') = Stripped(rows')
  <2>1. CountedUp(Numbered(rs)) /\ Stripped(Numbered(rs)) = Stripped(rows) \o rs
    BY <1>0, <1>2, <1>4, NumberedOn
  <2> QED
    BY <1>6, <2>1 DEF rs
<1>11. /\ NoEnd(pushed)' /\ EndsLast(pushed)' /\ AnswersFollow(mem)' /\ CountedUp(rows)'
  BY <1>6, <1>7, <1>10 DEF NoEnd, EndsLast, AnswersFollow, CountedUp
<1>12. Pending' = <<>>
  BY DEF Pending
<1>13. CallsIn(pushed)' = FlattenSeq(MemCalls(mem))' \o Pending'
  BY <1>9, <1>12 DEF CallsIn, MemCalls, CallsOf
<1>14. RowsIn(pushed)' = Stripped(rows)'
  BY <1>10 DEF RowsIn, Stripped, RowsOf
<1> QED
  BY <1>4, <1>11, <1>13, <1>14 DEF TurnKept

\* A run that raises while its pushed messages hold no end.
LEMMA RunRaises ==
    ASSUME TurnTyped, TurnKept, Running, NEW ms \in Seq(Message), NoEnd(ms), Raise(ms)
    PROVE  TurnKept'
<1>1. pushed \in Seq(Message) /\ NoEnd(pushed)
  BY DEF TurnTyped, TurnKept
<1>2. EndsLast(pushed \o ms)
  BY <1>1, NoEndBehind
<1> QED
  BY <1>1, <1>2, RaiseKept

\* A step of the turn keeps the invariant of the turn.
LEMMA TurnKeepsKept ==
    ASSUME TurnTyped, TurnKept, Turn
    PROVE  TurnKept'
<1>0. /\ pushed \in Seq(Message) /\ mem \in Seq(Memory) /\ rows \in Seq(Row)
      /\ iteration \in 1..MaxIterations /\ batch \in Seq(Calls)
      /\ indices \subseteq 1..MaxIndex
  BY DEF TurnTyped
<1>1. <<>> \in Seq(Message) /\ NoEnd(<<>>)
  <2>1. <<>> \in Seq(Message) /\ Len(<<>>) = 0
    OBVIOUS
  <2> QED
    BY <2>1 DEF NoEnd
<1> DEFINE text == <<Text("text_msg_end", iteration)>>
<1>2. text \in Seq(Message) /\ NoEnd(text)
  BY <1>0, TextSays DEF TextTypes
<1>3. CASE CallAnswers
  <2> DEFINE ms == <<Text("text_msg_begin", iteration)>>
  <2>1. ms \in Seq(Message) /\ NoEnd(ms) /\ CallsIn(ms) = <<>> /\ RowsIn(ms) = <<>>
    <3>1. "text_msg_begin" \in TextTypes /\ "text_msg_begin" # "text_msg_end"
      BY DEF TextTypes
    <3> QED
      BY <1>0, <3>1, TextSays
  <2>2. /\ pc = "call" /\ pc' = "chunks" /\ pushed' = pushed \o ms
        /\ UNCHANGED <<mem, rows, outcome>>
    BY <1>3 DEF CallAnswers, Push, endVars
  <2>3. Running /\ Running' /\ Pending' = Pending
    BY <2>2 DEF Running, Pending
  <2> HIDE DEF ms
  <2> QED
    BY <1>0, <2>1, <2>2, <2>3, PlainKept
<1>4. CASE CallLimited
  <2>1. pc = "call" /\ Running
    BY <1>4 DEF CallLimited, Running
  <2>2. CASE Raise(<<>>)
    BY <1>1, <2>1, <2>2, RunRaises
  <2>3. CASE UNCHANGED <<pc, mem, rows, pushed, outcome>>
    <3>1. (Running' => Running) /\ Pending' = Pending
      BY <2>1, <2>3 DEF Running, Pending
    <3> QED
      BY <2>3, <3>1, NothingKept
  <2> QED
    BY <1>4, <2>2, <2>3 DEF CallLimited
<1>5. CASE CallRaises
  BY <1>1, <1>5, RunRaises DEF CallRaises, Running
<1>6. CASE ChunkStop
  <2>1. /\ pc = "chunks" /\ pc' = "record" /\ rows' = WithText
        /\ mem' = Append(mem, Assistant(<<>>))
        /\ pushed' = pushed \o Append(text, End("stream_end"))
    BY <1>6 DEF ChunkStop, Chunk, Complete, Push
  <2>2. Running /\ pc # "tools" /\ "stream_end" \in EndTypes
    BY <2>1 DEF Running, EndTypes
  <2>3. /\ EndsLast(pushed \o text)
        /\ CallsIn(pushed \o text) = FlattenSeq(MemCalls(mem'))
        /\ AnswersFollow(mem') /\ mem' \in Seq(Memory)
        /\ CountedUp(rows') /\ RowsIn(pushed \o text) = Stripped(rows')
    BY <2>1, <2>2, TextKept
  <2> HIDE DEF text
  <2> QED
    BY <1>0, <1>2, <2>1, <2>2, <2>3, EndKept
<1>7. CASE ChunksEnd
  <2>1. /\ pc = "chunks" /\ pc' = "record" /\ UNCHANGED <<mem, rows>>
        /\ pushed' = pushed \o Append(<<>>, End("stream_end"))
    BY <1>7 DEF ChunksEnd, Complete, Push
  <2>2. Running /\ "stream_end" \in EndTypes /\ pushed \o <<>> = pushed
    BY <1>0, <2>1 DEF Running, EndTypes
  <2>3. /\ EndsLast(pushed) /\ AnswersFollow(mem) /\ CountedUp(rows)
        /\ CallsIn(pushed) = FlattenSeq(MemCalls(mem)) \o <<>>
        /\ RowsIn(pushed) = Stripped(rows)
    BY <2>1, <2>2 DEF TurnKept, Kept, Pending
  <2>4. FlattenSeq(MemCalls(mem)) \o <<>> = FlattenSeq(MemCalls(mem))
    <3>1. FlattenSeq(MemCalls(mem)) \in Seq(Calls)
      BY <1>0, MemCallsAre
    <3> QED
      BY <3>1
  <2>5. /\ EndsLast(pushed \o <<>>) /\ AnswersFollow(mem') /\ CountedUp(rows')
        /\ CallsIn(pushed \o <<>>) = FlattenSeq(MemCalls(mem'))
        /\ RowsIn(pushed \o <<>>) = Stripped(rows') /\ mem' \in Seq(Memory)
    BY <1>0, <2>1, <2>2, <2>3, <2>4
  <2> QED
    BY <1>0, <1>1, <2>1, <2>2, <2>5, EndKept
<1>8. CASE ChunkCancelled
  <2> DEFINE delta == <<Text("text_msg_delta", iteration)>>
             d == Text("text_msg_delta", iteration)
             x == Text("text_msg_end", iteration)
             e == End("stream_end_exception")
             ms == <<d, x>>
  <2>1. /\ pc = "chunks" /\ pc' = "record" /\ rows' = WithText
        /\ mem' = Append(mem, Assistant(<<>>))
        /\ pushed' = pushed \o <<d, x, e>>
    BY <1>8 DEF ChunkCancelled, Push
  <2>2. Running /\ pc # "tools" /\ "stream_end_exception" \in EndTypes
    BY <2>1 DEF Running, EndTypes
  <2>3. d \in Message /\ x \in Message /\ e \in Message
    BY <1>0, MessagesMade DEF TextTypes, EndTypes
  <2>4. /\ CallsIn(delta) = <<>> /\ RowsIn(delta) = <<>> /\ NoEnd(delta)
        /\ delta \in Seq(Message)
    <3>1. "text_msg_delta" \in TextTypes /\ "text_msg_delta" # "text_msg_end"
      BY DEF TextTypes
    <3> QED
      BY <1>0, <3>1, TextSays
  <2>5. /\ EndsLast(pushed \o text) /\ pushed \o text \in Seq(Message)
        /\ CallsIn(pushed \o text) = FlattenSeq(MemCalls(mem'))
        /\ AnswersFollow(mem') /\ mem' \in Seq(Memory)
        /\ CountedUp(rows') /\ RowsIn(pushed \o text) = Stripped(rows')
    BY <2>1, <2>2, TextKept
  <2>6. delta = <<d>> /\ text = <<x>>
    OBVIOUS
  <2> HIDE DEF text, delta, d, x, e
  <2>7. ms \in Seq(Message) /\ ms = delta \o text /\ <<d, x, e>> = Append(ms, e)
    <3>1. <<d, x>> \in Seq(Message) /\ <<d>> \in Seq(Message) /\ <<x>> \in Seq(Message)
      BY <2>3
    <3>2. <<d>> \o <<x>> = <<d, x>>
      BY <2>3, TwoInARow
    <3>3. <<d, x, e>> = Append(<<d, x>>, e)
      BY <2>3, <3>1
    <3> QED
      BY <2>6, <3>1, <3>2, <3>3
  <2>8. CallsIn(ms) = CallsIn(text) /\ RowsIn(ms) = RowsIn(text) /\ NoEnd(ms)
    <3>1. /\ CallsIn(ms) = <<>> \o CallsIn(text) /\ RowsIn(ms) = <<>> \o RowsIn(text)
          /\ NoEnd(ms)
      BY <1>2, <2>4, <2>7, SaidBehind, NoEndBehind
    <3>2. CallsIn(text) \in Seq(Calls) /\ RowsIn(text) \in Seq(Unnumbered)
      BY <1>2, ListsAre
    <3> QED
      BY <3>1, <3>2
  <2> HIDE DEF ms
  <2>9. CallsIn(pushed \o ms) = CallsIn(pushed \o text) /\ RowsIn(pushed \o ms) = RowsIn(pushed \o text)
    <3>1. /\ CallsIn(pushed \o ms) = CallsIn(pushed) \o CallsIn(ms)
          /\ RowsIn(pushed \o ms) = RowsIn(pushed) \o RowsIn(ms)
      BY <1>0, <2>7, SaidBehind
    <3>2. /\ CallsIn(pushed \o text) = CallsIn(pushed) \o CallsIn(text)
          /\ RowsIn(pushed \o text) = RowsIn(pushed) \o RowsIn(text)
      BY <1>0, <1>2, SaidBehind
    <3> QED
      BY <2>8, <3>1, <3>2
  <2>10. EndsLast(pushed \o ms)
    <3>1. NoEnd(pushed)
      BY <2>2 DEF TurnKept
    <3> QED
      BY <1>0, <2>7, <2>8, <3>1, NoEndBehind
  <2>11. pushed' = pushed \o Append(ms, End("stream_end_exception"))
    BY <2>1, <2>7 DEF e
  <2> QED
    BY <1>0, <2>1, <2>2, <2>5, <2>7, <2>9, <2>10, <2>11, EndKept
<1>9. CASE ChunkToolCalls
  <2> DEFINE announced == text \o Announce(ParseToolCalls)
  <2>1. ParseToolCalls \in Seq(Calls)
    BY <1>0, ParsedCalls
  <2>2. pc = "chunks" /\ Running
    BY <1>9 DEF ChunkToolCalls, Chunk, Running
  <2>3. announced \in Seq(Message) /\ NoEnd(announced)
    <3>1. Announce(ParseToolCalls) \in Seq(Message)
      BY <2>1, AnnounceIs
    <3>2. NoEnd(Announce(ParseToolCalls))
      <4>1. \A k \in 1..Len(ParseToolCalls) : ParseToolCalls[k] \in Calls
        BY <2>1
      <4>2. /\ Len(Announce(ParseToolCalls)) = Len(ParseToolCalls)
            /\ \A k \in 1..Len(ParseToolCalls) :
                  Announce(ParseToolCalls)[k] = ToolCall(ParseToolCalls[k])
        BY <2>1, AnnounceIs
      <4>3. \A k \in 1..Len(ParseToolCalls) : ToolCall(ParseToolCalls[k]).type = "tool_call"
        BY <4>1, MessagesMade
      <4> QED
        BY <4>2, <4>3 DEF NoEnd, EndTypes
    <3>3. announced \in Seq(Message)
      BY <1>2, <3>1
    <3> QED
      BY <1>2, <3>1, <3>2, <3>3, NoEndBehind
  <2>4. \/ Raise(text)
        \/ Raise(announced)
        \/ /\ Push(announced) /\ batch' = ParseToolCalls /\ rows' = WithText
           /\ pc' = "tools" /\ UNCHANGED <<mem, outcome>>
    BY <1>9 DEF ChunkToolCalls
  <2>5. CASE Raise(text)
    BY <1>2, <2>2, <2>5, RunRaises
  <2>6. CASE Raise(announced)
    <3> HIDE DEF announced
    <3> QED
      BY <2>2, <2>3, <2>6, RunRaises
  <2>7. CASE /\ Push(announced) /\ batch' = ParseToolCalls /\ rows' = WithText
             /\ pc' = "tools" /\ UNCHANGED <<mem, outcome>>
    BY <2>1, <2>2, <2>7, AnnouncedKept DEF Push
  <2> QED
    BY <2>4, <2>5, <2>6, <2>7
<1>10. CASE \E ds \in SUBSET (1..MaxIndex) : ChunkDelta(ds)
  <2> DEFINE ms == <<Text("text_msg_delta", iteration)>>
  <2>1. /\ pc = "chunks" /\ UNCHANGED <<pc, mem, rows, outcome>>
        /\ pushed' = pushed \o ms \/ UNCHANGED pushed
    BY <1>10 DEF ChunkDelta, Chunk, Push, endVars
  <2>2. ms \in Seq(Message) /\ NoEnd(ms) /\ CallsIn(ms) = <<>> /\ RowsIn(ms) = <<>>
    <3>1. "text_msg_delta" \in TextTypes /\ "text_msg_delta" # "text_msg_end"
      BY DEF TextTypes
    <3> QED
      BY <1>0, <3>1, TextSays
  <2>3. Running /\ Running' /\ Pending' = Pending
    BY <2>1 DEF Running, Pending
  <2> HIDE DEF ms
  <2> QED
    BY <1>0, <2>1, <2>2, <2>3, PlainKept, NothingKept
<1>11. CASE ToolsComplete
  <2>1. PICK res \in Results :
             /\ \A k \in 1..Len(batch) : res[k] # "raised"
             /\ Push(Responses(res, Len(batch)))
             /\ rows' = Numbered(FlattenSeq(RowsOfBatch(res)))
    BY <1>11 DEF ToolsComplete, RowsOfBatch
  <2>2. /\ pc = "tools" /\ pc' = "call" /\ outcome' = outcome
        /\ mem' = Append(mem, Assistant(batch)) \o ToolMemories
    BY <1>11 DEF ToolsComplete, endVars
  <2> QED
    BY <2>1, <2>2, BatchKept DEF Push
<1>12. CASE ToolsRaise
  <2>1. PICK res \in Results, n \in 1..Len(batch) :
             /\ \A k \in 1..Len(batch) : res[k] = "raised" => n <= k
             /\ Raise(Responses(res, n - 1))
    BY <1>12 DEF ToolsRaise
  <2>2. n - 1 \in 0..Len(batch) /\ \A k \in 1..(n - 1) : k \in 1..Len(batch) /\ ~(n <= k)
    BY <1>0
  <2>3. /\ Responses(res, n - 1) \in Seq(Message)
        /\ Len(Responses(res, n - 1)) = n - 1
        /\ \A k \in 1..(n - 1) : Responses(res, n - 1)[k].type = "tool_response"
    BY <1>0, <2>1, <2>2, ResponsesAre
  <2>4. NoEnd(Responses(res, n - 1))
    BY <2>3 DEF NoEnd, EndTypes
  <2>5. Running
    BY <1>12 DEF ToolsRaise, Running
  <2> QED
    BY <2>1, <2>3, <2>4, <2>5, RunRaises
<1>13. CASE Record
  <2>1. /\ pc = "record" /\ pc' = "drain" /\ UNCHANGED <<pushed, mem, rows, outcome>>
    BY <1>13 DEF Record, turnVars
  <2>2. ~Running' /\ Pending' = Pending
    BY <2>1 DEF Running, Pending
  <2> QED
    BY <2>1, <2>2, NothingKept
<1>14. CASE RecordFault
  <2>1. pc = "record" /\ EndsLast(pushed) /\ pushed \o <<>> = pushed
    BY <1>0, <1>14 DEF RecordFault, TurnKept
  <2>2. CASE Raise(<<>>)
    BY <1>0, <1>1, <2>1, <2>2, RaiseKept
  <2>3. CASE pc' = "drain" /\ UNCHANGED <<turnVars, cancelEvent, pushed, outcome>>
    <3>1. ~Running' /\ Pending' = Pending /\ UNCHANGED <<pushed, mem, rows, outcome>>
      BY <2>1, <2>3 DEF Running, Pending, turnVars
    <3> QED
      BY <3>1, NothingKept
  <2> QED
    BY <1>14, <2>2, <2>3 DEF RecordFault
<1>15. CASE DrainAndStop
  <2>1. pc = "drain" /\ pc' = "exited" /\ UNCHANGED <<pushed, mem, rows, outcome>>
    BY <1>15 DEF DrainAndStop, turnVars, endVars
  <2>2. ~Running' /\ Pending' = Pending
    BY <2>1 DEF Running, Pending
  <2> QED
    BY <2>1, <2>2, NothingKept
<1> QED
  BY <1>3, <1>4, <1>5, <1>6, <1>7, <1>8, <1>9, <1>10, <1>11, <1>12, <1>13, <1>14, <1>15 DEF Turn

\* Every step keeps it.
LEMMA KeptStep ==
    ASSUME AllTyped, TurnKept, [Next]_vars
    PROVE  TurnKept'
<1>0. TurnTyped
  BY DEF AllTyped
<1>1. CASE Turn
  BY <1>0, <1>1, TurnKeepsKept
<1>2. ASSUME UNCHANGED <<pc, batch, mem, rows, outcome, pushed>> PROVE TurnKept'
  <2>1. (Running' => Running) /\ Pending' = Pending
    BY <1>2 DEF Running, Pending
  <2> QED
    BY <1>2, <2>1, NothingKept
<1> USE DEF turnVars, localVars, endVars
<1>3. CASE Process
  BY <1>2, <1>3 DEF Process
<1>4. CASE CancelArrives \/ StreamExpires
  BY <1>2, <1>4 DEF CancelArrives, StreamExpires
<1>5. CASE Crash
  <2>1. pc' = "dead" /\ UNCHANGED <<pushed, mem, rows, outcome>>
    BY <1>5 DEF Crash
  <2>2. ~Running' /\ (Pending' = Pending \/ ~Kept')
    <3>1. CASE Running
      BY <2>1, <3>1 DEF Running, TurnKept, Kept, Recorded
    <3>2. CASE ~Running
      BY <2>1, <3>2 DEF Running, Pending
    <3> QED
      BY <3>1, <3>2
  <2> QED
    BY <2>1, <2>2, NothingKept
<1>6. CASE \E c \in Clients : Connect(c) \/ Disconnect(c) \/ Listen(c)
  BY <1>2, <1>6 DEF Connect, Disconnect, Listen, NoStream, ReadNext, ReadNothing
<1>7. CASE UNCHANGED vars
  BY <1>2, <1>7 DEF vars
<1> QED
  BY <1>1, <1>3, <1>4, <1>5, <1>6, <1>7 DEF Next

\* Nothing was said and nothing is remembered when the turn begins.
LEMMA KeptInit == Init => TurnKept
<1> SUFFICES ASSUME Init PROVE TurnKept
  OBVIOUS
<1>1. pc = "call" /\ outcome = "none" /\ pushed = <<>> /\ mem = <<>> /\ rows = <<>>
  BY DEF Init
<1>2. Len(<<>>) = 0 /\ <<>> \o <<>> = <<>>
  OBVIOUS
<1>3. /\ NoEnd(pushed) /\ EndsLast(pushed) /\ AnswersFollow(mem) /\ CountedUp(rows)
  BY <1>1, <1>2 DEF NoEnd, EndsLast, AnswersFollow, CountedUp
<1>4. FlattenSeq(<<>>) = <<>>
  BY DEF FlattenSeq
<1>5. CallsIn(<<>>) = <<>> /\ RowsIn(<<>>) = <<>> /\ MemCalls(<<>>) = <<>> /\ Stripped(<<>>) = <<>>
  BY <1>4 DEF CallsIn, RowsIn, MemCalls, Stripped
<1>6. Pending = <<>>
  BY <1>1 DEF Pending
<1> QED
  BY <1>1, <1>2, <1>3, <1>4, <1>5, <1>6 DEF TurnKept

\* What the user saw and what is kept never part, at any moment of the turn.
THEOREM TurnKeptAlways == Spec => []TurnKept
<1>1. AllTyped /\ TurnKept /\ [Next]_vars => TurnKept'
  BY KeptStep
<1> QED
  BY <1>1, KeptInit, TypedAlways, PTL DEF Spec

\* Every call that was announced in a turn that is kept is in its memories with its own
\* answer, in the order of the announcement: however many rounds there were, however many
\* tools a round asked for, and whether or not they exist.
THEOREM CallsAlwaysAnswered == Spec => []CallsAnswered
<1>1. TurnTyped /\ TurnKept => CallsAnswered
  <2> SUFFICES ASSUME TurnTyped, TurnKept PROVE CallsAnswered
    OBVIOUS
  <2>1. AnswersFollow(mem)
    BY DEF TurnKept
  <2>2. ASSUME Recorded PROVE CallsIn(pushed) = FlattenSeq(MemCalls(mem))
    <3>1. Kept /\ pc # "tools"
      BY <2>2 DEF Kept, Recorded, Running, TurnKept
    <3>2. CallsIn(pushed) = FlattenSeq(MemCalls(mem)) \o <<>>
      BY <3>1 DEF TurnKept, Pending
    <3>3. FlattenSeq(MemCalls(mem)) \in Seq(Calls)
      BY MemCallsAre DEF TurnTyped
    <3> QED
      BY <3>2, <3>3
  <2> QED
    BY <2>1, <2>2 DEF CallsAnswered, AnswersFollow, MemCalls
<1>2. AllTyped /\ TurnKept => CallsAnswered
  BY <1>1 DEF AllTyped
<1> QED
  BY <1>2, TypedAlways, TurnKeptAlways, PTL

\* The end of the answer is its end, whatever goes wrong while the turn is recorded, and
\* the rows of a turn that is kept are what its stream showed, numbered from 0.
THEOREM RowsAlwaysMatch == Spec => []RowsMatchStream
<1>1. TurnKept => RowsMatchStream
  <2> SUFFICES ASSUME TurnKept PROVE RowsMatchStream
    OBVIOUS
  <2>1. EndsLast(pushed)
    BY DEF TurnKept
  <2>2. ASSUME Recorded PROVE CountedUp(rows) /\ RowsIn(pushed) = Stripped(rows)
    BY <2>2 DEF TurnKept, Kept
  <2> QED
    BY <2>1, <2>2 DEF RowsMatchStream, EndsLast, CountedUp, Stripped
<1> QED
  BY <1>1, TurnKeptAlways, PTL
=============================================================================
