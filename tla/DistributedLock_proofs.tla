----------------------- MODULE DistributedLock_proofs -----------------------
(***************************************************************************)
(* RedisDistributedLock for any number of lock objects, any timeout and    *)
(* interval that leave room for the lag, and any number of faults.         *)
(***************************************************************************)
EXTENDS DistributedLock, TLAPS

\* A client that holds owns the key, and the key outlives what is left of the
\* time its watchdog has.
Leased == \A c \in Clients : Holds(c) => key = c /\ ttl + age[c] >= TTL

\* A watchdog runs only between the grant and the end of the release.
WatchInside == \A c \in Clients : Watched(c) => pc[c] \in {"cs", "stop"}

IInv == TypeOK /\ Leased /\ WatchInside

LEMMA InitIInv == Init => IInv
  BY DistributedLockAssumption DEF Init, IInv, TypeOK, Leased, WatchInside, Holds, Watched

LEMMA IInvStep == IInv /\ [Next]_vars => IInv'
<1> SUFFICES ASSUME IInv, [Next]_vars PROVE IInv'
  OBVIOUS
<1> USE DistributedLockAssumption DEF IInv, TypeOK, Leased, WatchInside, Holds, Watched
<1>1. ASSUME NEW c \in Clients, Start(c) \/ Retry(c) \/ GiveUp(c) PROVE IInv'
  BY <1>1 DEF Start, Retry, GiveUp, Goto, server
<1>2. ASSUME NEW c \in Clients, TrySet(c) PROVE IInv'
  BY <1>2 DEF TrySet, Goto, server
<1>3. ASSUME NEW c \in Clients, Granted(c) PROVE IInv'
  BY <1>3 DEF Granted, Goto, server
<1>4. ASSUME NEW c \in Clients, AcquireFault(c) PROVE IInv'
  BY <1>4 DEF AcquireFault, Goto, server
<1>5. ASSUME NEW c \in Clients, StartRelease(c) PROVE IInv'
  BY <1>5 DEF StartRelease, Goto, server
<1>6. ASSUME NEW c \in Clients, Renew(c) PROVE IInv'
  BY <1>6 DEF Renew, ProlongOwn
<1>7. ASSUME NEW c \in Clients, Wake(c) PROVE IInv'
  BY <1>7 DEF Wake, server
<1>8. ASSUME NEW c \in Clients, RenewFault(c) PROVE IInv'
  BY <1>8 DEF RenewFault, ProlongOwn
<1>9. ASSUME NEW c \in Clients, LateRenew(c) PROVE IInv'
  BY <1>9 DEF LateRenew, ProlongOwn
<1>10. ASSUME NEW c \in Clients, StopWatch(c) PROVE IInv'
  BY <1>10 DEF StopWatch, Cancelled, Goto, server
<1>11. ASSUME NEW c \in Clients, Release(c) PROVE IInv'
  BY <1>11 DEF Release, DeleteOwn, Goto, server
<1>12. ASSUME NEW c \in Clients, ReleaseFault(c) PROVE IInv'
  BY <1>12 DEF ReleaseFault, DeleteOwn, Goto, server
<1>13. ASSUME NEW c \in Clients, Crash(c) PROVE IInv'
  BY <1>13 DEF Crash, Cancelled, Goto, server
<1>14. CASE Tick
  BY <1>14 DEF Tick
<1>15. CASE UNCHANGED vars
  BY <1>15 DEF vars, server
<1> QED
  BY <1>1, <1>2, <1>3, <1>4, <1>5, <1>6, <1>7, <1>8, <1>9, <1>10, <1>11, <1>12, <1>13,
     <1>14, <1>15 DEF Next, Step, Watchdog

LEMMA IInvAlways == Spec => []IInv
  BY InitIInv, IInvStep, PTL DEF Spec

\* Every variable keeps its type; the key exists exactly while it has life left.
THEOREM TypeCorrect == Spec => []TypeOK
<1>1. IInv => TypeOK
  BY DEF IInv
<1> QED
  BY <1>1, IInvAlways, PTL

\* A client whose watchdog runs is alone in the critical section, whatever the
\* others suffer, for every timeout, interval and lag with Interval + MaxLag < TTL.
THEOREM HealthyHolderAloneAlways == Spec => []HealthyHolderAlone
<1>1. IInv => HealthyHolderAlone
  BY DistributedLockAssumption DEF IInv, Leased, HealthyHolderAlone
<1> QED
  BY <1>1, IInvAlways, PTL

\* A key is taken away only by time or by its holder's release, and its life is
\* prolonged only by its holder's watchdog.
THEOREM OnlyHolderOrTimeAlways == Spec => OnlyHolderOrTime
<1>1. IInv /\ [Next]_vars => [HolderOrTime]_server
  <2> SUFFICES ASSUME IInv, [Next]_vars, key # None, server' # server PROVE HolderOrTime
    BY DEF HolderOrTime
  <2> USE DistributedLockAssumption DEF IInv, TypeOK, HolderOrTime
  <2>1. ASSUME NEW c \in Clients, TrySet(c) \/ AcquireFault(c) PROVE HolderOrTime
    BY <2>1 DEF TrySet, AcquireFault, server
  <2>2. ASSUME NEW c \in Clients, Renew(c) \/ RenewFault(c) \/ LateRenew(c) PROVE HolderOrTime
    BY <2>2 DEF Renew, RenewFault, LateRenew, ProlongOwn
  <2>3. ASSUME NEW c \in Clients, Release(c) \/ ReleaseFault(c) PROVE HolderOrTime
    BY <2>3 DEF Release, ReleaseFault, DeleteOwn, server
  <2>4. CASE Tick
    BY <2>4 DEF Tick
  <2>5. ASSUME NEW c \in Clients,
               \/ Start(c) \/ Granted(c) \/ Retry(c) \/ GiveUp(c) \/ StartRelease(c)
               \/ StopWatch(c) \/ Wake(c) \/ Crash(c)
        PROVE  UNCHANGED server
    BY <2>5 DEF Start, Granted, Retry, GiveUp, StartRelease, StopWatch, Wake,
       Crash
  <2> QED
    BY <2>1, <2>2, <2>3, <2>4, <2>5 DEF Next, Step, Watchdog, vars
<1> QED
  BY <1>1, IInvAlways, PTL DEF Spec, OnlyHolderOrTime

-----------------------------------------------------------------------------
LEMMA StepSimulates ==
    ASSUME IInv, Next
    PROVE  Lease!Next \/ UNCHANGED <<key, Working>>
<1> USE DistributedLockAssumption DEF IInv, TypeOK, Working, Holds, Watched
<1>1. ASSUME NEW c \in Clients, TrySet(c) PROVE Lease!Enter(c) \/ UNCHANGED <<key, Working>>
  <2>1. CASE key = None
    BY <1>1, <2>1 DEF TrySet, Goto, Lease!Enter
  <2>2. CASE key # None
    BY <1>1, <2>2 DEF TrySet, Goto, server
  <2> QED
    BY <2>1, <2>2
<1>2. ASSUME NEW c \in Clients, AcquireFault(c) PROVE Lease!Leak(c) \/ UNCHANGED <<key, Working>>
  BY <1>2 DEF AcquireFault, Goto, server, Lease!Leak
<1>3. ASSUME NEW c \in Clients, StartRelease(c) \/ Crash(c)
      PROVE  Lease!Leave({c})
  <2>1. key' = key /\ pc'[c] \notin {"granted", "cs"}
    BY <1>3 DEF StartRelease, Crash, Goto, server
  <2>2. \A d \in Clients \ {c} : pc'[d] = pc[d] /\ watch'[d] = watch[d]
    BY <1>3 DEF StartRelease, Crash, Goto
  <2>3. Working' = Working \ {c}
    BY <2>1, <2>2
  <2> QED
    BY <2>1, <2>3 DEF Lease!Leave
<1>4. ASSUME NEW c \in Clients, Release(c) \/ ReleaseFault(c)
      PROVE  Lease!Release(c) \/ UNCHANGED <<key, Working>>
  BY <1>4 DEF Release, ReleaseFault, DeleteOwn, Goto, server, Lease!Release
<1>5. CASE Tick
  <2>1. UNCHANGED Working
    BY <1>5 DEF Tick
  <2>2. key \in Working => key' = key
    BY <1>5 DEF Tick, Leased
  <2>3. key' \in {key, None}
    BY <1>5 DEF Tick
  <2>4. Lease!Free \/ UNCHANGED <<key, Working>>
    BY <2>1, <2>2, <2>3 DEF Lease!Free
  <2> QED
    BY <2>4 DEF Lease!Next
<1>6. ASSUME NEW c \in Clients,
             \/ Granted(c) \/ Retry(c) \/ StopWatch(c) \/ Start(c) \/ GiveUp(c)
      PROVE  UNCHANGED <<key, Working>>
  BY <1>6 DEF Granted, Retry, StopWatch, Start, GiveUp, Cancelled, Goto, server
<1>7. ASSUME NEW c \in Clients, Watchdog(c)
      PROVE  UNCHANGED <<key, Working>>
  BY <1>7 DEF Watchdog, Renew, Wake, LateRenew, server
<1>8. ASSUME NEW c \in Clients, RenewFault(c)
      PROVE  Lease!Leave({c})
  BY <1>8 DEF RenewFault, WatchInside, server, Lease!Leave
<1> QED
  BY <1>1, <1>2, <1>3, <1>4, <1>5, <1>6, <1>7, <1>8 DEF Next, Step, Lease!Next

\* The lock on Redis is the lease its users rely on, whatever fails or dies: a
\* holder that is no longer renewed is one that has left.
THEOREM LockIsLease == Spec => LeaseSpec
<1>1. Init => Lease!Init
  BY DEF Init, Lease!Init, Working, Holds
<1>2. IInv /\ [Next]_vars => [Lease!Next]_<<key, Working>>
  BY StepSimulates DEF vars, server, Working, Holds, Watched
<1> QED
  BY <1>1, <1>2, IInvAlways, PTL DEF Spec, LeaseSpec, Lease!Spec
=============================================================================
