--------------------------- MODULE DistributedLock ---------------------------
(***************************************************************************)
(* RedisDistributedLock: one Redis key, set with SET NX EX, renewed by a   *)
(* watchdog task of its holder, deleted by a compare-and-delete script.    *)
(* A client is one lock object; its identifier is the client itself.       *)
(* Time passes in ticks; the key carries the ticks it still has to live.   *)
(***************************************************************************)
EXTENDS Naturals

CONSTANTS
    Clients,         \* lock objects on the same key
    Patient,         \* those that acquire blocking and without a timeout
    TTL,             \* timeout, in ticks
    Interval,        \* renewal_interval, in ticks
    MaxLag,          \* how late a ready coroutine or a reply may be, in ticks
    MaxFaults,       \* bound: failing acquire and release calls
    MaxRenewFaults,  \* bound: failing renewals
    MaxCrashes,      \* bound: how often a client's process dies
    None             \* no key

ASSUME DistributedLockAssumption ==
    /\ {TTL, Interval, MaxLag, MaxFaults, MaxRenewFaults, MaxCrashes} \subseteq Nat
    /\ Interval + MaxLag < TTL
    /\ Patient \subseteq Clients
    /\ None \notin Clients

VARIABLES
    key, ttl,                        \* Redis: the identifier stored, its life
    pc,                              \* where each client is
    watch,                           \* its watchdog
    age,                             \* ticks since its SET or last renewal
    faults, renewFaults, crashes

server == <<key, ttl>>
bounds == <<faults, renewFaults, crashes>>
vars == <<server, pc, watch, age, bounds>>

Goto(c, l) == pc' = [pc EXCEPT ![c] = l]

\* the flag _acquired
Acquired(c) == pc[c] \in {"cs", "stop", "del", "unreleased"}

Watched(c) == watch[c] \in {"renew", "sleep"}

Init ==
    /\ key = None /\ ttl = 0
    /\ pc = [c \in Clients |-> "idle"]
    /\ watch = [c \in Clients |-> "off"]
    /\ age = [c \in Clients |-> 0]
    /\ faults = 0 /\ renewFaults = 0 /\ crashes = 0

-----------------------------------------------------------------------------
(* acquire *)

\* a lock object that is not acquired may be used again
Start(c) ==
    /\ pc[c] \in {"idle", "done", "failed", "refused"}
    /\ Goto(c, "try")
    /\ UNCHANGED <<server, watch, age, bounds>>

\* SET key identifier NX EX timeout
TrySet(c) ==
    /\ pc[c] = "try"
    /\ \/ /\ key = None
          /\ key' = c /\ ttl' = TTL
          /\ age' = [age EXCEPT ![c] = 0]
          /\ Goto(c, "granted")
       \/ /\ key # None
          /\ Goto(c, "wait")
          /\ UNCHANGED <<server, age>>
    /\ UNCHANGED <<watch, bounds>>

\* the reply arrives: _acquired is set and the watchdog is created
Granted(c) ==
    /\ pc[c] = "granted"
    /\ Goto(c, "cs")
    /\ watch' = [watch EXCEPT ![c] = "renew"]
    /\ UNCHANGED <<server, age, bounds>>

\* sleep(1), then the next SET
Retry(c) ==
    /\ pc[c] = "wait"
    /\ Goto(c, "try")
    /\ UNCHANGED <<server, watch, age, bounds>>

\* blocking=False, or the acquire timeout is over
GiveUp(c) ==
    /\ pc[c] = "wait"
    /\ c \notin Patient
    /\ Goto(c, "refused")
    /\ UNCHANGED <<server, watch, age, bounds>>

\* SET raises or the waiting task is cancelled; the server may have stored the
\* key, which then belongs to nobody
AcquireFault(c) ==
    /\ faults < MaxFaults
    /\ pc[c] = "try"
    /\ \/ UNCHANGED server
       \/ key = None /\ key' = c /\ ttl' = TTL
    /\ Goto(c, "failed")
    /\ faults' = faults + 1
    /\ UNCHANGED <<watch, age, renewFaults, crashes>>

-----------------------------------------------------------------------------
(* _renew_lock *)

\* mutant: EXPIRE without comparing
ProlongAlways(c) == ttl' = TTL

\* the script: EXPIRE if the key still holds the identifier
ProlongOwn(c) == ttl' = IF key = c THEN TTL ELSE ttl

\* mutant: the renewal does not prolong the key's life
RenewNothing(c) ==
    /\ watch[c] = "renew"
    /\ age' = [age EXCEPT ![c] = 0]
    /\ watch' = [watch EXCEPT ![c] = "sleep"]
    /\ UNCHANGED <<server, pc, bounds>>

Renew(c) ==
    /\ watch[c] = "renew"
    /\ ProlongOwn(c)
    /\ age' = [age EXCEPT ![c] = 0]
    /\ watch' = [watch EXCEPT ![c] = "sleep"]
    /\ UNCHANGED <<key, pc, bounds>>

Wake(c) ==
    /\ watch[c] = "sleep"
    /\ age[c] >= Interval
    /\ watch' = [watch EXCEPT ![c] = "renew"]
    /\ UNCHANGED <<server, pc, age, bounds>>

\* the script raises, executed or not: the watchdog ends, the holder is not told
RenewFault(c) ==
    /\ renewFaults < MaxRenewFaults
    /\ watch[c] = "renew"
    /\ \/ UNCHANGED ttl
       \/ ProlongOwn(c)
    /\ watch' = [watch EXCEPT ![c] = "off"]
    /\ renewFaults' = renewFaults + 1
    /\ UNCHANGED <<key, pc, age, faults, crashes>>

\* a renewal sent before its watchdog was cancelled reaches the server late, or
\* never
LateRenew(c) ==
    /\ watch[c] = "sent"
    /\ \/ UNCHANGED ttl
       \/ ProlongOwn(c)
    /\ watch' = [watch EXCEPT ![c] = "off"]
    /\ UNCHANGED <<key, pc, age, bounds>>

Cancelled(w) == CASE w = "renew" -> {"off", "sent"} [] w = "sent" -> {"sent"} [] OTHER -> {"off"}

-----------------------------------------------------------------------------
(* release *)

\* the body of the async with is over
StartRelease(c) ==
    /\ pc[c] = "cs"
    /\ Goto(c, "stop")
    /\ UNCHANGED <<server, watch, age, bounds>>

\* mutant: the watchdog is not cancelled
StopWatchForgets(c) ==
    /\ pc[c] = "stop"
    /\ Goto(c, "del")
    /\ UNCHANGED <<server, watch, age, bounds>>

\* the watchdog is cancelled and awaited
StopWatch(c) ==
    /\ pc[c] = "stop"
    /\ \E w \in Cancelled(watch[c]) : watch' = [watch EXCEPT ![c] = w]
    /\ Goto(c, "del")
    /\ UNCHANGED <<server, age, bounds>>

\* mutant: DEL without comparing
DeleteAlways(c) == key' = None /\ ttl' = 0

\* the script: DEL if the key still holds the identifier
DeleteOwn(c) ==
    \/ key = c /\ key' = None /\ ttl' = 0
    \/ key # c /\ UNCHANGED server

Release(c) ==
    /\ pc[c] = "del"
    /\ DeleteOwn(c)
    /\ Goto(c, "done")
    /\ UNCHANGED <<watch, age, bounds>>

\* the script raises, executed or not: _acquired stays set
ReleaseFault(c) ==
    /\ faults < MaxFaults
    /\ pc[c] = "del"
    /\ UNCHANGED server \/ DeleteOwn(c)
    /\ Goto(c, "unreleased")
    /\ faults' = faults + 1
    /\ UNCHANGED <<watch, age, renewFaults, crashes>>

-----------------------------------------------------------------------------
Crash(c) ==
    /\ crashes < MaxCrashes
    /\ pc[c] \notin {"idle", "dead"}
    /\ Goto(c, "dead")
    /\ \E w \in Cancelled(watch[c]) : watch' = [watch EXCEPT ![c] = w]
    /\ crashes' = crashes + 1
    /\ UNCHANGED <<server, age, faults, renewFaults>>

\* one tick: a reply or a renewal that is due is at most MaxLag late
Tick ==
    /\ \A c \in Clients : pc[c] = "granted" \/ Watched(c) => age[c] < Interval + MaxLag
    /\ ttl' = IF ttl = 0 THEN 0 ELSE ttl - 1
    /\ key' = IF ttl' = 0 THEN None ELSE key
    /\ age' = [c \in Clients |-> IF pc[c] = "granted" \/ Watched(c) THEN age[c] + 1 ELSE age[c]]
    /\ UNCHANGED <<pc, watch, bounds>>

-----------------------------------------------------------------------------
Step(c) ==
    \/ TrySet(c) \/ Granted(c) \/ Retry(c)
    \/ StartRelease(c) \/ StopWatch(c) \/ Release(c)

Watchdog(c) == Renew(c) \/ Wake(c) \/ LateRenew(c)

Next ==
    \/ \E c \in Clients :
        \/ Step(c) \/ Watchdog(c)
        \/ Start(c) \/ GiveUp(c) \/ AcquireFault(c)
        \/ RenewFault(c) \/ ReleaseFault(c) \/ Crash(c)
    \/ Tick

Spec == Init /\ [][Next]_vars

\* critical sections end, ready coroutines run, time passes
Fairness ==
    /\ \A c \in Clients : WF_vars(Step(c)) /\ WF_vars(Watchdog(c))
    /\ WF_vars(Tick)

FairSpec == Spec /\ Fairness

-----------------------------------------------------------------------------
(* Properties *)

\* Every variable holds a value of its kind, and the key is there while it lives.
TypeOK ==
    /\ key \in Clients \cup {None}
    /\ ttl \in 0 .. TTL
    /\ key = None <=> ttl = 0
    /\ pc \in [Clients -> {"idle", "try", "wait", "granted", "cs", "stop", "del", "done",
                           "unreleased", "failed", "refused", "dead"}]
    /\ watch \in [Clients -> {"off", "renew", "sleep", "sent"}]
    /\ age \in [Clients -> 0 .. Interval + MaxLag]

Holds(c) == pc[c] = "granted" \/ (pc[c] = "cs" /\ Watched(c))

\* A client whose watchdog runs is the only one in the critical section, except
\* for clients whose own renewal failed: nobody else's fault, crash, late delete
\* or late renewal takes a lock from a client that renews it.
HealthyHolderAlone ==
    \A c, d \in Clients : c # d /\ Holds(c) => ~Holds(d) /\ key = c

HolderOrTime ==
    \/ key = None
    \/ key' = key /\ ttl' <= ttl
    \/ key' = key /\ watch[key] \in {"renew", "sent"}
    \/ key' = None /\ (ttl = 1 \/ pc[key] = "del")

\* Only the lapse of its life or its own holder's release takes a key away, and
\* only its holder's watchdog prolongs its life: a client that comes late, after
\* its lease has lapsed, never disturbs the next holder.
OnlyHolderOrTime == [][HolderOrTime]_server

\* The lock is never stuck: whatever became of its holder, the key is given back
\* or lapses.
KeyFreed == \A c \in Clients : key = c ~> key # c

\* The clients that are inside and renew their lock.
Working == {c \in Clients : Holds(c)}

\* The lock is the one its users rely on. A client whose renewal fails counts as
\* one that left without giving the key back.
Lease == INSTANCE LeaseLock WITH owner <- key, holding <- Working

LeaseSpec == Lease!Spec
=============================================================================
