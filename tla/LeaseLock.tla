------------------------------ MODULE LeaseLock ------------------------------
(***************************************************************************)
(* What the users of RedisDistributedLock rely on: a key with an owner,    *)
(* and the clients that are between acquire and release. A key is given    *)
(* only when nobody owns it, and it is taken away only from an owner that  *)
(* is no longer working.                                                   *)
(***************************************************************************)
CONSTANTS Clients, None

VARIABLES owner, holding

Init == owner = None /\ holding = {}

Enter(c) ==
    /\ owner = None
    /\ owner' = c
    /\ holding' = holding \cup {c}

\* the reply to a granted request is lost: the key is owned, nobody works
Leak(c) ==
    /\ owner = None
    /\ owner' = c
    /\ UNCHANGED holding

\* clients end, fail or die without giving the key back
Leave(C) ==
    /\ holding' = holding \ C
    /\ UNCHANGED owner

\* a client gives the key back
Release(c) ==
    /\ holding' = holding \ {c}
    /\ owner' = IF owner = c THEN None ELSE owner

\* the lease of an owner that is gone runs out
Free ==
    /\ owner \notin holding
    /\ owner' = None
    /\ UNCHANGED holding

Next ==
    \/ \E c \in Clients : Enter(c) \/ Leak(c) \/ Release(c)
    \/ \E C \in SUBSET Clients : Leave(C)
    \/ Free

Spec == Init /\ [][Next]_<<owner, holding>>

\* Nobody works without owning the key, hence never two clients at once.
HolderOwns == \A c \in holding : owner = c
=============================================================================
