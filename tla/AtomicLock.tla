----------------------------- MODULE AtomicLock -----------------------------
(***************************************************************************)
(* What the spinlock promises: it is taken only when nobody holds it, and   *)
(* given up only by the one who does.                                       *)
(***************************************************************************)
CONSTANT Clients

VARIABLE holders  \* the set of clients that own the lock

Init == holders = {}

Acquire(c) == holders = {} /\ holders' = {c}
Release(c) == holders = {c} /\ holders' = {}

Next == \E c \in Clients : Acquire(c) \/ Release(c)

Spec == Init /\ [][Next]_holders
=============================================================================
