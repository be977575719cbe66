----------------------------- MODULE ClientPool -----------------------------
(***************************************************************************)
(* bounded_client_pool (src/protocol/http/client/client_pool.cpp): leases   *)
(* of outbound HTTP clients, FIFO waiters, cancellation and close().        *)
(*                                                                          *)
(* state_mutex_ is an async_mutex (see AsyncMutex), which one task owns at  *)
(* a time.  Callers and cancel() run on any thread: others may act while    *)
(* one is inside the lock.  post_node_raw() puts the one node of a waiter,  *)
(* or of a slot, into the queue of the loop.                                *)
(***************************************************************************)
EXTENDS CancelToken, Naturals, Sequences, FiniteSets, SequencesExt, FiniteSetsExt

CONSTANTS
    Callers, MaximumClients, MaximumWaiters,
    MaxAcquires   \* bound: calls of acquire() in all

ASSUME PoolAssumption ==
    /\ IsFiniteSet(Callers) /\ Nobody \notin Callers
    /\ MaximumClients \in Nat \ {0} /\ MaximumWaiters \in Nat /\ MaxAcquires \in Nat

VARIABLES
    poolLock,    \* who is inside state_mutex_, or Nobody
    leased,      \* leased[k]: slots_[k].checked_out
    waiters,     \* waiters_
    caller,      \* caller[c]: where acquire() is, the slot leased to it, and
                 \* the flags of its waiter
    token,       \* token[c]: the cancel_token of c's acquire()
    cancelling,  \* cancelling[c]: cancel() has published and not dispatched
    posted,      \* posted[c]: what c's node has been posted as
    returning,   \* slots whose return_notification is posted
    closer,      \* close(), and closing_ from "draining" on
    activeWaiters, idle, checkedOut,  \* the counters
    acquires     \* calls of acquire() so far

cpVars == <<poolLock, leased, waiters, caller, token, cancelling, posted, returning, closer,
            activeWaiters, idle, checkedOut, acquires>>

NotCalling == [at |-> "idle", slot |-> 0, queued |-> FALSE, registered |-> FALSE]

CpInit ==
    /\ poolLock = Nobody
    /\ leased = << >> /\ waiters = << >>
    /\ caller = [c \in Callers |-> NotCalling]
    /\ token = [c \in Callers |-> FreshToken]
    /\ cancelling = [c \in Callers |-> FALSE]
    /\ posted = [c \in Callers |-> << >>]
    /\ returning = {} /\ closer = "no"
    /\ activeWaiters = 0 /\ idle = 0 /\ checkedOut = 0 /\ acquires = 0

Closing == closer \in {"draining", "closed"}
Counters == <<activeWaiters, idle, checkedOut>>
Move(c, at) == caller' = [caller EXCEPT ![c].at = at]
Leave == poolLock' = Nobody

-----------------------------------------------------------------------------
(* acquire(), each time with a token of its own.                            *)
Call(c) ==
    /\ caller[c].at = "idle" /\ ~cancelling[c]
    /\ acquires < MaxAcquires /\ acquires' = acquires + 1
    /\ Move(c, "locking")
    /\ token' = [token EXCEPT ![c] = FreshToken]
    /\ UNCHANGED <<poolLock, leased, waiters, cancelling, posted, returning, closer, Counters>>

Enter(c) ==
    /\ poolLock = Nobody
    /\ poolLock' = c
    /\ \/ caller[c].at = "locking" /\ Move(c, "inside")
       \/ caller[c].at = "relocking" /\ Move(c, "resumed")
    /\ UNCHANGED <<leased, waiters, token, cancelling, posted, returning, closer, Counters>>

Refuse(c) ==
    /\ caller[c].at = "inside" /\ (Closing \/ token[c].cancelled)
    /\ caller' = [caller EXCEPT ![c] = NotCalling] /\ Leave
    /\ UNCHANGED <<leased, waiters, token, cancelling, posted, returning, closer, Counters>>

IdleSlots == {k \in DOMAIN leased : ~leased[k]}

(* An idle client, a new one (or none, when allocation fails), no room to   *)
(* wait, or on to the queue.                                                *)
Choose(c) ==
    /\ caller[c].at = "inside" /\ ~Closing /\ ~token[c].cancelled
    /\ \/ /\ IdleSlots # {}
          /\ leased' = [leased EXCEPT ![Min(IdleSlots)] = TRUE]
          /\ caller' = [caller EXCEPT ![c] = [@ EXCEPT !.at = "holding", !.slot = Min(IdleSlots)]]
          /\ idle' = idle - 1 /\ checkedOut' = checkedOut + 1
          /\ Leave
       \/ /\ IdleSlots = {} /\ Len(leased) < MaximumClients
          /\ leased' = Append(leased, TRUE)
          /\ caller' = [caller EXCEPT ![c] = [@ EXCEPT !.at = "holding", !.slot = Len(leased) + 1]]
          /\ checkedOut' = checkedOut + 1
          /\ Leave /\ UNCHANGED idle
       \/ /\ IdleSlots = {}
          /\ Len(leased) < MaximumClients \/ Len(waiters) >= MaximumWaiters
          /\ caller' = [caller EXCEPT ![c] = NotCalling]
          /\ Leave /\ UNCHANGED <<leased, idle, checkedOut>>
       \/ /\ IdleSlots = {} /\ Len(leased) >= MaximumClients /\ Len(waiters) < MaximumWaiters
          /\ Move(c, "suspending")
          /\ UNCHANGED <<poolLock, leased, idle, checkedOut>>
    /\ UNCHANGED <<waiters, token, cancelling, posted, returning, closer, activeWaiters>>

Post(c, as) == posted' = [posted EXCEPT ![c] = Append(@, as)]

(* queue_awaitable::await_suspend(), up to and with register_callback().    *)
Suspend(c) ==
    /\ caller[c].at = "suspending"
    /\ \/ /\ Closing \/ token[c].cancelled
          /\ Move(c, "waiting") /\ Post(c, "resume") /\ Leave
          /\ UNCHANGED <<waiters, activeWaiters>>
       \/ /\ ~Closing /\ ~token[c].cancelled
          /\ waiters' = Append(waiters, c)
          /\ caller' = [caller EXCEPT ![c] = [@ EXCEPT !.at = "registering", !.queued = TRUE, !.registered = TRUE]]
          /\ activeWaiters' = activeWaiters + 1
          /\ UNCHANGED <<posted, poolLock>>
    /\ UNCHANGED <<leased, token, cancelling, returning, closer, idle, checkedOut>>

RegisterWaiter(c) ==
    /\ caller[c].at = "registering"
    /\ token' = [token EXCEPT ![c] = Registered(@, c)]
    /\ IF token[c].cancelled THEN Post(c, "cancel") ELSE UNCHANGED posted
    /\ Move(c, "waiting") /\ Leave
    /\ UNCHANGED <<leased, waiters, cancelling, returning, closer, Counters>>

(* remove_waiter()                                                          *)
Unqueued(c) == [caller[c] EXCEPT !.queued = FALSE]
WithoutWaiter(c) ==
    LET found == {i \in DOMAIN waiters : waiters[i] = c}
    IN IF caller[c].queued /\ found # {} THEN RemoveAt(waiters, Min(found)) ELSE waiters

(* The posted handle is resumed; await_resume() retires the registration.   *)
ResumeWaiter(c) ==
    /\ posted[c] # << >> /\ Head(posted[c]) = "resume"
    /\ posted' = [posted EXCEPT ![c] = Tail(@)]
    /\ token' = [token EXCEPT ![c] = Retired(@, c)]
    /\ Move(c, "relocking")
    /\ UNCHANGED <<poolLock, leased, waiters, cancelling, returning, closer, Counters>>

(* dispatch_cancellation(): posted again as long as the lock is taken.      *)
DispatchCancellation(c) ==
    /\ posted[c] # << >> /\ Head(posted[c]) = "cancel"
    /\ poolLock = Nobody
    /\ posted' = [posted EXCEPT ![c] = Tail(@)]
    /\ token' = [token EXCEPT ![c] = Retired(@, c)]
    /\ waiters' = WithoutWaiter(c)
    /\ caller' = [caller EXCEPT ![c] = [Unqueued(c) EXCEPT !.at = "relocking"]]
    /\ UNCHANGED <<poolLock, leased, cancelling, returning, closer, Counters>>

(* Fault: a caller cancelled by now leaves without looking at what it got.  *)
AfterWaitForgets(c) ==
    /\ caller[c].at = "resumed"
    /\ waiters' = WithoutWaiter(c)
    /\ activeWaiters' = IF caller[c].registered THEN activeWaiters - 1 ELSE activeWaiters
    /\ caller' = [caller EXCEPT ![c] =
           IF @.slot # 0 /\ ~token[c].cancelled
           THEN [NotCalling EXCEPT !.at = "holding", !.slot = caller[c].slot] ELSE NotCalling]
    /\ Leave
    /\ UNCHANGED <<leased, token, cancelling, posted, returning, closer, idle, checkedOut>>

(* The rest of acquire(): with the client that was assigned, or without.    *)
AfterWait(c) ==
    /\ caller[c].at = "resumed"
    /\ waiters' = WithoutWaiter(c)
    /\ activeWaiters' = IF caller[c].registered THEN activeWaiters - 1 ELSE activeWaiters
    /\ caller' = [caller EXCEPT ![c] =
           IF @.slot # 0 THEN [NotCalling EXCEPT !.at = "holding", !.slot = caller[c].slot] ELSE NotCalling]
    /\ Leave
    /\ UNCHANGED <<leased, token, cancelling, posted, returning, closer, idle, checkedOut>>

-----------------------------------------------------------------------------
(* Fault: the first in the queue gets the client, cancelled or not.         *)
CompletableAnyway(c) == caller[c].queued

(* Waiters that release_locked() and close() may still complete.            *)
Completable(c) == caller[c].queued /\ Completes(token[c], c)

(* release_locked(k), given what callers are after the step that led to it: *)
(* the first live waiter gets the client, those before it are dropped.      *)
ReleaseLocked(k, callers) ==
    LET at == {i \in DOMAIN waiters : Completable(waiters[i])}
        first == IF Closing \/ at = {} THEN 0 ELSE Min(at)
        w == waiters[first]
        dropped == IF Closing THEN {} ELSE
                   {waiters[i] : i \in {j \in DOMAIN waiters : first = 0 \/ j <= first}}
        unqueued == [c \in Callers |-> IF c \in dropped THEN [callers[c] EXCEPT !.queued = FALSE] ELSE callers[c]]
    IN \/ /\ first # 0
          /\ waiters' = SubSeq(waiters, first + 1, Len(waiters))
          /\ caller' = [unqueued EXCEPT ![w].slot = k]
          /\ token' = [token EXCEPT ![w] = Retired(@, w)]
          /\ Post(w, "resume")
          /\ UNCHANGED <<leased, idle, checkedOut>>
       \/ /\ first = 0
          /\ waiters' = IF Closing THEN waiters ELSE << >>
          /\ caller' = unqueued
          /\ leased' = [leased EXCEPT ![k] = FALSE]
          /\ idle' = idle + 1 /\ checkedOut' = checkedOut - 1
          /\ UNCHANGED <<token, posted>>

(* ~pooled_client() and discard(): release() at once, or posted.            *)
ReturnLease(c) ==
    LET k == caller[c].slot
        callers == [caller EXCEPT ![c] = NotCalling]
    IN /\ caller[c].at = "holding"
       /\ \/ /\ poolLock = Nobody
             /\ ReleaseLocked(k, callers)
             /\ UNCHANGED returning
          \/ /\ poolLock # Nobody
             /\ returning' = returning \cup {k}
             /\ caller' = callers
             /\ UNCHANGED <<leased, waiters, token, posted, idle, checkedOut>>
       /\ UNCHANGED <<poolLock, cancelling, closer, activeWaiters>>

(* dispatch_return(): posted again as long as the lock is taken.            *)
DispatchReturn(k) ==
    /\ k \in returning /\ poolLock = Nobody
    /\ returning' = returning \ {k}
    /\ ReleaseLocked(k, caller)
    /\ UNCHANGED <<poolLock, cancelling, closer, activeWaiters>>

-----------------------------------------------------------------------------
(* Fault: close() leaves those who wait to the returning leases.            *)
CloseForgets ==
    /\ closer = "no" /\ poolLock = Nobody
    /\ closer' = "draining"
    /\ UNCHANGED <<poolLock, leased, waiters, caller, token, cancelling, posted, returning, Counters>>

(* close(): everybody queued is woken, by close() or by the cancellation    *)
(* that has claimed it; then wait for leases and waiters.                   *)
PoolClose ==
    /\ closer = "no" /\ poolLock = Nobody
    /\ closer' = "draining"
    /\ LET woken == {c \in Callers : c \in Range(waiters) /\ Completable(c)}
       IN /\ posted' = [c \in Callers |-> IF c \in woken THEN Append(posted[c], "resume") ELSE posted[c]]
          /\ token' = [c \in Callers |-> IF c \in woken THEN Retired(token[c], c) ELSE token[c]]
    /\ caller' = [c \in Callers |-> IF c \in Range(waiters) THEN Unqueued(c) ELSE caller[c]]
    /\ waiters' = << >>
    /\ UNCHANGED <<poolLock, leased, cancelling, returning, Counters>>

Settled == checkedOut = 0 /\ activeWaiters = 0

CloseSettles ==
    /\ closer = "draining" /\ poolLock = Nobody /\ Settled
    /\ closer' = "closed"
    /\ leased' = << >> /\ idle' = 0
    /\ UNCHANGED <<poolLock, waiters, caller, token, cancelling, posted, returning, activeWaiters, checkedOut>>

(* cancel() of somebody's token while its acquire() is under way.           *)
CancelPublish(c) ==
    /\ caller[c].at \notin {"idle", "holding"} /\ ~token[c].cancelled
    /\ token' = [token EXCEPT ![c] = Published(Reasoned(@, "caller"))]
    /\ cancelling' = [cancelling EXCEPT ![c] = TRUE]
    /\ UNCHANGED <<poolLock, leased, waiters, caller, posted, returning, closer, Counters>>

CancelDispatch(c) ==
    /\ cancelling[c]
    /\ cancelling' = [cancelling EXCEPT ![c] = FALSE]
    /\ token' = [token EXCEPT ![c] = Dispatched(IF Tells(@) THEN Told(@) ELSE @)]
    /\ IF Tells(token[c]) THEN Post(c, "cancel") ELSE UNCHANGED posted
    /\ UNCHANGED <<poolLock, leased, waiters, caller, returning, closer, Counters>>

-----------------------------------------------------------------------------
CpStep(c) ==
    \/ Enter(c) \/ Refuse(c) \/ Choose(c) \/ Suspend(c) \/ RegisterWaiter(c) \/ ResumeWaiter(c)
    \/ DispatchCancellation(c) \/ AfterWait(c) \/ ReturnLease(c) \/ CancelPublish(c) \/ CancelDispatch(c)

CpNext ==
    \/ \E c \in Callers : Call(c)
    \/ /\ \/ \E c \in Callers : CpStep(c)
          \/ \E k \in DOMAIN leased : DispatchReturn(k)
          \/ PoolClose \/ CloseSettles
       /\ UNCHANGED acquires

(* Coroutines and posted nodes that can run do, and leases are returned, as *)
(* the pool asks its users.  Nobody need cancel or close.                   *)
CpProgress ==
    /\ \/ \E c \in Callers :
             \/ Enter(c) \/ Refuse(c) \/ Choose(c) \/ Suspend(c) \/ RegisterWaiter(c) \/ ResumeWaiter(c)
             \/ DispatchCancellation(c) \/ AfterWait(c) \/ ReturnLease(c) \/ CancelDispatch(c)
       \/ \E k \in DOMAIN leased : DispatchReturn(k)
       \/ CloseSettles
    /\ UNCHANGED acquires

CpSpec == CpInit /\ [][CpNext]_cpVars /\ WF_cpVars(CpProgress)

-----------------------------------------------------------------------------
(* A lease has one owner: a caller, an assignment on its way to a waiter,   *)
(* or a posted return; and the counters that close() and acquire() trust    *)
(* count them, whichever of release, cancellation and close came first.     *)
LeasesAreExclusive ==
    /\ \A k \in DOMAIN leased :
          Cardinality({c \in Callers : caller[c].slot = k}) + (IF k \in returning THEN 1 ELSE 0)
              = IF leased[k] THEN 1 ELSE 0
    /\ checkedOut = Cardinality(DOMAIN leased \ IdleSlots)
    /\ idle = Cardinality(IdleSlots)

(* The node of a waiter lives in the frame of its acquire() and in one      *)
(* queue at most: it is never posted twice, never outlives the wait, and    *)
(* close() does not return before it has run (client_pool.cppm:97 "close    *)
(* waits for outstanding leases and cancellation callbacks").               *)
NotificationsAreOwned ==
    \A c \in Callers :
        /\ Len(posted[c]) <= 1
        /\ posted[c] # << >> =>
              caller[c].at = "waiting" /\ (caller[c].registered => closer # "closed")

(* Every acquire() that had to wait returns, served, cancelled or closed    *)
(* out, and close() returns, as long as leases are returned: of a bounded   *)
(* number of calls none is left inside for ever.                            *)
NobodyIsStranded ==
    <>[](closer # "draining" /\ \A c \in Callers : caller[c].at \in {"idle", "holding"})
=============================================================================
