----------------------------- MODULE AsyncMutex -----------------------------
(***************************************************************************)
(* async_mutex (src/coro/mutex.cppm, mutex_impl.cpp): a coroutine mutex     *)
(* whose state word is taken by one compare-exchange when uncontended and   *)
(* whose FIFO waiter queue is guarded by a spinlock.  lock() is two steps   *)
(* of the awaiting coroutine, await_ready and await_suspend, and the word   *)
(* is also read and written by tasks that do not hold the queue lock, so    *)
(* every access to the word is an action of its own.                        *)
(***************************************************************************)
EXTENDS Coroutines, Naturals, Sequences, SequencesExt

VARIABLES
    state,      \* state_: "unlocked", "locked" or "contended"
    queue,      \* the waiter list head_ .. tail_
    queueLock,  \* the task inside auto_lock guard(lock_), or Nobody
    handle,     \* handle[t]: the waiter t popped and has yet to resume
    pc          \* where each coroutine is

vars == <<state, queue, queueLock, handle, pc>>

(* lock():   "idle" -> "suspending" -> "exchange" -> "enqueue" -> "queued"  *)
(* unlock(): "owner" -> "slow" -> "pop" -> "wake"                           *)
(* a popped waiter is "granted" until its handle is resumed or "posted".    *)
PCs == {"idle", "suspending", "exchange", "enqueue", "queued", "granted",
        "posted", "owner", "slow", "pop", "wake"}

Goto(t, l) == pc' = [pc EXCEPT ![t] = l]

(* Ownership passes to a waiter when it is popped, before it runs.          *)
Owns(t) == pc[t] \in {"owner", "slow", "pop", "granted", "posted"}
Owners == {t \in Tasks : Owns(t)}

Init ==
    /\ state = "unlocked"
    /\ queue = << >>
    /\ queueLock = Nobody
    /\ handle = [t \in Tasks |-> Nobody]
    /\ pc = [t \in Tasks |-> "idle"]

-----------------------------------------------------------------------------
(* try_lock() on its own: failing leaves no trace.                          *)
TryLock(t) ==
    /\ pc[t] = "idle"
    /\ state = "unlocked"
    /\ state' = "locked"
    /\ Goto(t, "owner")
    /\ UNCHANGED <<queue, queueLock, handle>>

(* co_await lock(): await_ready() is try_lock(); failing, the coroutine goes *)
(* on to await_suspend().                                                   *)
AwaitReady(t) ==
    /\ pc[t] = "idle"
    /\ IF state = "unlocked"
       THEN state' = "locked" /\ Goto(t, "owner")
       ELSE UNCHANGED state /\ Goto(t, "suspending")
    /\ UNCHANGED <<queue, queueLock, handle>>

(* await_suspend(): auto_lock guard(mtx_.lock_).                            *)
SuspendLock(t) ==
    /\ pc[t] = "suspending"
    /\ queueLock = Nobody
    /\ queueLock' = t
    /\ Goto(t, "exchange")
    /\ UNCHANGED <<state, queue, handle>>

(* state_.exchange(contended): the lock was free after all, or the caller   *)
(* has to queue.                                                            *)
SuspendExchange(t) ==
    /\ pc[t] = "exchange"
    /\ state' = "contended"
    /\ IF state = "unlocked"
       THEN queueLock' = Nobody /\ Goto(t, "owner")
       ELSE UNCHANGED queueLock /\ Goto(t, "enqueue")
    /\ UNCHANGED <<queue, handle>>

SuspendEnqueue(t) ==
    /\ pc[t] = "enqueue"
    /\ queue' = Append(queue, t)
    /\ queueLock' = Nobody
    /\ Goto(t, "queued")
    /\ UNCHANGED <<state, handle>>

(* Fault: a plain store that does not look for waiters.                     *)
UnlockBlindly(t) ==
    /\ pc[t] = "owner"
    /\ state' = "unlocked"
    /\ Goto(t, "idle")
    /\ UNCHANGED <<queue, queueLock, handle>>

(* unlock(), also run by ~async_lock_guard(): one compare-exchange, and the *)
(* queue path when the word is not "locked".                                *)
Unlock(t) ==
    /\ pc[t] = "owner"
    /\ IF state = "locked"
       THEN state' = "unlocked" /\ Goto(t, "idle")
       ELSE UNCHANGED state /\ Goto(t, "slow")
    /\ UNCHANGED <<queue, queueLock, handle>>

UnlockContendedLock(t) ==
    /\ pc[t] = "slow"
    /\ queueLock = Nobody
    /\ queueLock' = t
    /\ Goto(t, "pop")
    /\ UNCHANGED <<state, queue, handle>>

(* The waiter w is taken off the list, which becomes q, and given the mutex *)
(* with the word set to s.                                                  *)
HandTo(t, w, q, s) ==
    /\ queue' = q
    /\ state' = s
    /\ handle' = [handle EXCEPT ![t] = w]
    /\ pc' = [pc EXCEPT ![t] = "wake", ![w] = "granted"]

SetFree(t) == state' = "unlocked" /\ Goto(t, "idle") /\ UNCHANGED <<queue, handle>>

(* Faults: freeing the word while handing over; forgetting that others      *)
(* queue; serving the newest waiter.                                        *)
PopAndFree(t) ==
    /\ pc[t] = "pop"
    /\ queueLock' = Nobody
    /\ IF queue = << >> THEN SetFree(t) ELSE HandTo(t, Head(queue), Tail(queue), "unlocked")

PopForgetsOthers(t) ==
    /\ pc[t] = "pop"
    /\ queueLock' = Nobody
    /\ IF queue = << >> THEN SetFree(t) ELSE HandTo(t, Head(queue), Tail(queue), "locked")

PopNewest(t) ==
    /\ pc[t] = "pop"
    /\ queueLock' = Nobody
    /\ IF queue = << >> THEN SetFree(t) ELSE HandTo(t, Last(queue), Front(queue), state)

(* unlock_contended() under the queue lock: hand the mutex to the head, or  *)
(* free it.  The word stays "contended" while others queue.                 *)
UnlockContendedPop(t) ==
    /\ pc[t] = "pop"
    /\ queueLock' = Nobody
    /\ IF queue = << >>
       THEN SetFree(t)
       ELSE HandTo(t, Head(queue), Tail(queue),
                   IF Tail(queue) = << >> THEN "locked" ELSE state)

(* After the guard's scope: resume the popped handle here, or post it to    *)
(* the loop it was suspended on.                                            *)
UnlockContendedWake(t) ==
    /\ pc[t] = "wake"
    /\ \E l \in {"owner", "posted"} :
           pc' = [pc EXCEPT ![t] = "idle", ![handle[t]] = l]
    /\ handle' = [handle EXCEPT ![t] = Nobody]
    /\ UNCHANGED <<state, queue, queueLock>>

(* The io_context runs a posted handle.                                     *)
RunPosted(t) ==
    /\ pc[t] = "posted"
    /\ Goto(t, "owner")
    /\ UNCHANGED <<state, queue, queueLock, handle>>

-----------------------------------------------------------------------------
(* What a task does once it has called lock() or owns the mutex; it need    *)
(* not call lock(), but it must leave its critical section.                 *)
Progress(t) ==
    \/ SuspendLock(t) \/ SuspendExchange(t) \/ SuspendEnqueue(t)
    \/ Unlock(t) \/ UnlockContendedLock(t)
    \/ UnlockContendedPop(t) \/ UnlockContendedWake(t) \/ RunPosted(t)

Next == \E t \in Tasks : TryLock(t) \/ AwaitReady(t) \/ Progress(t)

Spec == Init /\ [][Next]_vars /\ \A t \in Tasks : WF_vars(Progress(t))

-----------------------------------------------------------------------------
(* The word has one of its three values, and lists and handles name         *)
(* coroutines (mutex.cppm:91-104).                                          *)
TypeOK ==
    /\ state \in {"unlocked", "locked", "contended"}
    /\ queue \in Seq(Tasks)
    /\ queueLock \in Tasks \cup {Nobody}
    /\ handle \in [Tasks -> Tasks \cup {Nobody}]
    /\ pc \in [Tasks -> PCs]

(* At most one coroutine owns the mutex, counting a waiter that has been    *)
(* given it and not yet been resumed.                                       *)
MutualExclusion == \A s, t \in Owners : s = t

(* No waiter is stranded: while a coroutine is queued, or is about to be,   *)
(* the word is "contended", so that the owner's unlock takes the queue path *)
(* (mutex.cppm:92-94), and there is such an owner.                          *)
WaiterIsCovered ==
    (queue # << >> \/ \E t \in Tasks : pc[t] = "enqueue")
        => state = "contended" /\ Owners # {}

(* The queue lock serialises the queue: the list holds every suspended      *)
(* coroutine exactly once.                                                  *)
QueueIsExact ==
    /\ \A t \in Tasks : pc[t] = "queued" <=> Contains(queue, t)
    /\ IsInjective(queue)

(* No barging: while coroutines queue, only the head can become the owner.  *)
NoBarging ==
    [][\A t \in Tasks :
          queue # << >> /\ ~Owns(t) /\ Owns(t)' => t = Head(queue)]_vars

(* A suspended coroutine is eventually given the mutex (FIFO hand-over).    *)
QueuedIsServed == \A t \in Tasks : (pc[t] = "queued") ~> (pc[t] = "owner")
=============================================================================
