--------------------------- MODULE AsyncSemaphore ---------------------------
(***************************************************************************)
(* async_semaphore (src/coro/semaphore_impl.cpp): a counting semaphore with *)
(* a FIFO waiter queue.  The count is decremented by compare-exchange with  *)
(* or without the queue lock, and incremented under it only, so one guarded *)
(* region is one action.  release() first takes a waiter or adds a permit,  *)
(* then, outside the lock, resumes the waiter it took; release(n) repeats   *)
(* that n times.                                                            *)
(***************************************************************************)
EXTENDS Coroutines, Naturals, Sequences, SequencesExt, FiniteSets

CONSTANTS
    InitialCount,  \* permits at construction
    MaxExtra       \* bound: permits released without having been acquired

ASSUME SemaphoreAssumption ==
    /\ InitialCount \in Nat
    /\ MaxExtra \in Nat

VARIABLES
    permits,   \* count_
    semQueue,   \* the waiter list head_ .. tail_
    todo,    \* todo[t]: release() calls t has started release(n) for
    semHandle,  \* handle[t]: the waiter t popped and has yet to resume
    extra,   \* permits put in by release() calls of non-holders
    semPc

semVars == <<permits, semQueue, todo, semHandle, extra, semPc>>

SemPCs == {"idle", "suspending", "queued", "granted", "posted", "owner",
        "release", "wake"}

SemGoto(t, l) == semPc' = [semPc EXCEPT ![t] = l]

(* A waiter owns its permit from the moment it is popped.                   *)
PermitHolders == {t \in Tasks : semPc[t] \in {"owner", "granted", "posted"}}

(* The i-th of the release() calls that t still has to make.                *)
PermitsReturning == UNION {{t} \X (1 .. todo[t]) : t \in Tasks}

SemInit ==
    /\ permits = InitialCount
    /\ semQueue = << >>
    /\ todo = [t \in Tasks |-> 0]
    /\ semHandle = [t \in Tasks |-> Nobody]
    /\ extra = 0
    /\ semPc = [t \in Tasks |-> "idle"]

-----------------------------------------------------------------------------
(* try_acquire(): failing leaves no trace.                                  *)
TryAcquire(t) ==
    /\ semPc[t] = "idle"
    /\ permits > 0
    /\ permits' = permits - 1
    /\ SemGoto(t, "owner")
    /\ UNCHANGED <<semQueue, todo, semHandle, extra>>

(* co_await acquire(): await_ready() takes a permit without the lock.       *)
SemReady(t) ==
    /\ semPc[t] = "idle"
    /\ IF permits > 0
       THEN permits' = permits - 1 /\ SemGoto(t, "owner")
       ELSE UNCHANGED permits /\ SemGoto(t, "suspending")
    /\ UNCHANGED <<semQueue, todo, semHandle, extra>>

(* Fault: not looking again under the lock.                                 *)
SuspendWithoutLooking(t) ==
    /\ semPc[t] = "suspending"
    /\ semQueue' = Append(semQueue, t)
    /\ SemGoto(t, "queued")
    /\ UNCHANGED <<permits, todo, semHandle, extra>>

(* await_suspend(), under the queue lock: look again, then queue.           *)
SemSuspend(t) ==
    /\ semPc[t] = "suspending"
    /\ \/ /\ permits > 0
          /\ permits' = permits - 1
          /\ SemGoto(t, "owner")
          /\ UNCHANGED semQueue
       \/ /\ permits = 0
          /\ semQueue' = Append(semQueue, t)
          /\ SemGoto(t, "queued")
          /\ UNCHANGED permits
    /\ UNCHANGED <<todo, semHandle, extra>>

(* release() by a task that holds a permit.                                 *)
CallRelease(t) ==
    /\ semPc[t] = "owner"
    /\ todo' = [todo EXCEPT ![t] = 1]
    /\ SemGoto(t, "release")
    /\ UNCHANGED <<permits, semQueue, semHandle, extra>>

(* release(n) by a task that holds none: the semaphore used as a signal.    *)
CallReleaseMany(t, n) ==
    /\ semPc[t] = "idle"
    /\ extra + n <= MaxExtra
    /\ extra' = extra + n
    /\ todo' = [todo EXCEPT ![t] = n]
    /\ SemGoto(t, "release")
    /\ UNCHANGED <<permits, semQueue, semHandle>>

(* The permit of t goes to the count, or to the first waiter.               *)
AddPermit(t) ==
    /\ permits' = permits + 1
    /\ SemGoto(t, IF todo[t] = 1 THEN "idle" ELSE "release")
    /\ UNCHANGED <<semQueue, semHandle>>

GivePermit(t) ==
    /\ semHandle' = [semHandle EXCEPT ![t] = Head(semQueue)]
    /\ semPc' = [semPc EXCEPT ![t] = "wake", ![Head(semQueue)] = "granted"]

(* Faults: counting a permit that was also given away; never looking at the *)
(* list.                                                                    *)
ReleaseTwice(t) ==
    /\ semPc[t] = "release"
    /\ todo' = [todo EXCEPT ![t] = @ - 1]
    /\ IF semQueue = << >>
       THEN AddPermit(t)
       ELSE semQueue' = Tail(semQueue) /\ GivePermit(t) /\ permits' = permits + 1
    /\ UNCHANGED extra

ReleaseIgnoresQueue(t) ==
    /\ semPc[t] = "release"
    /\ todo' = [todo EXCEPT ![t] = @ - 1]
    /\ AddPermit(t)
    /\ UNCHANGED extra

(* One release() under the queue lock: the permit goes to the head of the   *)
(* queue, or to the count.                                                  *)
Release(t) ==
    /\ semPc[t] = "release"
    /\ todo' = [todo EXCEPT ![t] = @ - 1]
    /\ IF semQueue = << >>
       THEN AddPermit(t)
       ELSE semQueue' = Tail(semQueue) /\ GivePermit(t) /\ UNCHANGED permits
    /\ UNCHANGED extra

(* Resume the popped waiter here or post it to its loop, then go on with    *)
(* the rest of release(n).                                                  *)
ReleaseWake(t) ==
    /\ semPc[t] = "wake"
    /\ \E l \in {"owner", "posted"} :
          semPc' = [semPc EXCEPT ![t] = IF todo[t] = 0 THEN "idle" ELSE "release",
                           ![semHandle[t]] = l]
    /\ semHandle' = [semHandle EXCEPT ![t] = Nobody]
    /\ UNCHANGED <<permits, semQueue, todo, extra>>

SemRunPosted(t) ==
    /\ semPc[t] = "posted"
    /\ SemGoto(t, "owner")
    /\ UNCHANGED <<permits, semQueue, todo, semHandle, extra>>

-----------------------------------------------------------------------------
SemProgress(t) ==
    \/ SemSuspend(t) \/ CallRelease(t) \/ Release(t)
    \/ ReleaseWake(t) \/ SemRunPosted(t)

SemNext ==
    \E t \in Tasks :
       \/ TryAcquire(t) \/ SemReady(t) \/ SemProgress(t)
       \/ \E n \in 1 .. MaxExtra : CallReleaseMany(t, n)

(* A task that has called acquire() or release() runs on, and a holder      *)
(* releases; nobody has to call acquire() or release(n).                    *)
SemSpec == SemInit /\ [][SemNext]_semVars /\ \A t \in Tasks : WF_semVars(SemProgress(t))

-----------------------------------------------------------------------------
(* The unsigned count never goes below zero and only coroutines are queued  *)
(* (semaphore_impl.cpp:40-94).                                              *)
SemTypeOK ==
    /\ permits \in Nat
    /\ semQueue \in Seq(Tasks)
    /\ todo \in [Tasks -> Nat]
    /\ semHandle \in [Tasks -> Tasks \cup {Nobody}]
    /\ extra \in Nat
    /\ semPc \in [Tasks -> SemPCs]

(* Permits are neither lost nor invented: free ones, held ones and those on *)
(* their way back add up to what was put in.                                *)
PermitsConserved ==
    permits + Cardinality(PermitHolders) + Cardinality(PermitsReturning)
        = InitialCount + extra

(* Nobody sleeps on a free permit: while a coroutine is queued the count is *)
(* 0, although try_acquire and await_ready change it without the lock.      *)
NoIdlePermit == semQueue # << >> => permits = 0

(* The list holds every suspended coroutine exactly once.                   *)
SemQueueIsExact ==
    /\ \A t \in Tasks : semPc[t] = "queued" <=> Contains(semQueue, t)
    /\ IsInjective(semQueue)

(* Who has been given a permit is resumed, and by one release() only: while *)
(* it is asleep, exactly one task on its way holds its handle.              *)
GrantHasOneWaker ==
    /\ \A w \in Tasks : semPc[w] = "granted" <=> \E t \in Tasks : semHandle[t] = w
    /\ \A s, t \in Tasks : semHandle[s] = semHandle[t] /\ semHandle[t] # Nobody => s = t
    /\ \A t \in Tasks : semPc[t] = "wake" <=> semHandle[t] # Nobody

(* A queued coroutine gets a permit once there is one in the system.        *)
AcquirerIsServed ==
    \A t \in Tasks :
        (semPc[t] = "queued" /\ InitialCount + extra > 0) ~> (semPc[t] = "owner")
=============================================================================
