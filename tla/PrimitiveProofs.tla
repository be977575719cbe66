-------------------------- MODULE PrimitiveProofs ---------------------------
(***************************************************************************)
(* Proofs about the primitives of src/coro for any number of threads and    *)
(* coroutines: the spinlock, async_mutex, async_semaphore,                  *)
(* async_shared_mutex, async_wait_group and the circuit breaker.            *)
(***************************************************************************)
EXTENDS Spinlock, AsyncMutex, AsyncSemaphore, AsyncSharedMutex, AsyncWaitGroup,
        CircuitBreaker, WaiterQueueProofs, FiniteSetTheorems

-----------------------------------------------------------------------------
(* The three-state spinlock.                                                *)

(* The word, its holder and the sleepers agree; each part needs the others: *)
(* without WordMatchesHolder an exchange that reads 0 could add a second    *)
(* holder.                                                                  *)
SpinIInv == SpinTypeOK /\ SpinExclusion /\ WordMatchesHolder /\ NoLostWakeup

(* A new spinlock satisfies the inductive invariant.                        *)
LEMMA InitSpinIInv == SpinInit => SpinIInv
  BY DEF SpinInit, SpinIInv, SpinTypeOK, SpinPCs, SpinExclusion, WordMatchesHolder,
         NoLostWakeup, SpinAt

(* Every atomic operation on the word preserves the inductive invariant.    *)
LEMMA NextSpinIInv == SpinIInv /\ [SpinNext]_spinVars => SpinIInv'
  <1> SUFFICES ASSUME SpinIInv, [SpinNext]_spinVars PROVE SpinIInv'
    OBVIOUS
  <1> USE DEF SpinIInv, SpinTypeOK, SpinPCs, SpinExclusion, WordMatchesHolder,
              NoLostWakeup, SpinAt, SpinGoto
  <1>1. ASSUME NEW t \in Threads, SpinTryLock(t) PROVE SpinIInv'
    BY <1>1 DEF SpinTryLock
  <1>2. ASSUME NEW t \in Threads, Exchange(t) PROVE SpinIInv'
    BY <1>2 DEF Exchange
  <1>3. ASSUME NEW t \in Threads, Wait(t) PROVE SpinIInv'
    BY <1>3 DEF Wait
  <1>4. ASSUME NEW t \in Threads, SpinUnlock(t) PROVE SpinIInv'
    BY <1>4 DEF SpinUnlock
  <1>5. ASSUME NEW t \in Threads, Notify(t) PROVE SpinIInv'
    BY <1>5 DEF Notify
  <1>6. CASE UNCHANGED spinVars
    BY <1>6 DEF spinVars
  <1>7. QED BY <1>1, <1>2, <1>3, <1>4, <1>5, <1>6 DEF SpinNext, SpinStep

(* The inductive invariant always holds.                                    *)
LEMMA SpinInductive == SpinSpec => []SpinIInv
  BY InitSpinIInv, NextSpinIInv, PTL DEF SpinSpec

-----------------------------------------------------------------------------
(* At most one thread holds the spinlock (mutex_impl.cpp:6-27).             *)
THEOREM SpinlockExcludes == SpinSpec => []SpinExclusion
  BY SpinInductive, PTL DEF SpinIInv

(* A parked thread is always covered by a word of 2 or by a thread that is  *)
(* about to notify or to put the word back to 2 (mutex_impl.cpp:10-20).     *)
THEOREM SpinlockLosesNoWakeup == SpinSpec => []NoLostWakeup
  BY SpinInductive, PTL DEF SpinIInv

(* The spinlock implements the abstract lock.                               *)
THEOREM SpinlockRefinesLock == SpinSpec => SpinImplementsLock
  <1>1. SpinInit => SpinAbstract!Init
    BY DEF SpinInit, SpinAbstract!Init, SpinAt
  <1>2. SpinIInv /\ [SpinNext]_spinVars => [SpinAbstract!Next]_(SpinAt("held"))
    <2> SUFFICES ASSUME SpinIInv, [SpinNext]_spinVars PROVE [SpinAbstract!Next]_(SpinAt("held"))
      OBVIOUS
    <2> USE DEF SpinIInv, SpinTypeOK, SpinPCs, SpinExclusion, WordMatchesHolder, SpinAt, SpinGoto,
                SpinAbstract!Next, SpinAbstract!Acquire, SpinAbstract!Release
    <2>1. ASSUME NEW t \in Threads, SpinTryLock(t) \/ Exchange(t)
          PROVE  SpinAt("held")' = SpinAt("held") \/ (SpinAt("held") = {} /\ SpinAt("held")' = {t})
      BY <2>1 DEF SpinTryLock, Exchange
    <2>2. ASSUME NEW t \in Threads, Wait(t) \/ Notify(t)
          PROVE  SpinAt("held")' = SpinAt("held")
      BY <2>2 DEF Wait, Notify
    <2>3. ASSUME NEW t \in Threads, SpinUnlock(t)
          PROVE  SpinAt("held") = {t} /\ SpinAt("held")' = {}
      BY <2>3 DEF SpinUnlock
    <2>4. CASE UNCHANGED spinVars
      BY <2>4 DEF spinVars
    <2>5. CASE SpinNext
      BY <2>1, <2>2, <2>3, <2>5 DEF SpinNext, SpinStep
    <2>6. QED BY <2>4, <2>5
  <1>3. QED
    BY <1>1, <1>2, SpinInductive, PTL DEF SpinSpec, SpinImplementsLock, SpinAbstract!Spec

-----------------------------------------------------------------------------
(* async_mutex                                                              *)

(* The queue lock is held exactly by the task inside a guarded region.      *)
LockInv ==
    \A t \in Tasks : queueLock = t <=> pc[t] \in {"exchange", "enqueue", "pop"}

(* The word is "unlocked" exactly when nobody owns the mutex, and a task on *)
(* the queue path of unlock() sees "contended" until it changes it itself.  *)
WordInv ==
    /\ state = "unlocked" <=> \A t \in Tasks : ~Owns(t)
    /\ \A t \in Tasks : pc[t] \in {"slow", "pop", "enqueue"} => state = "contended"
    /\ queue # << >> => state = "contended"

(* A popped handle is resumed by exactly one task.                          *)
HandleInv ==
    /\ \A t \in Tasks : pc[t] = "wake" <=> handle[t] # Nobody
    /\ \A t \in Tasks : pc[t] = "wake" => pc[handle[t]] = "granted"
    /\ \A s, t \in Tasks :
          pc[s] = "wake" /\ pc[t] = "wake" /\ handle[s] = handle[t] => s = t

MutexIInv == /\ TypeOK /\ LockInv /\ MutualExclusion
        /\ WordInv /\ QueueIsExact /\ HandleInv

-----------------------------------------------------------------------------
(* A new mutex satisfies the inductive invariant.                           *)
LEMMA InitMutexIInv == Init => MutexIInv
  BY NobodyAssumption, EmptyQueue DEF Init, MutexIInv, TypeOK, LockInv, MutualExclusion, Owners,
     Owns, WordInv, QueueIsExact, HandleInv, PCs

(* Every step of every coroutine preserves the inductive invariant.         *)
LEMMA NextMutexIInv == MutexIInv /\ [Next]_vars => MutexIInv'
  <1> SUFFICES ASSUME MutexIInv, [Next]_vars PROVE MutexIInv'
    OBVIOUS
  <1> USE NobodyAssumption DEF MutexIInv, TypeOK, LockInv, MutualExclusion, Owners,
          Owns, WordInv, HandleInv, PCs, Goto
  <1>1. ASSUME NEW t \in Tasks, TryLock(t) PROVE MutexIInv'
    BY <1>1 DEF TryLock, QueueIsExact
  <1>2. ASSUME NEW t \in Tasks, AwaitReady(t) PROVE MutexIInv'
    BY <1>2 DEF AwaitReady, QueueIsExact
  <1>3. ASSUME NEW t \in Tasks, SuspendLock(t) PROVE MutexIInv'
    BY <1>3 DEF SuspendLock, QueueIsExact
  <1>4. ASSUME NEW t \in Tasks, SuspendExchange(t) PROVE MutexIInv'
    BY <1>4 DEF SuspendExchange, QueueIsExact
  <1>5. ASSUME NEW t \in Tasks, SuspendEnqueue(t) PROVE MutexIInv'
    <2>1. ~Contains(queue, t) /\ IsInjective(queue)
      BY <1>5 DEF SuspendEnqueue, QueueIsExact
    <2>2. /\ queue' \in Seq(Tasks)
          /\ IsInjective(queue')
          /\ \A x : Contains(queue', x) <=> (x = t \/ Contains(queue, x))
      BY <1>5, <2>1, AppendQueue DEF SuspendEnqueue
    <2>3. QueueIsExact'
      BY <1>5, <2>2 DEF SuspendEnqueue, QueueIsExact
    <2>4. QED
      BY <1>5, <2>2, <2>3 DEF SuspendEnqueue
  <1>6. ASSUME NEW t \in Tasks, Unlock(t) PROVE MutexIInv'
    BY <1>6 DEF Unlock, QueueIsExact
  <1>7. ASSUME NEW t \in Tasks, UnlockContendedLock(t) PROVE MutexIInv'
    BY <1>7 DEF UnlockContendedLock, QueueIsExact
  <1>8. ASSUME NEW t \in Tasks, UnlockContendedPop(t) PROVE MutexIInv'
    <2>1. CASE queue = << >>
      BY <1>8, <2>1 DEF UnlockContendedPop, HandTo, SetFree, QueueIsExact
    <2>2. CASE queue # << >>
      <3> DEFINE w == Head(queue)
      <3>1. /\ w \in Tasks
            /\ Contains(queue, w)
            /\ Tail(queue) \in Seq(Tasks)
            /\ IsInjective(Tail(queue))
            /\ \A x : Contains(Tail(queue), x) <=> (x # w /\ Contains(queue, x))
        BY <2>2, TailQueue DEF QueueIsExact
      <3>2. pc[w] = "queued"
        BY <3>1 DEF QueueIsExact
      <3>3. /\ pc[t] = "pop"
            /\ queue' = Tail(queue)
            /\ queueLock' = Nobody
            /\ state' = (IF Tail(queue) = << >> THEN "locked" ELSE state)
            /\ handle' = [handle EXCEPT ![t] = w]
            /\ pc' = [pc EXCEPT ![t] = "wake", ![w] = "granted"]
        BY <1>8, <2>2 DEF UnlockContendedPop, HandTo, SetFree
      <3> HIDE DEF w
      <3>4. QueueIsExact'
        BY <3>1, <3>2, <3>3 DEF QueueIsExact
      <3>5. TypeOK'
        BY <3>1, <3>2, <3>3
      <3>5a. LockInv'
        BY <3>1, <3>2, <3>3
      <3>5b. MutualExclusion'
        BY <3>1, <3>2, <3>3
      <3>6. WordInv'
        BY <3>1, <3>2, <3>3
      <3>7. HandleInv'
        BY <3>1, <3>2, <3>3
      <3>8. QED BY <3>4, <3>5, <3>5a, <3>5b, <3>6, <3>7
    <2>3. QED BY <2>1, <2>2
  <1>9. ASSUME NEW t \in Tasks, UnlockContendedWake(t) PROVE MutexIInv'
    BY <1>9 DEF UnlockContendedWake, QueueIsExact
  <1>10. ASSUME NEW t \in Tasks, RunPosted(t) PROVE MutexIInv'
    BY <1>10 DEF RunPosted, QueueIsExact
  <1>11. CASE UNCHANGED vars
    BY <1>11 DEF vars, QueueIsExact
  <1>12. QED
    BY <1>1, <1>2, <1>3, <1>4, <1>5, <1>6, <1>7, <1>8, <1>9, <1>10, <1>11
       DEF Next, Progress

(* The inductive invariant always holds.                                    *)
LEMMA MutexInductive == Spec => []MutexIInv
  BY InitMutexIInv, NextMutexIInv, PTL DEF Spec

-----------------------------------------------------------------------------
(* At most one coroutine owns the mutex (mutex.cppm:75-89,                  *)
(* mutex_impl.cpp:40-98), whatever the interleaving of lock, try_lock and   *)
(* unlock.                                                                  *)
THEOREM MutexExcludes == Spec => []MutualExclusion
  BY MutexInductive, PTL DEF MutexIInv

(* The word, the queue and the owner agree: nobody waits behind an unlock   *)
(* that would take the fast path (mutex.cppm:92-94).                        *)
THEOREM MutexCoversWaiters == Spec => []WaiterIsCovered
  <1>1. MutexIInv => WaiterIsCovered
    BY DEF MutexIInv, WaiterIsCovered, WordInv, Owners
  <1>2. QED BY <1>1, MutexInductive, PTL

(* The waiter list holds the suspended coroutines, each once.               *)
THEOREM MutexQueueIsExact == Spec => []QueueIsExact
  BY MutexInductive, PTL DEF MutexIInv

(* A coroutine that arrives while others queue cannot overtake them: neither *)
(* try_lock nor the exchange in await_suspend succeeds.                     *)
THEOREM MutexNoBarging == Spec => NoBarging
  <1> DEFINE A == \A t \in Tasks :
                    queue # << >> /\ ~Owns(t) /\ Owns(t)' => t = Head(queue)
  <1>1. MutexIInv /\ [Next]_vars => [A]_vars
    <2> SUFFICES ASSUME MutexIInv, Next, NEW t \in Tasks,
                        queue # << >>, ~Owns(t), Owns(t)'
                 PROVE  t = Head(queue)
      BY DEF vars
    <2> USE DEF MutexIInv, TypeOK, Owns, WordInv, HandleInv, Goto
    <2>1. ASSUME NEW s \in Tasks, TryLock(s) \/ AwaitReady(s) PROVE t = Head(queue)
      BY <2>1 DEF TryLock, AwaitReady
    <2>2. ASSUME NEW s \in Tasks, SuspendLock(s) \/ SuspendExchange(s) \/ SuspendEnqueue(s)
          PROVE  t = Head(queue)
      BY <2>2 DEF SuspendLock, SuspendExchange, SuspendEnqueue
    <2>3. ASSUME NEW s \in Tasks, Unlock(s) \/ UnlockContendedLock(s)
          PROVE  t = Head(queue)
      BY <2>3 DEF Unlock, UnlockContendedLock
    <2>4. ASSUME NEW s \in Tasks, UnlockContendedPop(s) PROVE t = Head(queue)
      BY <2>4 DEF UnlockContendedPop, HandTo, SetFree
    <2>5. ASSUME NEW s \in Tasks, UnlockContendedWake(s) \/ RunPosted(s)
          PROVE  t = Head(queue)
      BY <2>5 DEF UnlockContendedWake, RunPosted
    <2>6. QED BY <2>1, <2>2, <2>3, <2>4, <2>5 DEF Next, Progress
  <1>2. Spec => [][A]_vars
    BY <1>1, MutexInductive, PTL DEF Spec
  <1>3. QED BY <1>2 DEF NoBarging

-----------------------------------------------------------------------------
(* How the set of holders of something changes when x gets it, or loses it. *)
LEMMA OneMore ==
    ASSUME NEW S, IsFiniteSet(S), NEW x, x \notin S, NEW T, T = S \cup {x}
    PROVE  IsFiniteSet(T) /\ Cardinality(T) = Cardinality(S) + 1 /\ Cardinality(S) \in Nat
  BY FS_AddElement, FS_CardinalityType

LEMMA OneLess ==
    ASSUME NEW S, IsFiniteSet(S), NEW x, x \in S, NEW T, T = S \ {x}
    PROVE  IsFiniteSet(T) /\ Cardinality(T) = Cardinality(S) - 1 /\ Cardinality(S) \in Nat
  BY FS_RemoveElement, FS_CardinalityType

-----------------------------------------------------------------------------
(* async_semaphore                                                          *)

(* Who is inside release() has permits to return, and nobody else has.      *)
TodoInv ==
    /\ \A t \in Tasks : semPc[t] = "release" => todo[t] > 0
    /\ \A t \in Tasks : semPc[t] \notin {"release", "wake"} => todo[t] = 0

(* Only finitely many permits are ever out.                                 *)
PermitsAreFinite == IsFiniteSet(PermitHolders) /\ IsFiniteSet(PermitsReturning)

SemIInv ==
    /\ SemTypeOK /\ TodoInv /\ GrantHasOneWaker /\ SemQueueIsExact
    /\ NoIdlePermit /\ PermitsAreFinite /\ PermitsConserved

(* What is on its way back, one by one.                                     *)
LEMMA ReturningMember ==
    \A p : p \in PermitsReturning <=> \E t \in Tasks : \E i \in 1 .. todo[t] : p = <<t, i>>
  BY DEF PermitsReturning

(* A task starts to return n permits.                                       *)
LEMMA ReturningStarts ==
    ASSUME SemTypeOK, IsFiniteSet(PermitsReturning),
           NEW t \in Tasks, todo[t] = 0, NEW n \in Nat, todo' = [todo EXCEPT ![t] = n]
    PROVE  /\ IsFiniteSet(PermitsReturning')
           /\ Cardinality(PermitsReturning') = Cardinality(PermitsReturning) + n
           /\ Cardinality(PermitsReturning) \in Nat
  <1> DEFINE new == {t} \X (1 .. n)
  <1>1. IsFiniteSet(new) /\ Cardinality(new) = n
    <2>1. IsFiniteSet({t}) /\ Cardinality({t}) = 1
      BY FS_Singleton
    <2>2. IsFiniteSet(1 .. n) /\ Cardinality(1 .. n) = n
      BY FS_Interval
    <2>3. IsFiniteSet(new) /\ Cardinality(new) = Cardinality({t}) * Cardinality(1 .. n)
      BY <2>1, <2>2, FS_Product
    <2>4. 1 * n = n
      OBVIOUS
    <2>5. QED BY <2>1, <2>2, <2>3, <2>4
  <1>2. PermitsReturning' = PermitsReturning \cup new
    <2>1. ASSUME NEW p PROVE p \in PermitsReturning' <=> p \in PermitsReturning \/ p \in new
      <3>1. p \in new <=> \E i \in 1 .. n : p = <<t, i>>
        OBVIOUS
      <3>2. \A s \in Tasks : todo'[s] = IF s = t THEN n ELSE todo[s]
        BY DEF SemTypeOK
      <3>3. p \in PermitsReturning' <=> \E s \in Tasks : \E i \in 1 .. todo'[s] : p = <<s, i>>
        BY DEF PermitsReturning
      <3>4. QED BY <3>1, <3>2, <3>3, ReturningMember
    <2>2. QED BY <2>1
  <1>3. PermitsReturning \cap new = {}
    BY ReturningMember
  <1> HIDE DEF new
  <1>4. /\ IsFiniteSet(PermitsReturning \cup new)
        /\ Cardinality(PermitsReturning \cup new)
             = Cardinality(PermitsReturning) + Cardinality(new) - Cardinality({})
    BY <1>1, <1>3, FS_Union
  <1>5. QED BY <1>1, <1>2, <1>4, FS_EmptySet, FS_CardinalityType

(* A task has returned one of its permits.                                  *)
LEMMA ReturningOne ==
    ASSUME SemTypeOK, IsFiniteSet(PermitsReturning),
           NEW t \in Tasks, todo[t] > 0, todo' = [todo EXCEPT ![t] = @ - 1]
    PROVE  /\ IsFiniteSet(PermitsReturning')
           /\ Cardinality(PermitsReturning') = Cardinality(PermitsReturning) - 1
           /\ Cardinality(PermitsReturning) \in Nat
  <1> DEFINE last == <<t, todo[t]>>
  <1>1. last \in PermitsReturning
    <2>1. todo[t] \in 1 .. todo[t]
      BY DEF SemTypeOK
    <2>2. QED BY <2>1, ReturningMember
  <1>2. ASSUME NEW p PROVE p \in PermitsReturning' <=> p \in PermitsReturning /\ p # last
    <2>1. \A s \in Tasks : todo'[s] = IF s = t THEN todo[t] - 1 ELSE todo[s]
      BY DEF SemTypeOK
    <2>2. p \in PermitsReturning' <=> \E s \in Tasks : \E i \in 1 .. todo'[s] : p = <<s, i>>
      BY DEF PermitsReturning
    <2>3. todo \in [Tasks -> Nat]
      BY DEF SemTypeOK
    <2>4. QED BY <2>1, <2>2, <2>3, ReturningMember
  <1>3. PermitsReturning' = PermitsReturning \ {last}
    BY <1>2
  <1>4. QED BY <1>1, <1>3, OneLess

(* A new semaphore satisfies the inductive invariant.                       *)
LEMMA InitSemIInv == SemInit => SemIInv
  <1> SUFFICES ASSUME SemInit PROVE SemIInv
    OBVIOUS
  <1> USE NobodyAssumption, SemaphoreAssumption DEF SemInit
  <1>1. SemTypeOK /\ TodoInv /\ GrantHasOneWaker /\ NoIdlePermit
    BY DEF SemTypeOK, TodoInv, GrantHasOneWaker, NoIdlePermit, SemPCs
  <1>2. SemQueueIsExact
    BY EmptyQueue DEF SemQueueIsExact
  <1>3. PermitHolders = {} /\ PermitsReturning = {}
    BY ReturningMember DEF PermitHolders
  <1>4. PermitsAreFinite /\ PermitsConserved
    BY <1>3, FS_EmptySet DEF PermitsAreFinite, PermitsConserved
  <1>5. QED BY <1>1, <1>2, <1>4 DEF SemIInv

(* Someone takes a free permit, in try_acquire, await_ready or              *)
(* await_suspend.                                                           *)
LEMMA TakesPermit ==
    ASSUME SemIInv, NEW t \in Tasks, semPc[t] \in {"idle", "suspending"},
           permits > 0, permits' = permits - 1, semPc' = [semPc EXCEPT ![t] = "owner"],
           UNCHANGED <<semQueue, todo, semHandle, extra>>
    PROVE  SemIInv'
  <1> USE NobodyAssumption, SemaphoreAssumption DEF SemIInv, SemTypeOK
  <1>1. SemTypeOK' /\ TodoInv' /\ GrantHasOneWaker' /\ NoIdlePermit'
    BY DEF TodoInv, GrantHasOneWaker, NoIdlePermit, SemPCs
  <1>2. SemQueueIsExact'
    BY DEF SemQueueIsExact
  <1>3. PermitHolders' = PermitHolders \cup {t} /\ t \notin PermitHolders
    BY DEF PermitHolders
  <1>4. PermitsReturning' = PermitsReturning
    BY DEF PermitsReturning
  <1>5. PermitsAreFinite' /\ PermitsConserved'
    BY <1>3, <1>4, OneMore, FS_CardinalityType DEF PermitsAreFinite, PermitsConserved
  <1>6. QED BY <1>1, <1>2, <1>5

(* A step that leaves the holders and the permits on their way alone.       *)
LEMMA HoldersStay ==
    ASSUME PermitsAreFinite, PermitsConserved, PermitHolders' = PermitHolders,
           UNCHANGED <<permits, todo, extra>>
    PROVE  PermitsAreFinite' /\ PermitsConserved'
  <1>1. PermitsReturning' = PermitsReturning
    BY DEF PermitsReturning
  <1>2. QED BY <1>1 DEF PermitsAreFinite, PermitsConserved

(* Every step of every coroutine preserves the inductive invariant.         *)
LEMMA NextSemIInv == SemIInv /\ [SemNext]_semVars => SemIInv'
  <1> SUFFICES ASSUME SemIInv, [SemNext]_semVars PROVE SemIInv'
    OBVIOUS
  <1> USE NobodyAssumption, SemaphoreAssumption DEF SemIInv, SemTypeOK, SemGoto
  <1>1. ASSUME NEW t \in Tasks, TryAcquire(t) PROVE SemIInv'
    BY <1>1, TakesPermit DEF TryAcquire
  <1>2. ASSUME NEW t \in Tasks, SemReady(t) PROVE SemIInv'
    <2>1. CASE permits > 0
      BY <1>2, <2>1, TakesPermit DEF SemReady
    <2>2. CASE ~(permits > 0)
      <3>1. SemTypeOK' /\ TodoInv' /\ GrantHasOneWaker' /\ NoIdlePermit'
        BY <1>2, <2>2 DEF SemReady, TodoInv, GrantHasOneWaker, NoIdlePermit, SemPCs
      <3>2. SemQueueIsExact'
        BY <1>2, <2>2 DEF SemReady, SemQueueIsExact
      <3>3. PermitHolders' = PermitHolders
        BY <1>2, <2>2 DEF SemReady, PermitHolders
      <3>4. PermitsAreFinite' /\ PermitsConserved'
        BY <1>2, <2>2, <3>3, HoldersStay DEF SemReady
      <3>5. QED BY <3>1, <3>2, <3>4
    <2>3. QED BY <2>1, <2>2
  <1>3. ASSUME NEW t \in Tasks, SemSuspend(t) PROVE SemIInv'
    <2>1. CASE permits > 0
      BY <1>3, <2>1, TakesPermit DEF SemSuspend
    <2>2. CASE permits = 0
      <3>1. /\ semPc[t] = "suspending" /\ semPc' = [semPc EXCEPT ![t] = "queued"]
            /\ semQueue' = Append(semQueue, t)
            /\ UNCHANGED <<permits, todo, semHandle, extra>>
        BY <1>3, <2>2 DEF SemSuspend
      <3>2. ~Contains(semQueue, t) /\ IsInjective(semQueue)
        BY <3>1 DEF SemQueueIsExact
      <3>3. /\ semQueue' \in Seq(Tasks)
            /\ IsInjective(semQueue')
            /\ \A x : Contains(semQueue', x) <=> (x = t \/ Contains(semQueue, x))
        BY <3>1, <3>2, AppendQueue
      <3>4. SemQueueIsExact'
        BY <3>1, <3>3 DEF SemQueueIsExact
      <3>5. SemTypeOK' /\ TodoInv' /\ GrantHasOneWaker' /\ NoIdlePermit'
        BY <2>2, <3>1, <3>3 DEF TodoInv, GrantHasOneWaker, NoIdlePermit, SemPCs
      <3>6. PermitHolders' = PermitHolders
        BY <3>1 DEF PermitHolders
      <3>7. PermitsAreFinite' /\ PermitsConserved'
        BY <3>1, <3>6, HoldersStay
      <3>8. QED BY <3>4, <3>5, <3>7
    <2>3. QED BY <2>1, <2>2
  <1>4. ASSUME NEW t \in Tasks, CallRelease(t) PROVE SemIInv'
    <2>1. SemTypeOK' /\ TodoInv' /\ GrantHasOneWaker' /\ NoIdlePermit'
      BY <1>4 DEF CallRelease, TodoInv, GrantHasOneWaker, NoIdlePermit, SemPCs
    <2>2. SemQueueIsExact'
      BY <1>4 DEF CallRelease, SemQueueIsExact
    <2>3. PermitHolders' = PermitHolders \ {t} /\ t \in PermitHolders
      BY <1>4 DEF CallRelease, PermitHolders
    <2>4. todo[t] = 0 /\ todo' = [todo EXCEPT ![t] = 1] /\ UNCHANGED <<permits, extra>>
      BY <1>4 DEF CallRelease, TodoInv
    <2>4a. /\ IsFiniteSet(PermitHolders')
           /\ Cardinality(PermitHolders') = Cardinality(PermitHolders) - 1
           /\ Cardinality(PermitHolders) \in Nat
      BY <2>3, OneLess DEF PermitsAreFinite
    <2>4b. /\ IsFiniteSet(PermitsReturning')
           /\ Cardinality(PermitsReturning') = Cardinality(PermitsReturning) + 1
           /\ Cardinality(PermitsReturning) \in Nat
      BY <2>4, ReturningStarts DEF PermitsAreFinite
    <2>5. PermitsAreFinite' /\ PermitsConserved'
      BY <2>4, <2>4a, <2>4b DEF PermitsAreFinite, PermitsConserved
    <2>6. QED BY <2>1, <2>2, <2>5
  <1>5. ASSUME NEW t \in Tasks, NEW n \in 1 .. MaxExtra, CallReleaseMany(t, n) PROVE SemIInv'
    <2>1. SemTypeOK' /\ TodoInv' /\ GrantHasOneWaker' /\ NoIdlePermit'
      BY <1>5 DEF CallReleaseMany, TodoInv, GrantHasOneWaker, NoIdlePermit, SemPCs
    <2>2. SemQueueIsExact'
      BY <1>5 DEF CallReleaseMany, SemQueueIsExact
    <2>3. PermitHolders' = PermitHolders
      BY <1>5 DEF CallReleaseMany, PermitHolders
    <2>4. /\ n \in Nat /\ todo[t] = 0 /\ todo' = [todo EXCEPT ![t] = n]
          /\ extra' = extra + n /\ UNCHANGED permits
      BY <1>5 DEF CallReleaseMany, TodoInv
    <2>4a. Cardinality(PermitHolders) \in Nat
      BY FS_CardinalityType DEF PermitsAreFinite
    <2>4b. /\ IsFiniteSet(PermitsReturning')
           /\ Cardinality(PermitsReturning') = Cardinality(PermitsReturning) + n
           /\ Cardinality(PermitsReturning) \in Nat
      BY <2>4, ReturningStarts DEF PermitsAreFinite
    <2>5. PermitsAreFinite' /\ PermitsConserved'
      <3>1. permits' + Cardinality(PermitHolders') + Cardinality(PermitsReturning')
               = InitialCount + extra'
        <4> DEFINE h == Cardinality(PermitHolders)
                   r == Cardinality(PermitsReturning)
        <4>1. permits \in Nat /\ extra \in Nat /\ n \in Nat /\ h \in Nat /\ r \in Nat
          BY <2>4, <2>4a, <2>4b
        <4>2. permits + h + r = InitialCount + extra
          BY DEF PermitsConserved
        <4> HIDE DEF h, r
        <4>3. permits + h + (r + n) = InitialCount + (extra + n)
          BY ONLY <4>1, <4>2, SemaphoreAssumption
        <4>4. QED BY <2>3, <2>4, <2>4b, <4>3 DEF h, r
      <3>2. QED BY <2>3, <2>4b, <3>1 DEF PermitsAreFinite, PermitsConserved
    <2>6. QED BY <2>1, <2>2, <2>5
  <1>6. ASSUME NEW t \in Tasks, Release(t) PROVE SemIInv'
    <2>0. /\ semPc[t] = "release" /\ todo[t] > 0
          /\ todo' = [todo EXCEPT ![t] = @ - 1] /\ UNCHANGED extra
      BY <1>6 DEF Release, TodoInv
    <2>0a. /\ IsFiniteSet(PermitsReturning')
           /\ Cardinality(PermitsReturning') = Cardinality(PermitsReturning) - 1
           /\ Cardinality(PermitsReturning) \in Nat
      BY <2>0, ReturningOne DEF PermitsAreFinite
    <2>1. CASE semQueue = << >>
      <3>1. /\ permits' = permits + 1
            /\ semPc' = [semPc EXCEPT ![t] = IF todo[t] = 1 THEN "idle" ELSE "release"]
            /\ UNCHANGED <<semQueue, semHandle>>
        BY <1>6, <2>1 DEF Release, AddPermit
      <3>2. SemTypeOK' /\ TodoInv' /\ GrantHasOneWaker' /\ NoIdlePermit'
        BY <2>0, <2>1, <3>1 DEF TodoInv, GrantHasOneWaker, NoIdlePermit, SemPCs
      <3>3. SemQueueIsExact'
        BY <2>0, <3>1 DEF SemQueueIsExact
      <3>4. PermitHolders' = PermitHolders
        BY <2>0, <3>1 DEF PermitHolders
      <3>5. PermitsAreFinite' /\ PermitsConserved'
        BY <2>0, <2>0a, <3>1, <3>4, FS_CardinalityType DEF PermitsAreFinite, PermitsConserved
      <3>6. QED BY <3>2, <3>3, <3>5
    <2>2. CASE semQueue # << >>
      <3> DEFINE w == Head(semQueue)
      <3>1. /\ w \in Tasks
            /\ Contains(semQueue, w)
            /\ Tail(semQueue) \in Seq(Tasks)
            /\ IsInjective(Tail(semQueue))
            /\ \A x : Contains(Tail(semQueue), x) <=> (x # w /\ Contains(semQueue, x))
        BY <2>2, TailQueue DEF SemQueueIsExact
      <3>2. semPc[w] = "queued" /\ w # t
        BY <2>0, <3>1 DEF SemQueueIsExact
      <3>3. /\ semQueue' = Tail(semQueue) /\ UNCHANGED permits
            /\ semHandle' = [semHandle EXCEPT ![t] = w]
            /\ semPc' = [semPc EXCEPT ![t] = "wake", ![w] = "granted"]
        BY <1>6, <2>2 DEF Release, GivePermit
      <3> HIDE DEF w
      <3>4. SemQueueIsExact'
        BY <2>0, <3>1, <3>2, <3>3 DEF SemQueueIsExact
      <3>4a. semPc' \in [Tasks -> SemPCs] /\ semHandle' \in [Tasks -> Tasks \cup {Nobody}]
        BY <2>0, <3>1, <3>2, <3>3 DEF SemPCs
      <3>4b. todo' \in [Tasks -> Nat]
        BY <2>0
      <3>5. SemTypeOK'
        BY <2>0, <3>1, <3>3, <3>4a, <3>4b
      <3>5a. TodoInv'
        BY <2>0, <3>1, <3>2, <3>3, <3>4a, <3>4b DEF TodoInv
      <3>5b. NoIdlePermit'
        BY <2>2, <3>3 DEF NoIdlePermit
      <3>6. GrantHasOneWaker'
        <4>1. /\ semHandle[t] = Nobody /\ \A s \in Tasks : semHandle[s] # w
              /\ semHandle'[t] = w /\ \A s \in Tasks \ {t} : semHandle'[s] = semHandle[s]
              /\ semPc'[t] = "wake" /\ semPc'[w] = "granted"
              /\ \A s \in Tasks \ {t, w} : semPc'[s] = semPc[s]
          BY <2>0, <3>1, <3>2, <3>3 DEF GrantHasOneWaker
        <4>2. ASSUME NEW x \in Tasks
              PROVE  semPc'[x] = "granted" <=> \E s \in Tasks : semHandle'[s] = x
          <5>1. CASE x = w
            BY <4>1, <5>1
          <5>2. CASE x # w
            <6>1. semPc'[x] = "granted" <=> semPc[x] = "granted"
              BY <2>0, <4>1, <5>2
            <6>2. \A s \in Tasks : semHandle'[s] = x <=> semHandle[s] = x
              BY <4>1, <5>2
            <6>3. QED BY <6>1, <6>2 DEF GrantHasOneWaker
          <5>3. QED BY <5>1, <5>2
        <4>3. ASSUME NEW s \in Tasks, NEW u \in Tasks,
                     semHandle'[s] = semHandle'[u], semHandle'[u] # Nobody
              PROVE  s = u
          BY <4>1, <4>3 DEF GrantHasOneWaker
        <4>4. ASSUME NEW s \in Tasks
              PROVE  semPc'[s] = "wake" <=> semHandle'[s] # Nobody
          BY <3>1, <3>2, <4>1 DEF GrantHasOneWaker
        <4>5. QED
          BY <4>2, <4>3, <4>4 DEF GrantHasOneWaker
      <3>7. PermitHolders' = PermitHolders \cup {w} /\ w \notin PermitHolders
        BY <2>0, <3>1, <3>2, <3>3 DEF PermitHolders
      <3>8. PermitsAreFinite' /\ PermitsConserved'
        <4>1. /\ IsFiniteSet(PermitHolders')
              /\ Cardinality(PermitHolders') = Cardinality(PermitHolders) + 1
              /\ Cardinality(PermitHolders) \in Nat
          BY <3>7, OneMore DEF PermitsAreFinite
        <4>2. QED
          BY <2>0, <2>0a, <3>3, <4>1 DEF PermitsAreFinite, PermitsConserved
      <3>9. QED BY <3>4, <3>5, <3>5a, <3>5b, <3>6, <3>8
    <2>3. QED BY <2>1, <2>2
  <1>7. ASSUME NEW t \in Tasks, ReleaseWake(t) PROVE SemIInv'
    <2> DEFINE w == semHandle[t]
    <2>1. w \in Tasks /\ semPc[w] = "granted" /\ w # t /\ semPc[t] = "wake"
      BY <1>7 DEF ReleaseWake, GrantHasOneWaker
    <2>2. PICK l \in {"owner", "posted"} :
             semPc' = [semPc EXCEPT ![t] = IF todo[t] = 0 THEN "idle" ELSE "release", ![w] = l]
      BY <1>7 DEF ReleaseWake
    <2>3. semHandle' = [semHandle EXCEPT ![t] = Nobody] /\ UNCHANGED <<permits, semQueue, todo, extra>>
      BY <1>7 DEF ReleaseWake
    <2>4. GrantHasOneWaker'
      BY <2>1, <2>2, <2>3 DEF GrantHasOneWaker
    <2> HIDE DEF w
    <2>5. SemTypeOK'
      BY <2>1, <2>2, <2>3 DEF SemPCs
    <2>6. TodoInv' /\ NoIdlePermit'
      BY <2>1, <2>2, <2>3 DEF TodoInv, NoIdlePermit
    <2>7. SemQueueIsExact'
      BY <2>1, <2>2, <2>3 DEF SemQueueIsExact
    <2>8. PermitHolders' = PermitHolders
      BY <2>1, <2>2 DEF PermitHolders
    <2>9. PermitsAreFinite' /\ PermitsConserved'
      BY <2>3, <2>8, HoldersStay
    <2>10. QED BY <2>4, <2>5, <2>6, <2>7, <2>9
  <1>8. ASSUME NEW t \in Tasks, SemRunPosted(t) PROVE SemIInv'
    <2>1. SemTypeOK' /\ TodoInv' /\ GrantHasOneWaker' /\ NoIdlePermit'
      BY <1>8 DEF SemRunPosted, TodoInv, GrantHasOneWaker, NoIdlePermit, SemPCs
    <2>2. SemQueueIsExact'
      BY <1>8 DEF SemRunPosted, SemQueueIsExact
    <2>3. PermitHolders' = PermitHolders
      BY <1>8 DEF SemRunPosted, PermitHolders
    <2>4. PermitsAreFinite' /\ PermitsConserved'
      BY <1>8, <2>3, HoldersStay DEF SemRunPosted
    <2>5. QED BY <2>1, <2>2, <2>4
  <1>9. CASE UNCHANGED semVars
    BY <1>9 DEF semVars, TodoInv, GrantHasOneWaker, SemQueueIsExact, NoIdlePermit,
       PermitsAreFinite, PermitsConserved, PermitHolders, PermitsReturning
  <1>10. QED
    BY <1>1, <1>2, <1>3, <1>4, <1>5, <1>6, <1>7, <1>8, <1>9 DEF SemNext, SemProgress

(* The inductive invariant always holds.                                    *)
LEMMA SemInductive == SemSpec => []SemIInv
  BY InitSemIInv, NextSemIInv, PTL DEF SemSpec

(* Whatever the interleaving of acquire, try_acquire, release and           *)
(* release(n), no permit is lost or invented (semaphore_impl.cpp:40-94).    *)
THEOREM SemaphoreConserves == SemSpec => []PermitsConserved
  BY SemInductive, PTL DEF SemIInv

(* No coroutine sleeps in the queue while a permit is free: the second look *)
(* in await_suspend and the hand-over in release leave no window.           *)
THEOREM SemaphoreIdlesNoPermit == SemSpec => []NoIdlePermit
  BY SemInductive, PTL DEF SemIInv

(* The waiter list holds every suspended coroutine once, and who was taken  *)
(* from it is resumed by exactly one release().                             *)
THEOREM SemaphoreWakesOnce == SemSpec => [](SemQueueIsExact /\ GrantHasOneWaker)
  BY SemInductive, PTL DEF SemIInv

-----------------------------------------------------------------------------
(* async_shared_mutex                                                       *)

(* state_ counts the readers, or says that there is a writer.               *)
RwCount == IsFiniteSet(Readers) /\ StateCountsHolders

RwIInv ==
    /\ RwTypeOK /\ RwQueuesAreExact /\ AdmittedHaveOneWaker
    /\ RwCount /\ WriterExcludes /\ RwNoStranded

(* A list without duplicates is as long as the set of its members.          *)
LEMMA ListCount ==
    ASSUME NEW S, NEW q \in Seq(S), IsInjective(q), NEW T, T = {x \in S : Contains(q, x)}
    PROVE  IsFiniteSet(T) /\ Cardinality(T) = Len(q)
  <1>1. Len(q) \in Nat /\ DOMAIN q = 1 .. Len(q) /\ \A i \in 1 .. Len(q) : q[i] \in S
    OBVIOUS
  <1>2. q \in [1 .. Len(q) -> T]
    BY <1>1 DEF Contains
  <1>3. \A x \in T : \E i \in 1 .. Len(q) : q[i] = x
    BY <1>1 DEF Contains
  <1>4. \A i, j \in 1 .. Len(q) : q[i] = q[j] => i = j
    BY <1>1 DEF IsInjective
  <1>5. q \in Bijection(1 .. Len(q), T)
    BY <1>2, <1>3, <1>4 DEF Bijection, Injection, Surjection, IsInjective
  <1>6. ExistsBijection(1 .. Len(q), T)
    BY <1>5 DEF ExistsBijection
  <1>7. QED BY <1>1, <1>6, FS_CountingElements, FS_NatBijection

(* What state_ says of the holders.                                         *)
LEMMA WordMeans ==
    ASSUME RwIInv
    PROVE  /\ Cardinality(Readers) \in Nat
           /\ Writers # {} => rwState = -1 /\ Readers = {}
           /\ Writers = {} => rwState = Cardinality(Readers)
           /\ rwState = 0 => Writers = {} /\ Readers = {}
           /\ rwState >= 0 => Writers = {}
  <1>1. Cardinality(Readers) \in Nat /\ (Cardinality(Readers) = 0 => Readers = {})
    BY FS_CardinalityType, FS_EmptySet DEF RwIInv, RwCount
  <1>2. QED BY <1>1 DEF RwIInv, RwCount, StateCountsHolders, WriterExcludes

(* A new mutex satisfies the inductive invariant.                           *)
LEMMA InitRwIInv == RwInit => RwIInv
  <1> SUFFICES ASSUME RwInit PROVE RwIInv
    OBVIOUS
  <1> USE DEF RwInit
  <1>1. Readers = {} /\ Writers = {}
    BY DEF Readers, Writers
  <1>2. RwCount /\ WriterExcludes
    BY <1>1, FS_EmptySet DEF RwCount, StateCountsHolders, WriterExcludes
  <1>3. RwTypeOK /\ RwNoStranded
    BY DEF RwTypeOK, RwPCs, RwNoStranded
  <1>4. RwQueuesAreExact /\ AdmittedHaveOneWaker
    BY EmptyQueue DEF RwQueuesAreExact, AdmittedHaveOneWaker
  <1>5. QED BY <1>2, <1>3, <1>4 DEF RwIInv

(* A reader that finds no writer gets in.                                   *)
LEMMA ReaderEnters ==
    ASSUME RwIInv, NEW t \in Tasks, rwPc[t] \in {"idle", "rsuspend"}, ReaderMayEnter,
           rwState' = rwState + 1, rwPc' = [rwPc EXCEPT ![t] = "reader"],
           UNCHANGED <<readers, writers, rwResume>>
    PROVE  RwIInv'
  <1>1. Writers = {} /\ rwState = Cardinality(Readers)
    BY WordMeans DEF ReaderMayEnter
  <1> USE DEF RwIInv, RwTypeOK
  <1>2. Readers' = Readers \cup {t} /\ t \notin Readers /\ Writers' = {}
    BY <1>1 DEF Readers, Writers
  <1>3. RwCount' /\ WriterExcludes'
    BY <1>1, <1>2, OneMore DEF RwCount, StateCountsHolders, WriterExcludes
  <1>4. RwTypeOK' /\ RwNoStranded'
    BY DEF RwPCs, RwNoStranded, ReaderMayEnter
  <1>5. RwQueuesAreExact' /\ AdmittedHaveOneWaker'
    BY DEF RwQueuesAreExact, AdmittedHaveOneWaker
  <1>6. QED BY <1>3, <1>4, <1>5

(* A writer that finds the mutex free gets in.                              *)
LEMMA WriterEnters ==
    ASSUME RwIInv, NEW t \in Tasks, rwPc[t] \in {"idle", "wsuspend"}, rwState = 0,
           rwState' = -1, rwPc' = [rwPc EXCEPT ![t] = "writer"],
           UNCHANGED <<readers, writers, rwResume>>
    PROVE  RwIInv'
  <1>1. Writers = {} /\ Readers = {}
    BY WordMeans
  <1> USE DEF RwIInv, RwTypeOK
  <1>2. Readers' = {} /\ Writers' = {t}
    BY <1>1 DEF Readers, Writers
  <1>3. RwCount' /\ WriterExcludes'
    BY <1>2, FS_EmptySet DEF RwCount, StateCountsHolders, WriterExcludes
  <1>4. RwTypeOK' /\ RwNoStranded'
    BY DEF RwPCs, RwNoStranded
  <1>5. RwQueuesAreExact' /\ AdmittedHaveOneWaker'
    BY DEF RwQueuesAreExact, AdmittedHaveOneWaker
  <1>6. QED BY <1>3, <1>4, <1>5

(* A step that changes neither state_ nor the holders.                      *)
LEMMA CountStays ==
    ASSUME RwCount, WriterExcludes, Readers' = Readers, Writers' = Writers, rwState' = rwState
    PROVE  RwCount' /\ WriterExcludes'
  BY DEF RwCount, StateCountsHolders, WriterExcludes

(* The last holder t passes the mutex to the first queued writer.           *)
LEMMA WriterAdmitted ==
    ASSUME RwIInv, NEW t \in Tasks, rwPc[t] \in {"reader", "writer"},
           Readers \cup Writers = {t}, writers # << >>, AdmitWriter(t)
    PROVE  RwIInv'
  <1> USE DEF RwIInv, RwTypeOK
  <1> DEFINE w == Head(writers)
  <1>1. /\ w \in Tasks
        /\ Contains(writers, w)
        /\ Tail(writers) \in Seq(Tasks)
        /\ IsInjective(Tail(writers))
        /\ \A x : Contains(Tail(writers), x) <=> (x # w /\ Contains(writers, x))
    BY TailQueue DEF RwQueuesAreExact
  <1>2. rwPc[w] = "wqueued" /\ w # t
    BY <1>1 DEF RwQueuesAreExact
  <1>3. /\ rwState' = -1 /\ writers' = Tail(writers) /\ readers' = readers
        /\ rwResume' = [rwResume EXCEPT ![t] = <<w>>]
        /\ rwPc' = [rwPc EXCEPT ![t] = "wake", ![w] = "wgranted"]
    BY DEF AdmitWriter
  <1> HIDE DEF w
  <1>4. /\ rwPc'[t] = "wake" /\ rwPc'[w] = "wgranted"
        /\ \A s \in Tasks \ {t, w} : rwPc'[s] = rwPc[s]
        /\ rwResume'[t] = <<w>>
        /\ \A s \in Tasks \ {t} : rwResume'[s] = rwResume[s]
    BY <1>1, <1>2, <1>3
  <1>5. Readers' = {} /\ Writers' = {w}
    BY <1>1, <1>2, <1>4 DEF Readers, Writers
  <1>6. RwCount' /\ WriterExcludes'
    BY <1>3, <1>5, FS_EmptySet DEF RwCount, StateCountsHolders, WriterExcludes
  <1>7. RwTypeOK'
    <2>1. <<w>> \in Seq(Tasks)
      BY <1>1
    <2>2. rwResume' \in [Tasks -> Seq(Tasks)]
      BY <1>3, <2>1
    <2>3. rwPc' \in [Tasks -> RwPCs]
      BY <1>1, <1>3 DEF RwPCs
    <2>4. rwState' \in Int /\ readers' \in Seq(Tasks) /\ writers' \in Seq(Tasks)
      BY <1>1, <1>3
    <2>5. QED BY <2>2, <2>3, <2>4
  <1>8. RwNoStranded'
    BY <1>3 DEF RwNoStranded
  <1>9. RwQueuesAreExact'
    BY <1>1, <1>2, <1>3, <1>4 DEF RwQueuesAreExact
  <1>10. AdmittedHaveOneWaker'
    <2>1. IsInjective(<<w>>) /\ \A x : Contains(<<w>>, x) <=> x = w
      BY DEF IsInjective, Contains
    <2>2. <<w>> # << >>
      OBVIOUS
    <2>3. rwResume[t] = << >> /\ \A x : ~Contains(rwResume[t], x)
      BY EmptyQueue DEF AdmittedHaveOneWaker
    <2>4. \A s \in Tasks : ~Contains(rwResume[s], w)
      BY <1>1, <1>2 DEF AdmittedHaveOneWaker
    <2>5. ASSUME NEW s \in Tasks, NEW x
          PROVE  Contains(rwResume'[s], x) <=> \/ s = t /\ x = w
                                               \/ Contains(rwResume[s], x)
      BY <1>4, <2>1, <2>3
    <2>6. ASSUME NEW x \in Tasks
          PROVE  rwPc'[x] \in {"rgranted", "wgranted"}
                 <=> \E s \in Tasks : Contains(rwResume'[s], x)
      BY <1>4, <2>3, <2>5 DEF AdmittedHaveOneWaker
    <2>7. ASSUME NEW s \in Tasks, NEW u \in Tasks, NEW x \in Tasks,
                 Contains(rwResume'[s], x), Contains(rwResume'[u], x)
          PROVE  s = u
      BY <2>4, <2>5, <2>7 DEF AdmittedHaveOneWaker
    <2>8. ASSUME NEW s \in Tasks PROVE IsInjective(rwResume'[s])
      BY <1>4, <2>1 DEF AdmittedHaveOneWaker
    <2>9. ASSUME NEW s \in Tasks PROVE rwPc'[s] = "wake" <=> rwResume'[s] # << >>
      BY <1>1, <1>2, <1>4, <2>2 DEF AdmittedHaveOneWaker
    <2>10. QED BY <2>6, <2>7, <2>8, <2>9 DEF AdmittedHaveOneWaker
  <1>11. QED BY <1>6, <1>7, <1>8, <1>9, <1>10

(* The writer t passes the mutex to every queued reader at once.            *)
LEMMA ReadersAdmitted ==
    ASSUME RwIInv, NEW t \in Tasks, rwPc[t] = "writer",
           writers = << >>, readers # << >>, AdmitReaders(t), rwState' = Len(readers)
    PROVE  RwIInv'
  <1>0. Writers = {t} /\ Readers = {}
    BY DEF RwIInv, WriterExcludes, Writers
  <1> USE DEF RwIInv, RwTypeOK
  <1>1. /\ readers' = << >> /\ writers' = writers
        /\ rwResume'[t] = readers
        /\ \A s \in Tasks \ {t} : rwResume'[s] = rwResume[s]
        /\ rwPc'[t] = "wake"
        /\ \A s \in Tasks \ {t} : rwPc'[s] = IF Contains(readers, s) THEN "rgranted" ELSE rwPc[s]
    BY DEF AdmitReaders
  <1>2. \A s \in Tasks : Contains(readers, s) <=> rwPc[s] = "rqueued"
    BY DEF RwQueuesAreExact
  <1>3. Readers' = {s \in Tasks : Contains(readers, s)} /\ Writers' = {}
    BY <1>0, <1>1, <1>2 DEF Readers, Writers
  <1>4. IsFiniteSet(Readers') /\ Cardinality(Readers') = Len(readers)
    BY <1>3, ListCount DEF RwQueuesAreExact
  <1>5. RwCount' /\ WriterExcludes'
    BY <1>3, <1>4 DEF RwCount, StateCountsHolders, WriterExcludes
  <1>6. RwTypeOK'
    <2>1. rwResume' \in [Tasks -> Seq(Tasks)]
      BY DEF AdmitReaders
    <2>2. rwPc' \in [Tasks -> RwPCs]
      BY DEF AdmitReaders, RwPCs
    <2>3. Len(readers) \in Int
      OBVIOUS
    <2>4. QED BY <1>1, <2>1, <2>2, <2>3
  <1>7. RwNoStranded'
    BY <1>1 DEF RwNoStranded
  <1>8. RwQueuesAreExact'
    BY <1>1, <1>2, EmptyQueue DEF RwQueuesAreExact
  <1>9. AdmittedHaveOneWaker'
    <2>1. rwResume[t] = << >> /\ \A x : ~Contains(rwResume[t], x)
      BY EmptyQueue DEF AdmittedHaveOneWaker
    <2>2. \A s, x \in Tasks : Contains(readers, x) => ~Contains(rwResume[s], x)
      BY <1>2 DEF AdmittedHaveOneWaker
    <2>3. ASSUME NEW s \in Tasks, NEW x
          PROVE  Contains(rwResume'[s], x) <=> \/ s = t /\ Contains(readers, x)
                                               \/ Contains(rwResume[s], x)
      BY <1>1, <2>1
    <2>4. ASSUME NEW x \in Tasks
          PROVE  rwPc'[x] \in {"rgranted", "wgranted"}
                 <=> \E s \in Tasks : Contains(rwResume'[s], x)
      BY <1>1, <1>2, <2>1, <2>3 DEF AdmittedHaveOneWaker
    <2>5. ASSUME NEW s \in Tasks, NEW u \in Tasks, NEW x \in Tasks,
                 Contains(rwResume'[s], x), Contains(rwResume'[u], x)
          PROVE  s = u
      BY <2>2, <2>3, <2>5 DEF AdmittedHaveOneWaker
    <2>6. ASSUME NEW s \in Tasks PROVE IsInjective(rwResume'[s])
      BY <1>1 DEF AdmittedHaveOneWaker, RwQueuesAreExact
    <2>7. ASSUME NEW s \in Tasks PROVE rwPc'[s] = "wake" <=> rwResume'[s] # << >>
      BY <1>1, <1>2 DEF AdmittedHaveOneWaker
    <2>8. QED BY <2>4, <2>5, <2>6, <2>7 DEF AdmittedHaveOneWaker
  <1>10. QED BY <1>5, <1>6, <1>7, <1>8, <1>9

(* An unlock under way resumes the next of those it admitted.               *)
LEMMA ResumesNext ==
    ASSUME RwIInv, NEW t \in Tasks, RwResumeNext(t)
    PROVE  RwIInv'
  <1> USE DEF RwIInv, RwTypeOK
  <1> DEFINE w == Head(rwResume[t])
             rest == Tail(rwResume[t])
  <1>1. rwPc[t] = "wake" /\ rwResume[t] # << >>
    BY DEF RwResumeNext, AdmittedHaveOneWaker
  <1>2. /\ w \in Tasks
        /\ Contains(rwResume[t], w)
        /\ rest \in Seq(Tasks)
        /\ IsInjective(rest)
        /\ \A x : Contains(rest, x) <=> (x # w /\ Contains(rwResume[t], x))
    BY <1>1, TailQueue DEF AdmittedHaveOneWaker
  <1>3. rwPc[w] \in {"rgranted", "wgranted"} /\ w # t
    BY <1>1, <1>2 DEF AdmittedHaveOneWaker
  <1>4. /\ rwResume' = [rwResume EXCEPT ![t] = rest]
        /\ rwPc' = [rwPc EXCEPT ![t] = IF rest = << >> THEN "idle" ELSE "wake",
                                ![w] = IF rwPc[w] = "rgranted" THEN "reader" ELSE "writer"]
        /\ UNCHANGED <<rwState, readers, writers>>
    BY DEF RwResumeNext
  <1> HIDE DEF w, rest
  <1>5. /\ rwResume'[t] = rest
        /\ \A s \in Tasks \ {t} : rwResume'[s] = rwResume[s]
        /\ rwPc'[t] = IF rest = << >> THEN "idle" ELSE "wake"
        /\ rwPc'[w] = IF rwPc[w] = "rgranted" THEN "reader" ELSE "writer"
        /\ \A s \in Tasks \ {t, w} : rwPc'[s] = rwPc[s]
    BY <1>2, <1>3, <1>4
  <1>6. Readers' = Readers /\ Writers' = Writers
    BY <1>1, <1>2, <1>3, <1>5 DEF Readers, Writers
  <1>7. RwCount' /\ WriterExcludes'
    BY <1>4, <1>6, CountStays
  <1>8. RwTypeOK'
    <2>1. rwResume' \in [Tasks -> Seq(Tasks)]
      BY <1>2, <1>4
    <2>2. rwPc' \in [Tasks -> RwPCs]
      BY <1>2, <1>4 DEF RwPCs
    <2>3. QED BY <1>4, <2>1, <2>2
  <1>9. RwNoStranded' /\ RwQueuesAreExact'
    BY <1>1, <1>2, <1>3, <1>4, <1>5 DEF RwNoStranded, RwQueuesAreExact
  <1>10. AdmittedHaveOneWaker'
    <2>1. \A s \in Tasks : Contains(rwResume[s], w) => s = t
      BY <1>2 DEF AdmittedHaveOneWaker
    <2>2. ASSUME NEW s \in Tasks, NEW x \in Tasks
          PROVE  Contains(rwResume'[s], x) <=> Contains(rwResume[s], x) /\ x # w
      BY <1>2, <1>5, <2>1
    <2>3. ASSUME NEW x \in Tasks
          PROVE  rwPc'[x] \in {"rgranted", "wgranted"}
                 <=> \E s \in Tasks : Contains(rwResume'[s], x)
      <3>1. CASE x = w
        BY <1>5, <2>2, <3>1
      <3>2. CASE x # w
        <4>1. rwPc'[x] \in {"rgranted", "wgranted"} <=> rwPc[x] \in {"rgranted", "wgranted"}
          BY <1>1, <1>5, <3>2
        <4>2. QED BY <2>2, <3>2, <4>1 DEF AdmittedHaveOneWaker
      <3>3. QED BY <3>1, <3>2
    <2>4. ASSUME NEW s \in Tasks, NEW u \in Tasks, NEW x \in Tasks,
                 Contains(rwResume'[s], x), Contains(rwResume'[u], x)
          PROVE  s = u
      BY <2>2, <2>4 DEF AdmittedHaveOneWaker
    <2>5. ASSUME NEW s \in Tasks PROVE IsInjective(rwResume'[s])
      BY <1>2, <1>5 DEF AdmittedHaveOneWaker
    <2>6. ASSUME NEW s \in Tasks PROVE rwPc'[s] = "wake" <=> rwResume'[s] # << >>
      BY <1>1, <1>2, <1>3, <1>5 DEF AdmittedHaveOneWaker
    <2>7. QED BY <2>3, <2>4, <2>5, <2>6 DEF AdmittedHaveOneWaker
  <1>11. QED BY <1>7, <1>8, <1>9, <1>10

(* Every step of every coroutine preserves the inductive invariant.         *)
LEMMA NextRwIInv == RwIInv /\ [RwNext]_rwVars => RwIInv'
  <1> SUFFICES ASSUME RwIInv, [RwNext]_rwVars PROVE RwIInv'
    OBVIOUS
  <1> USE DEF RwIInv, RwTypeOK, RwGoto
  <1>1. ASSUME NEW t \in Tasks, LockSharedReady(t) PROVE RwIInv'
    <2>1. CASE ReaderMayEnter
      BY <1>1, <2>1, ReaderEnters DEF LockSharedReady
    <2>2. CASE ~ReaderMayEnter
      <3>1. /\ rwPc[t] = "idle" /\ rwPc' = [rwPc EXCEPT ![t] = "rsuspend"]
            /\ UNCHANGED <<rwState, readers, writers, rwResume>>
        BY <1>1, <2>2 DEF LockSharedReady
      <3>2. Readers' = Readers /\ Writers' = Writers
        BY <3>1 DEF Readers, Writers
      <3>3. RwTypeOK' /\ RwNoStranded' /\ RwQueuesAreExact' /\ AdmittedHaveOneWaker'
        BY <3>1 DEF RwPCs, RwNoStranded, RwQueuesAreExact, AdmittedHaveOneWaker
      <3>4. QED BY <3>1, <3>2, <3>3, CountStays
    <2>3. QED BY <2>1, <2>2
  <1>2. ASSUME NEW t \in Tasks, LockSharedSuspend(t) PROVE RwIInv'
    <2>1. CASE ReaderMayEnter
      BY <1>2, <2>1, ReaderEnters DEF LockSharedSuspend
    <2>2. CASE ~ReaderMayEnter
      <3>1. /\ rwPc[t] = "rsuspend" /\ rwPc' = [rwPc EXCEPT ![t] = "rqueued"]
            /\ readers' = Append(readers, t)
            /\ UNCHANGED <<rwState, writers, rwResume>>
        BY <1>2, <2>2 DEF LockSharedSuspend
      <3>2. /\ readers' \in Seq(Tasks)
            /\ IsInjective(readers')
            /\ \A x : Contains(readers', x) <=> (x = t \/ Contains(readers, x))
        BY <3>1, AppendQueue DEF RwQueuesAreExact
      <3>3. RwQueuesAreExact'
        BY <3>1, <3>2 DEF RwQueuesAreExact
      <3>4. Readers' = Readers /\ Writers' = Writers
        BY <3>1 DEF Readers, Writers
      <3>5. RwNoStranded'
        <4>1. rwState = -1 \/ writers # << >>
          BY <2>2, WordMeans DEF ReaderMayEnter
        <4>2. QED BY <3>1, <4>1 DEF RwNoStranded
      <3>6. RwTypeOK' /\ AdmittedHaveOneWaker'
        BY <3>1, <3>2 DEF RwPCs, AdmittedHaveOneWaker
      <3>7. QED BY <3>1, <3>3, <3>4, <3>5, <3>6, CountStays
    <2>3. QED BY <2>1, <2>2
  <1>3. ASSUME NEW t \in Tasks, LockReady(t) PROVE RwIInv'
    <2>1. CASE rwState = 0
      BY <1>3, <2>1, WriterEnters DEF LockReady
    <2>2. CASE rwState # 0
      <3>1. /\ rwPc[t] = "idle" /\ rwPc' = [rwPc EXCEPT ![t] = "wsuspend"]
            /\ UNCHANGED <<rwState, readers, writers, rwResume>>
        BY <1>3, <2>2 DEF LockReady
      <3>2. Readers' = Readers /\ Writers' = Writers
        BY <3>1 DEF Readers, Writers
      <3>3. RwTypeOK' /\ RwNoStranded' /\ RwQueuesAreExact' /\ AdmittedHaveOneWaker'
        BY <3>1 DEF RwPCs, RwNoStranded, RwQueuesAreExact, AdmittedHaveOneWaker
      <3>4. QED BY <3>1, <3>2, <3>3, CountStays
    <2>3. QED BY <2>1, <2>2
  <1>4. ASSUME NEW t \in Tasks, LockSuspend(t) PROVE RwIInv'
    <2>1. CASE rwState = 0
      BY <1>4, <2>1, WriterEnters DEF LockSuspend
    <2>2. CASE rwState # 0
      <3>1. /\ rwPc[t] = "wsuspend" /\ rwPc' = [rwPc EXCEPT ![t] = "wqueued"]
            /\ writers' = Append(writers, t)
            /\ UNCHANGED <<rwState, readers, rwResume>>
        BY <1>4, <2>2 DEF LockSuspend
      <3>2. /\ writers' \in Seq(Tasks) /\ writers' # << >>
            /\ IsInjective(writers')
            /\ \A x : Contains(writers', x) <=> (x = t \/ Contains(writers, x))
        BY <3>1, AppendQueue DEF RwQueuesAreExact
      <3>3. RwQueuesAreExact'
        BY <3>1, <3>2 DEF RwQueuesAreExact
      <3>4. Readers' = Readers /\ Writers' = Writers
        BY <3>1 DEF Readers, Writers
      <3>5. RwNoStranded'
        BY <2>2, <3>1, <3>2 DEF RwNoStranded
      <3>6. RwTypeOK' /\ AdmittedHaveOneWaker'
        BY <3>1, <3>2 DEF RwPCs, AdmittedHaveOneWaker
      <3>7. QED BY <3>1, <3>3, <3>4, <3>5, <3>6, CountStays
    <2>3. QED BY <2>1, <2>2
  <1>5. ASSUME NEW t \in Tasks, RwTryLock(t) PROVE RwIInv'
    BY <1>5, WriterEnters DEF RwTryLock
  <1>6. ASSUME NEW t \in Tasks, UnlockShared(t) PROVE RwIInv'
    <2>1. rwPc[t] = "reader" /\ t \in Readers
      BY <1>6 DEF UnlockShared, Readers
    <2>2. Writers = {} /\ rwState = Cardinality(Readers)
      BY <2>1, WordMeans
    <2>3. CASE rwState = 1 /\ writers # << >>
      <3>1. Readers = {t}
        <4>1. IsFiniteSet(Readers) /\ Cardinality(Readers) = 1
          BY <2>2, <2>3 DEF RwCount
        <4>2. PICK x : Readers = {x}
          BY <4>1, FS_Singleton
        <4>3. QED BY <2>1, <4>2
      <3>2. QED BY <1>6, <2>1, <2>2, <2>3, <3>1, WriterAdmitted DEF UnlockShared
    <2>4. CASE ~(rwState = 1 /\ writers # << >>)
      <3>1. /\ rwState' = rwState - 1 /\ rwPc' = [rwPc EXCEPT ![t] = "idle"]
            /\ UNCHANGED <<readers, writers, rwResume>>
        BY <1>6, <2>4 DEF UnlockShared
      <3>2. Readers' = Readers \ {t} /\ Writers' = {}
        BY <2>1, <2>2, <3>1 DEF Readers, Writers
      <3>3. RwCount' /\ WriterExcludes'
        BY <2>1, <2>2, <3>1, <3>2, OneLess DEF RwCount, StateCountsHolders, WriterExcludes
      <3>4. RwNoStranded'
        BY <2>2, <2>4, <3>1, WordMeans DEF RwNoStranded
      <3>5. RwTypeOK' /\ RwQueuesAreExact' /\ AdmittedHaveOneWaker'
        BY <2>1, <3>1 DEF RwPCs, RwQueuesAreExact, AdmittedHaveOneWaker
      <3>6. QED BY <3>3, <3>4, <3>5
    <2>5. QED BY <2>3, <2>4
  <1>7. ASSUME NEW t \in Tasks, RwUnlock(t) PROVE RwIInv'
    <2>1. rwPc[t] = "writer" /\ Writers = {t} /\ Readers = {}
      BY <1>7 DEF RwUnlock, Writers, WriterExcludes
    <2>2. CASE writers # << >>
      BY <1>7, <2>1, <2>2, WriterAdmitted DEF RwUnlock
    <2>3. CASE writers = << >> /\ readers # << >>
      BY <1>7, <2>1, <2>3, ReadersAdmitted DEF RwUnlock
    <2>4. CASE writers = << >> /\ readers = << >>
      <3>1. /\ rwState' = 0 /\ rwPc' = [rwPc EXCEPT ![t] = "idle"]
            /\ UNCHANGED <<readers, writers, rwResume>>
        BY <1>7, <2>4 DEF RwUnlock
      <3>2. Readers' = {} /\ Writers' = {}
        BY <2>1, <3>1 DEF Readers, Writers
      <3>3. RwCount' /\ WriterExcludes'
        BY <3>1, <3>2, FS_EmptySet DEF RwCount, StateCountsHolders, WriterExcludes
      <3>4. RwTypeOK' /\ RwNoStranded' /\ RwQueuesAreExact' /\ AdmittedHaveOneWaker'
        BY <2>1, <2>4, <3>1 DEF RwPCs, RwNoStranded, RwQueuesAreExact, AdmittedHaveOneWaker
      <3>5. QED BY <3>3, <3>4
    <2>5. QED BY <2>2, <2>3, <2>4
  <1>8. ASSUME NEW t \in Tasks, RwResumeNext(t) PROVE RwIInv'
    BY <1>8, ResumesNext
  <1>9. CASE UNCHANGED rwVars
    BY <1>9 DEF rwVars, RwCount, StateCountsHolders, WriterExcludes, RwNoStranded,
       RwQueuesAreExact, AdmittedHaveOneWaker, Readers, Writers
  <1>10. QED
    BY <1>1, <1>2, <1>3, <1>4, <1>5, <1>6, <1>7, <1>8, <1>9 DEF RwNext, RwProgress

(* The inductive invariant always holds.                                    *)
LEMMA RwInductive == RwSpec => []RwIInv
  BY InitRwIInv, NextRwIInv, PTL DEF RwSpec

(* A writer never shares the mutex, also while those an unlock has admitted *)
(* are resumed one by one (shared_mutex_impl.cpp).                          *)
THEOREM SharedMutexExcludes == RwSpec => []WriterExcludes
  BY RwInductive, PTL DEF RwIInv

(* state_ counts the holders, and nobody is queued behind a mutex that no   *)
(* holder will pass on.                                                     *)
THEOREM SharedMutexCovers == RwSpec => [](StateCountsHolders /\ RwNoStranded)
  BY RwInductive, PTL DEF RwIInv, RwCount

(* The lists hold the suspended coroutines, each once, and who was admitted *)
(* is resumed by exactly one unlock.                                        *)
THEOREM SharedMutexWakesOnce == RwSpec => [](RwQueuesAreExact /\ AdmittedHaveOneWaker)
  BY RwInductive, PTL DEF RwIInv

(* While a writer is queued no reader gets in (shared_mutex.cppm:38).       *)
THEOREM SharedMutexWriterFirst == RwSpec => WriterPriority
  <1> DEFINE A == \A t \in Tasks : writers # << >> /\ t \notin Readers => t \notin Readers'
  <1>1. RwIInv /\ [RwNext]_rwVars => [A]_rwVars
    <2> SUFFICES ASSUME RwIInv, RwNext, NEW t \in Tasks, writers # << >>, t \notin Readers
                 PROVE  t \notin Readers'
      BY DEF rwVars
    <2> USE DEF RwIInv, RwTypeOK, Readers, RwGoto
    <2>1. ASSUME NEW s \in Tasks, LockSharedReady(s) \/ LockSharedSuspend(s) PROVE t \notin Readers'
      BY <2>1 DEF LockSharedReady, LockSharedSuspend, ReaderMayEnter
    <2>2. ASSUME NEW s \in Tasks, LockReady(s) \/ LockSuspend(s) \/ RwTryLock(s) PROVE t \notin Readers'
      BY <2>2 DEF LockReady, LockSuspend, RwTryLock
    <2>3. ASSUME NEW s \in Tasks, UnlockShared(s) \/ RwUnlock(s) PROVE t \notin Readers'
      BY <2>3 DEF UnlockShared, RwUnlock, AdmitWriter
    <2>4. ASSUME NEW s \in Tasks, RwResumeNext(s) PROVE t \notin Readers'
      BY <2>4 DEF RwResumeNext
    <2>5. QED BY <2>1, <2>2, <2>3, <2>4 DEF RwNext, RwProgress
  <1>2. RwSpec => [][A]_rwVars
    BY <1>1, RwInductive, PTL DEF RwSpec
  <1>3. QED BY <1>2 DEF WriterPriority

-----------------------------------------------------------------------------
(* async_wait_group                                                         *)

(* The list holds the suspended waiters, each once.                         *)
WgQueueIsExact ==
    /\ IsInjective(wgQueue)
    /\ \A t \in Members : Contains(wgQueue, t) <=> wgPc[t] = "queued"

(* A waiter that done() has taken off the list is resumed by one task, once.*)
DrainedHaveOneWaker ==
    /\ \A t \in Members : IsInjective(wgResume[t])
    /\ \A t \in Members : wgPc[t] = "wake" <=> wgResume[t] # << >>
    /\ \A t, w \in Members : Contains(wgResume[t], w) => wgPc[w] = "drained"
    /\ \A s, t, w \in Members : Contains(wgResume[s], w) /\ Contains(wgResume[t], w) => s = t
    /\ \A w \in Members : wgPc[w] = "drained" => \E t \in Members : Contains(wgResume[t], w)

WgIInv == WgTypeOK /\ WgNoStranded /\ WgQueueIsExact /\ DrainedHaveOneWaker

(* Every step of every coroutine preserves the invariant.                   *)
LEMMA NextWgIInv == WgIInv /\ [WgNext]_wgVars => WgIInv'
<1> SUFFICES ASSUME WgIInv, [WgNext]_wgVars PROVE WgIInv'
  OBVIOUS
<1> USE DEF WgIInv, WgTypeOK, WgNoStranded, WgQueueIsExact, DrainedHaveOneWaker, WgPCs, WgGoto
<1>1. ASSUME NEW t \in Members, NEW n \in 1 .. MaxUnits, Add(t, n) PROVE WgIInv'
  BY <1>1, WaitGroupAssumption DEF Add
<1>2. ASSUME NEW t \in Members, Done(t) PROVE WgIInv'
  <2>1. CASE pending = 1
    <3>1. zeroed' \in SUBSET Members
      BY <1>2, <2>1 DEF Done, Waiting
    <3>2. wgPc' = [wgPc EXCEPT ![t] = "drain"] /\ pending' = 0 /\ wgPc[t] = "idle"
          /\ UNCHANGED <<wgQueue, wgResume, added, rounds>>
      BY <1>2, <2>1 DEF Done
    <3> QED
      BY <3>1, <3>2
  <2>2. CASE pending # 1
    BY <1>2, <2>2 DEF Done
  <2> QED
    BY <2>1, <2>2
<1>3. ASSUME NEW t \in Members, Drain(t) PROVE WgIInv'
  <2>1. wgResume[t] = << >> /\ \A w \in Members : ~Contains(wgResume[t], w)
    BY <1>3, EmptyQueue DEF Drain
  <2>2. /\ wgQueue' = << >>
        /\ wgResume' = [wgResume EXCEPT ![t] = wgQueue]
        /\ wgPc' \in [Members -> WgPCs]
        /\ UNCHANGED <<pending, added, rounds, zeroed>>
    BY <1>3 DEF Drain
  <2>3. \A s \in Members : Contains(wgQueue, s) => s # t /\ wgPc'[s] = "drained"
    BY <1>3 DEF Drain
  <2>4. \A s \in Members : s # t /\ ~Contains(wgQueue, s) => wgPc'[s] = wgPc[s]
    BY <1>3 DEF Drain
  <2>5. wgPc'[t] = IF wgQueue = << >> THEN "idle" ELSE "wake"
    BY <1>3 DEF Drain
  <2>6. \A s \in Members : wgPc[s] = "queued" <=> Contains(wgQueue, s)
    OBVIOUS
  <2>7. WgTypeOK' /\ WgNoStranded'
    BY <2>2
  <2>8. WgQueueIsExact'
    BY <2>2, <2>3, <2>4, <2>5, <2>6, EmptyQueue
  <2>9. DrainedHaveOneWaker'
    <3>1. wgResume'[t] = wgQueue /\ \A s \in Members : s # t => wgResume'[s] = wgResume[s]
      BY <2>2
    <3>2. \A s \in Members : s # t => (wgPc'[s] = "wake" <=> wgPc[s] = "wake")
      BY <2>3, <2>4, <2>6
    <3>3. \A s \in Members : IsInjective(wgResume'[s])
      BY <3>1
    <3>4. \A s \in Members : wgPc'[s] = "wake" <=> wgResume'[s] # << >>
      BY <3>1, <3>2, <2>5
    <3>5. \A s, w \in Members : Contains(wgResume'[s], w) => wgPc'[w] = "drained"
      <4> SUFFICES ASSUME NEW s \in Members, NEW w \in Members, Contains(wgResume'[s], w)
                   PROVE  wgPc'[w] = "drained"
        OBVIOUS
      <4>1. CASE s = t
        BY <4>1, <3>1, <2>3
      <4>2. CASE s # t
        <5>1. wgPc[w] = "drained"
          BY <4>2, <3>1
        <5> QED
          BY <5>1, <2>4, <2>6, <1>3 DEF Drain
      <4> QED
        BY <4>1, <4>2
    <3>6. \A r, s, w \in Members : Contains(wgResume'[r], w) /\ Contains(wgResume'[s], w) => r = s
      <4>1. \A s, w \in Members : s # t /\ Contains(wgResume'[s], w) => ~Contains(wgQueue, w)
        BY <3>1, <2>6
      <4> QED
        BY <4>1, <3>1
    <3>7. \A w \in Members : wgPc'[w] = "drained" => \E s \in Members : Contains(wgResume'[s], w)
      <4> SUFFICES ASSUME NEW w \in Members, wgPc'[w] = "drained"
                   PROVE  \E s \in Members : Contains(wgResume'[s], w)
        OBVIOUS
      <4>1. CASE Contains(wgQueue, w)
        BY <4>1, <3>1
      <4>2. CASE ~Contains(wgQueue, w)
        <5>1. wgPc[w] = "drained"
          BY <4>2, <2>4, <2>5
        <5>2. PICK s \in Members : Contains(wgResume[s], w)
          BY <5>1
        <5>3. s # t
          BY <5>2, <2>1
        <5> QED
          BY <5>2, <5>3, <3>1
      <4> QED
        BY <4>1, <4>2
    <3> QED
      BY <3>3, <3>4, <3>5, <3>6, <3>7
  <2> QED
    BY <2>7, <2>8, <2>9
<1>4. ASSUME NEW t \in Members, WgResumeNext(t) PROVE WgIInv'
  <2> DEFINE q == wgResume[t]
             w == Head(q)
  <2>1. q \in Seq(Members) /\ q # << >> /\ IsInjective(q)
    BY <1>4 DEF WgResumeNext
  <2>2. /\ w \in Members /\ Contains(q, w) /\ Tail(q) \in Seq(Members) /\ IsInjective(Tail(q))
        /\ \A x : Contains(Tail(q), x) <=> (x # w /\ Contains(q, x))
    BY <2>1, TailQueue
  <2>3. wgPc[w] = "drained" /\ wgPc[t] = "wake" /\ w # t
    BY <2>2, <1>4 DEF WgResumeNext
  <2>4. /\ wgResume' = [wgResume EXCEPT ![t] = Tail(q)]
        /\ wgPc' = [wgPc EXCEPT ![t] = IF Tail(q) = << >> THEN "idle" ELSE "wake", ![w] = "idle"]
        /\ zeroed' = zeroed \ {w}
        /\ UNCHANGED <<pending, wgQueue, added, rounds>>
    BY <1>4 DEF WgResumeNext
  <2> HIDE DEF q, w
  <2>5. q = wgResume[t]
    BY DEF q
  <2>6. WgTypeOK' /\ WgQueueIsExact'
    BY <2>2, <2>3, <2>4
  <2>7. WgNoStranded'
    BY <2>2, <2>3, <2>4
  <2>8. DrainedHaveOneWaker'
    <3>1. /\ wgPc'[w] = "idle" /\ wgPc'[t] = IF Tail(q) = << >> THEN "idle" ELSE "wake"
          /\ \A s \in Members : s # t /\ s # w => wgPc'[s] = wgPc[s]
          /\ wgResume'[t] = Tail(q)
          /\ \A s \in Members : s # t => wgResume'[s] = wgResume[s]
      BY <2>2, <2>3, <2>4
    <3>2. /\ \A s \in Members : IsInjective(wgResume'[s])
          /\ \A s, x \in Members : Contains(wgResume'[s], x) => x # w /\ Contains(wgResume[s], x)
          /\ \A s, x \in Members : x # w /\ Contains(wgResume[s], x) => Contains(wgResume'[s], x)
      <4>1. \A s \in Members : s # t => ~Contains(wgResume[s], w)
        BY <2>2, <2>5
      <4>2. ASSUME NEW s \in Members, s = t
            PROVE  /\ IsInjective(wgResume'[s])
                   /\ \A x \in Members : Contains(wgResume'[s], x) <=> x # w /\ Contains(wgResume[s], x)
        BY <4>2, <2>2, <2>5, <3>1
      <4>3. ASSUME NEW s \in Members, s # t
            PROVE  /\ IsInjective(wgResume'[s])
                   /\ \A x \in Members : Contains(wgResume'[s], x) <=> x # w /\ Contains(wgResume[s], x)
        BY <4>3, <4>1, <3>1
      <4> QED
        BY <4>2, <4>3
    <3>3. \A s \in Members : wgPc'[s] = "wake" <=> wgResume'[s] # << >>
      <4>1. wgPc'[t] = "wake" <=> wgResume'[t] # << >>
        BY <3>1
      <4>2. wgPc'[w] # "wake" /\ wgResume'[w] = << >>
        BY <2>2, <2>3, <3>1
      <4>3. ASSUME NEW s \in Members, s # t, s # w
            PROVE  wgPc'[s] = "wake" <=> wgResume'[s] # << >>
        BY <4>3, <3>1
      <4> QED
        BY <4>1, <4>2, <4>3
    <3>4. \A s, x \in Members : Contains(wgResume'[s], x) => wgPc'[x] = "drained"
      <4>1. \A s, x \in Members : Contains(wgResume[s], x) => wgPc[x] = "drained" /\ x # t
        BY <2>3
      <4> QED
        BY <3>1, <3>2, <4>1
    <3>5. \A r, s, x \in Members : Contains(wgResume'[r], x) /\ Contains(wgResume'[s], x) => r = s
      BY <3>2
    <3>6. \A x \in Members : wgPc'[x] = "drained" => \E s \in Members : Contains(wgResume'[s], x)
      <4>1. \A x \in Members : wgPc'[x] = "drained" => x # w /\ wgPc[x] = "drained"
        BY <3>1
      <4> QED
        BY <4>1, <3>2
    <3> QED
      BY <3>2, <3>3, <3>4, <3>5, <3>6
  <2> QED
    BY <2>6, <2>7, <2>8
<1>5. ASSUME NEW t \in Members, WaitReady(t) PROVE WgIInv'
  BY <1>5 DEF WaitReady
<1>6. ASSUME NEW t \in Members, WaitSuspend(t) PROVE WgIInv'
  <2>1. CASE pending = 0
    <3>1. /\ wgPc' = [wgPc EXCEPT ![t] = "idle"] /\ wgPc[t] = "suspending"
          /\ zeroed' = zeroed \ {t}
          /\ UNCHANGED <<pending, wgQueue, wgResume, added, rounds>>
      BY <1>6, <2>1 DEF WaitSuspend
    <3>2. \A s \in Members : wgPc'[s] # wgPc[s] => s = t /\ wgPc'[s] = "idle"
      BY <3>1
    <3> QED
      BY <3>1, <3>2
  <2>2. CASE pending # 0
    <3>1. ~Contains(wgQueue, t)
      BY <1>6 DEF WaitSuspend
    <3>2. /\ Append(wgQueue, t) \in Seq(Members) /\ IsInjective(Append(wgQueue, t))
          /\ \A x : Contains(Append(wgQueue, t), x) <=> (x = t \/ Contains(wgQueue, x))
      BY <3>1, AppendQueue
    <3>3. /\ wgQueue' = Append(wgQueue, t) /\ wgPc' = [wgPc EXCEPT ![t] = "queued"]
          /\ wgPc[t] = "suspending" /\ UNCHANGED <<pending, wgResume, added, rounds, zeroed>>
      BY <1>6, <2>2 DEF WaitSuspend
    <3> QED
      BY <3>2, <3>3, <2>2
  <2> QED
    BY <2>1, <2>2
<1>7. CASE UNCHANGED wgVars
  BY <1>7 DEF wgVars
<1> QED
  BY <1>1, <1>2, <1>3, <1>4, <1>5, <1>6, <1>7 DEF WgNext, WgProgress, Members

(* A new wait group.                                                        *)
LEMMA WgInductive == WgSpec => []WgIInv
<1>1. WgInit => WgIInv
  BY EmptyQueue DEF WgInit, WgIInv, WgTypeOK, WgNoStranded, WgQueueIsExact, DrainedHaveOneWaker, WgPCs
<1> QED
  BY <1>1, NextWgIInv, PTL DEF WgSpec

(* However add(), done() and wait() interleave, over any number of rounds:  *)
(* a queued waiter has pending work or a done() that will take it off the   *)
(* list, and whoever was taken off is resumed by exactly one task           *)
(* (wait_group_impl.cpp:40-75).  That it may be too early is another matter.*)
THEOREM WaitGroupCovers == WgSpec => [](WgNoStranded /\ WgQueueIsExact /\ DrainedHaveOneWaker)
  BY WgInductive, PTL DEF WgIInv

-----------------------------------------------------------------------------
(* circuit_breaker                                                          *)

(* While the breaker is half-open every success it counts was reported      *)
(* since it last opened and the timeout elapsed; while it is open the count *)
(* is only kept until the next half-open period begins.                     *)
CbIInv ==
    /\ circuit \in {"closed", "open", "half_open"}
    /\ successes \in Nat /\ proofs \in Nat
    /\ circuit = "half_open" => successes <= proofs

(* A new breaker, and every operation on it.                                *)
LEMMA CbInductive == CbSpec => []CbIInv
<1>1. CbInit => CbIInv
  BY DEF CbInit, CbIInv
<1>2. CbIInv /\ [CbNext]_cbVars => CbIInv'
  <2> SUFFICES ASSUME CbIInv, [CbNext]_cbVars PROVE CbIInv'
    OBVIOUS
  <2> USE BreakerAssumption DEF CbIInv, OpenNow, CloseNow, Proven, Effective, Counted
  <2>1. ASSUME NEW t \in Tasks, PreExecute(t) PROVE CbIInv'
    BY <2>1 DEF PreExecute
  <2>2. ASSUME NEW t \in Tasks, OnSuccess(t) PROVE CbIInv'
    BY <2>2 DEF OnSuccess
  <2>3. ASSUME NEW t \in Tasks, OnFailure(t) PROVE CbIInv'
    BY <2>3 DEF OnFailure
  <2>4. ASSUME Elapse \/ Trip \/ Reset PROVE CbIInv'
    BY <2>4 DEF Elapse, Trip, Reset
  <2>5. CASE UNCHANGED cbVars
    BY <2>5 DEF cbVars
  <2> QED
    BY <2>1, <2>2, <2>3, <2>4, <2>5 DEF CbNext
<1> QED
  BY <1>1, <1>2, PTL DEF CbSpec

(* Whatever calls are under way and from whichever period their results     *)
(* come, the breaker closes only on SuccessThreshold successes reported     *)
(* since it opened, or on reset() (circuit_breaker_impl.cpp).               *)
THEOREM BreakerClosesOnEvidence == CbSpec => ClosesOnEvidence
<1>1. CbIInv /\ [CbNext]_cbVars =>
         [circuit # "closed" /\ circuit' = "closed" => proofs' >= SuccessThreshold]_cbVars
  <2> SUFFICES ASSUME CbIInv, CbNext, circuit # "closed", circuit' = "closed"
               PROVE  proofs' >= SuccessThreshold
    OBVIOUS
  <2> USE BreakerAssumption DEF CbIInv, OpenNow, CloseNow, Proven, Effective, Counted
  <2>1. ASSUME NEW t \in Tasks, PreExecute(t) PROVE FALSE
    BY <2>1 DEF PreExecute
  <2>2. ASSUME NEW t \in Tasks, OnSuccess(t) PROVE proofs' >= SuccessThreshold
    BY <2>2 DEF OnSuccess
  <2>3. ASSUME NEW t \in Tasks, OnFailure(t) PROVE FALSE
    BY <2>3 DEF OnFailure
  <2>4. ASSUME Elapse \/ Trip \/ Reset PROVE proofs' >= SuccessThreshold
    BY <2>4 DEF Elapse, Trip, Reset
  <2> QED
    BY <2>1, <2>2, <2>3, <2>4 DEF CbNext
<1> QED
  BY CbInductive, <1>1, PTL DEF CbSpec, ClosesOnEvidence
=============================================================================
