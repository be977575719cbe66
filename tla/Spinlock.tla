------------------------------ MODULE Spinlock ------------------------------
(***************************************************************************)
(* The three-state spinlock that guards the waiter queue of every coroutine *)
(* primitive (src/coro/mutex_impl.cpp and its copies in semaphore, shared   *)
(* mutex, wait group and channel).  The word is 0 when free, 1 when held    *)
(* and 2 when held while a contender may sleep; only an unlock that finds 2 *)
(* pays for a wake-up.  One action is one atomic operation on the word.     *)
(***************************************************************************)
EXTENDS Naturals, FiniteSets

CONSTANT Threads

VARIABLES
    word,  \* the atomic word: 0, 1 or 2
    spinPc      \* where each thread is inside lock() or unlock()

spinVars == <<word, spinPc>>

(* "out" (not using the lock), "advertise" (saw 1, about to exchange 2),    *)
(* "wait" (about to evaluate wait(2)), "asleep" (parked by the platform),   *)
(* "reacquire" (woken, about to exchange 2), "held", and "notify" (released *)
(* the word, about to call notify_one).                                     *)
SpinPCs == {"out", "advertise", "wait", "asleep", "reacquire", "held", "notify"}

SpinAt(l) == {t \in Threads : spinPc[t] = l}
SpinGoto(t, l) == spinPc' = [spinPc EXCEPT ![t] = l]

SpinInit ==
    /\ word = 0
    /\ spinPc = [t \in Threads |-> "out"]

-----------------------------------------------------------------------------
(* lock(): the first compare-exchange.  Seeing 2, the contender need not    *)
(* advertise again.                                                         *)
SpinTryLock(t) ==
    /\ spinPc[t] = "out"
    /\ \/ word = 0 /\ word' = 1 /\ SpinGoto(t, "held")
       \/ word = 1 /\ UNCHANGED word /\ SpinGoto(t, "advertise")
       \/ word = 2 /\ UNCHANGED word /\ SpinGoto(t, "wait")

(* Faults: taking a word of 1 for a free lock; a woken thread that stores 1 *)
(* and forgets the other sleepers.                                          *)
ExchangeSteals(t) ==
    /\ spinPc[t] \in {"advertise", "reacquire"}
    /\ word' = 2
    /\ SpinGoto(t, IF word <= 1 THEN "held" ELSE "wait")

ExchangeForgets(t) ==
    /\ spinPc[t] \in {"advertise", "reacquire"}
    /\ word' = IF word = 0 THEN 1 ELSE 2
    /\ SpinGoto(t, IF word = 0 THEN "held" ELSE "wait")

(* exchange(2): the caller owns the lock when the word was 0.               *)
Exchange(t) ==
    /\ spinPc[t] \in {"advertise", "reacquire"}
    /\ word' = 2
    /\ SpinGoto(t, IF word = 0 THEN "held" ELSE "wait")

(* state_.wait(2): parks only while the word is still 2.                    *)
Wait(t) ==
    /\ spinPc[t] = "wait"
    /\ SpinGoto(t, IF word = 2 THEN "asleep" ELSE "reacquire")
    /\ UNCHANGED word

(* Fault: releasing without a wake-up.                                      *)
UnlockSilent(t) == spinPc[t] = "held" /\ word' = 0 /\ SpinGoto(t, "out")

(* unlock(): exchange(0), and a wake-up when somebody may sleep.            *)
SpinUnlock(t) ==
    /\ spinPc[t] = "held"
    /\ word' = 0
    /\ SpinGoto(t, IF word = 2 THEN "notify" ELSE "out")

(* notify_one() wakes at most one sleeper, which evaluates wait(2) again.   *)
Notify(t) ==
    /\ spinPc[t] = "notify"
    /\ IF SpinAt("asleep") = {}
       THEN SpinGoto(t, "out")
       ELSE \E s \in SpinAt("asleep") :
               spinPc' = [spinPc EXCEPT ![t] = "out", ![s] = "wait"]
    /\ UNCHANGED word

-----------------------------------------------------------------------------
SpinStep(t) == SpinTryLock(t) \/ Exchange(t) \/ Wait(t) \/ SpinUnlock(t) \/ Notify(t)

SpinNext == \E t \in Threads : SpinStep(t)

(* A thread inside lock() or unlock() keeps running; nobody has to call     *)
(* lock() at all.                                                           *)
SpinProgress(t) == Exchange(t) \/ Wait(t) \/ SpinUnlock(t) \/ Notify(t)

SpinSpec == SpinInit /\ [][SpinNext]_spinVars /\ \A t \in Threads : WF_spinVars(SpinProgress(t))

-----------------------------------------------------------------------------
(* The word stays within its three values (mutex.cppm:20-31).               *)
SpinTypeOK ==
    /\ word \in 0..2
    /\ spinPc \in [Threads -> SpinPCs]

(* At most one thread is between lock() and unlock() (mutex_impl.cpp:6-27). *)
SpinExclusion == \A s, t \in SpinAt("held") : s = t

(* The word tells the truth about its holder: it is 0 exactly when nobody   *)
(* is between a successful exchange and the releasing one.                  *)
WordMatchesHolder == (word = 0) <=> (SpinAt("held") = {})

(* No lost wake-up: a parked thread is always covered by a word of 2, whose *)
(* unlock will notify, or by another thread already on its way to notify or *)
(* to put the word back to 2 (the comment at mutex_impl.cpp:12-13).         *)
NoLostWakeup ==
    SpinAt("asleep") # {} =>
        \/ word = 2
        \/ \E t \in Threads : spinPc[t] \in {"advertise", "wait", "reacquire", "notify"}

(* The lock is never stuck while somebody wants it: a thread inside lock()  *)
(* leads to some thread holding it.                                         *)
LockIsGranted ==
    (\E t \in Threads : spinPc[t] \in {"advertise", "wait", "asleep", "reacquire"})
        ~> (SpinAt("held") # {})

(* The spinlock implements the abstract lock.                               *)
SpinAbstract == INSTANCE AtomicLock WITH Clients <- Threads, holders <- SpinAt("held")
(* Every atomic operation is a step of the abstract lock or leaves it       *)
(* alone.                                                                   *)
SpinImplementsLock == SpinAbstract!Spec
=============================================================================
