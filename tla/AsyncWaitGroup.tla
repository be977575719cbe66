--------------------------- MODULE AsyncWaitGroup ---------------------------
(***************************************************************************)
(* async_wait_group (src/coro/wait_group_impl.cpp).  done() decrements the  *)
(* atomic count and, having reached zero, takes the queue lock in a second  *)
(* step to steal the waiter list; wait() looks at the count in await_ready  *)
(* without the lock and again in await_suspend under it.                    *)
(***************************************************************************)
EXTENDS Naturals, Sequences, SequencesExt

CONSTANTS
    Workers,    \* coroutines that complete units of work
    Waiters,    \* coroutines that add work and wait for it
    MaxUnits,   \* bound: units of work added in all
    MaxRounds   \* bound: how often the group goes from zero to pending

ASSUME WaitGroupAssumption ==
    /\ Workers \cap Waiters = {}
    /\ MaxUnits \in Nat \ {0}
    /\ MaxRounds \in Nat \ {0}

Members == Workers \cup Waiters

VARIABLES
    pending,   \* count_
    wgQueue,   \* the waiter list head_ .. tail_
    wgResume,  \* resume[t]: waiters t has stolen and has yet to resume
    added,   \* units of work added so far
    rounds,  \* rounds started so far
    zeroed,  \* history: tasks whose current wait() has seen a count of zero
    wgPc

wgVars == <<pending, wgQueue, wgResume, added, rounds, zeroed, wgPc>>

WgPCs == {"idle", "suspending", "queued", "drained", "drain", "wake"}

Waiting == {t \in Members : wgPc[t] \in {"suspending", "queued", "drained"}}

WgGoto(t, l) == wgPc' = [wgPc EXCEPT ![t] = l]

WgInit ==
    /\ pending = 0
    /\ wgQueue = << >>
    /\ wgResume = [t \in Members |-> << >>]
    /\ added = 0
    /\ rounds = 0
    /\ zeroed = {}
    /\ wgPc = [t \in Members |-> "idle"]

-----------------------------------------------------------------------------
(* add(n).  A caller starts a new round only when every earlier wait() has  *)
(* returned: the weakest discipline that makes reuse meaningful.            *)
Add(t, n) ==
    /\ wgPc[t] = "idle"
    /\ added + n <= MaxUnits
    /\ added' = added + n
    /\ IF pending = 0
       THEN Waiting = {} /\ rounds < MaxRounds /\ rounds' = rounds + 1
       ELSE UNCHANGED rounds
    /\ pending' = pending + n
    /\ UNCHANGED <<wgQueue, wgResume, zeroed, wgPc>>

(* done(): the fetch_sub.  Each call completes one added unit.              *)
Done(t) ==
    /\ wgPc[t] = "idle"
    /\ pending > 0
    /\ pending' = pending - 1
    /\ IF pending = 1
       THEN WgGoto(t, "drain") /\ zeroed' = zeroed \cup Waiting
       ELSE UNCHANGED <<zeroed, wgPc>>
    /\ UNCHANGED <<wgQueue, wgResume, added, rounds>>

(* Fault: only the first waiter is resumed.                                 *)
DrainFirst(t) ==
    /\ wgPc[t] = "drain"
    /\ wgResume' = [wgResume EXCEPT ![t] = IF wgQueue = << >> THEN << >> ELSE <<Head(wgQueue)>>]
    /\ wgQueue' = << >>
    /\ wgPc' = [s \in Members |-> IF s = t THEN (IF wgQueue = << >> THEN "idle" ELSE "wake")
                              ELSE IF Contains(wgQueue, s) THEN "drained"
                              ELSE wgPc[s]]
    /\ UNCHANGED <<pending, added, rounds, zeroed>>

(* done(), having reached zero: steal the list under the lock.              *)
Drain(t) ==
    /\ wgPc[t] = "drain"
    /\ wgResume' = [wgResume EXCEPT ![t] = wgQueue]
    /\ wgQueue' = << >>
    /\ wgPc' = [s \in Members |-> IF s = t THEN (IF wgQueue = << >> THEN "idle" ELSE "wake")
                              ELSE IF Contains(wgQueue, s) THEN "drained"
                              ELSE wgPc[s]]
    /\ UNCHANGED <<pending, added, rounds, zeroed>>

(* Outside the lock, resume or post the stolen waiters one by one; wait()   *)
(* returns in a resumed one.                                                *)
WgResumeNext(t) ==
    /\ wgPc[t] = "wake"
    /\ LET w == Head(wgResume[t])
           rest == Tail(wgResume[t])
       IN /\ wgResume' = [wgResume EXCEPT ![t] = rest]
          /\ wgPc' = [wgPc EXCEPT ![t] = IF rest = << >> THEN "idle" ELSE "wake",
                              ![w] = "idle"]
          /\ zeroed' = zeroed \ {w}
    /\ UNCHANGED <<pending, wgQueue, added, rounds>>

(* co_await wait(): await_ready() returns at once at zero.                  *)
WaitReady(t) ==
    /\ wgPc[t] = "idle"
    /\ pending > 0
    /\ WgGoto(t, "suspending")
    /\ UNCHANGED <<pending, wgQueue, wgResume, added, rounds, zeroed>>

(* await_suspend(), under the queue lock: look again, then queue.           *)
WaitSuspend(t) ==
    /\ wgPc[t] = "suspending"
    /\ IF pending = 0
       THEN WgGoto(t, "idle") /\ zeroed' = zeroed \ {t} /\ UNCHANGED wgQueue
       ELSE wgQueue' = Append(wgQueue, t) /\ WgGoto(t, "queued") /\ UNCHANGED zeroed
    /\ UNCHANGED <<pending, wgResume, added, rounds>>

-----------------------------------------------------------------------------
WgProgress(t) == WaitSuspend(t) \/ Drain(t) \/ WgResumeNext(t)

WgNext ==
    \/ \E t \in Workers : Done(t)
    \/ \E t \in Waiters : WaitReady(t) \/ \E n \in 1 .. MaxUnits : Add(t, n)
    \/ \E t \in Members : WgProgress(t)

(* Calls in progress run on, and every added unit is eventually completed;  *)
(* nobody has to call add() or wait().                                      *)
WgSpec ==
    /\ WgInit /\ [][WgNext]_wgVars
    /\ \A t \in Members : WF_wgVars(WgProgress(t))
    /\ WF_wgVars(\E t \in Workers : Done(t))

-----------------------------------------------------------------------------
(* The count never goes below zero (wait_group_impl.cpp:45-48).             *)
WgTypeOK ==
    /\ pending \in Nat
    /\ wgQueue \in Seq(Members)
    /\ wgResume \in [Members -> Seq(Members)]
    /\ added \in Nat
    /\ rounds \in Nat
    /\ zeroed \in SUBSET Members
    /\ wgPc \in [Members -> WgPCs]

(* A queued waiter is never forgotten: there is pending work whose done()   *)
(* will drain the list, or a done() that is about to.                       *)
WgNoStranded ==
    wgQueue # << >> => pending > 0 \/ \E t \in Members : wgPc[t] = "drain"

(* "co_await wait(): Resumes when count reaches zero" (wait_group.cppm:34): *)
(* a waiter taken off the list to be resumed has seen the count at zero     *)
(* since it began to wait.                                                  *)
WaitSeesZero == \A t \in Members : wgPc[t] = "drained" => t \in zeroed

(* Every wait() returns.                                                    *)
WaitReturns == \A t \in Members : (wgPc[t] = "queued") ~> (wgPc[t] = "idle")
=============================================================================
