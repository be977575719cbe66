-------------------------- MODULE AsyncSharedMutex --------------------------
(***************************************************************************)
(* async_shared_mutex (src/coro/shared_mutex_impl.cpp): a read-write lock   *)
(* with writer priority.  Everything but the resumptions happens under the  *)
(* spinlock, so a guarded region is one action; the suspension of a lock()  *)
(* and the resumptions of an unlock() are separate steps.                   *)
(***************************************************************************)
EXTENDS Coroutines, Integers, Sequences, SequencesExt, FiniteSets

VARIABLES
    rwState,   \* state_: 0 free, n > 0 readers, -1 a writer
    readers, \* the list read_head_ .. read_tail_
    writers, \* the list write_head_ .. write_tail_
    rwResume,  \* resume[t]: waiters t has admitted and has yet to resume
    rwPc

rwVars == <<rwState, readers, writers, rwResume, rwPc>>

(* rwPc[t] is "idle"; "rsuspend"/"wsuspend": await_ready() said no;           *)
(* "rqueued"/"wqueued": in a list; "rgranted"/"wgranted": admitted by an    *)
(* unlock, not yet resumed; "reader"/"writer": running with the lock;       *)
(* "wake": resuming waiters.                                                *)

RwPCs == {"idle", "rsuspend", "wsuspend", "rqueued", "wqueued", "rgranted", "wgranted",
          "reader", "writer", "wake"}

RwGoto(t, l) == rwPc' = [rwPc EXCEPT ![t] = l]

Readers == {t \in Tasks : rwPc[t] \in {"reader", "rgranted"}}
Writers == {t \in Tasks : rwPc[t] \in {"writer", "wgranted"}}

RwInit ==
    /\ rwState = 0
    /\ readers = << >>
    /\ writers = << >>
    /\ rwResume = [t \in Tasks |-> << >>]
    /\ rwPc = [t \in Tasks |-> "idle"]

-----------------------------------------------------------------------------
(* Faults: looking at one half of the condition only.                       *)
EnterBesideWriter == writers = << >>
EnterPastWriters == rwState >= 0

(* The condition under which a reader gets in, in await_ready() and again   *)
(* in await_suspend().                                                      *)
ReaderMayEnter == rwState >= 0 /\ writers = << >>

LockSharedReady(t) ==
    /\ rwPc[t] = "idle"
    /\ IF ReaderMayEnter
       THEN rwState' = rwState + 1 /\ RwGoto(t, "reader")
       ELSE UNCHANGED rwState /\ RwGoto(t, "rsuspend")
    /\ UNCHANGED <<readers, writers, rwResume>>

LockSharedSuspend(t) ==
    /\ rwPc[t] = "rsuspend"
    /\ IF ReaderMayEnter
       THEN rwState' = rwState + 1 /\ RwGoto(t, "reader") /\ UNCHANGED readers
       ELSE readers' = Append(readers, t) /\ RwGoto(t, "rqueued") /\ UNCHANGED rwState
    /\ UNCHANGED <<writers, rwResume>>

LockReady(t) ==
    /\ rwPc[t] = "idle"
    /\ IF rwState = 0
       THEN rwState' = -1 /\ RwGoto(t, "writer")
       ELSE UNCHANGED rwState /\ RwGoto(t, "wsuspend")
    /\ UNCHANGED <<readers, writers, rwResume>>

LockSuspend(t) ==
    /\ rwPc[t] = "wsuspend"
    /\ IF rwState = 0
       THEN rwState' = -1 /\ RwGoto(t, "writer") /\ UNCHANGED writers
       ELSE writers' = Append(writers, t) /\ RwGoto(t, "wqueued") /\ UNCHANGED rwState
    /\ UNCHANGED <<readers, rwResume>>

(* try_lock(): failing leaves no trace.                                     *)
RwTryLock(t) ==
    /\ rwPc[t] = "idle"
    /\ rwState = 0
    /\ rwState' = -1
    /\ RwGoto(t, "writer")
    /\ UNCHANGED <<readers, writers, rwResume>>

(* Both unlocks may pass the lock to the first waiting writer.              *)
AdmitWriter(t) ==
    /\ rwState' = -1
    /\ writers' = Tail(writers)
    /\ rwResume' = [rwResume EXCEPT ![t] = <<Head(writers)>>]
    /\ rwPc' = [rwPc EXCEPT ![t] = "wake", ![Head(writers)] = "wgranted"]
    /\ UNCHANGED readers

(* unlock_shared(), also run by ~async_shared_lock_guard(): the last reader *)
(* out admits the first waiting writer.                                     *)
UnlockShared(t) ==
    /\ rwPc[t] = "reader"
    /\ IF rwState = 1 /\ writers # << >>
       THEN AdmitWriter(t)
       ELSE rwState' = rwState - 1 /\ RwGoto(t, "idle") /\ UNCHANGED <<readers, writers, rwResume>>

(* A writer's unlock may admit every waiting reader at once.                *)
AdmitReaders(t) ==
    /\ readers' = << >>
    /\ rwResume' = [rwResume EXCEPT ![t] = readers]
    /\ rwPc' = [s \in Tasks |-> IF s = t THEN "wake"
                              ELSE IF Contains(readers, s) THEN "rgranted"
                              ELSE rwPc[s]]
    /\ UNCHANGED writers

(* unlock(), also run by ~async_unique_lock_guard(): the next writer, or    *)
(* else every waiting reader, or else nobody.                               *)
RwUnlock(t) ==
    /\ rwPc[t] = "writer"
    /\ \/ writers # << >> /\ AdmitWriter(t)
       \/ writers = << >> /\ readers # << >> /\ AdmitReaders(t) /\ rwState' = Len(readers)
       \/ /\ writers = << >> /\ readers = << >>
          /\ rwState' = 0 /\ RwGoto(t, "idle") /\ UNCHANGED <<readers, writers, rwResume>>

(* Outside the lock: resume, or post to their loops, the admitted waiters   *)
(* one after the other.                                                     *)
RwResumeNext(t) ==
    /\ rwPc[t] = "wake"
    /\ LET w == Head(rwResume[t])
           rest == Tail(rwResume[t])
       IN /\ rwResume' = [rwResume EXCEPT ![t] = rest]
          /\ rwPc' = [rwPc EXCEPT ![t] = IF rest = << >> THEN "idle" ELSE "wake",
                              ![w] = IF rwPc[w] = "rgranted" THEN "reader" ELSE "writer"]
    /\ UNCHANGED <<rwState, readers, writers>>

-----------------------------------------------------------------------------
RwProgress(t) ==
    \/ LockSharedSuspend(t) \/ LockSuspend(t)
    \/ UnlockShared(t) \/ RwUnlock(t) \/ RwResumeNext(t)

RwNext ==
    \E t \in Tasks :
       LockSharedReady(t) \/ LockReady(t) \/ RwTryLock(t) \/ RwProgress(t)

(* A coroutine inside a call runs on and a holder unlocks; nobody has to    *)
(* ask for the lock.                                                        *)
RwSpec == RwInit /\ [][RwNext]_rwVars /\ \A t \in Tasks : WF_rwVars(RwProgress(t))

-----------------------------------------------------------------------------
(* The state word, the two lists and the lists of those to resume.          *)
RwTypeOK ==
    /\ rwState \in Int
    /\ readers \in Seq(Tasks) /\ writers \in Seq(Tasks)
    /\ rwResume \in [Tasks -> Seq(Tasks)]
    /\ rwPc \in [Tasks -> RwPCs]

(* A writer excludes readers and other writers, counting those admitted and *)
(* not yet resumed.                                                         *)
WriterExcludes ==
    /\ Writers # {} => Readers = {}
    /\ \A s, t \in Writers : s = t

(* state_ counts the holders, also while admitted waiters are still being   *)
(* resumed one by one.                                                      *)
StateCountsHolders == rwState = IF Writers # {} THEN -1 ELSE Cardinality(Readers)

(* Nobody waits for a lock that no holder will pass on: a queued writer     *)
(* means a holder, a queued reader means a writer holding or queued.        *)
RwNoStranded ==
    /\ writers # << >> => rwState # 0
    /\ readers # << >> => rwState = -1 \/ writers # << >>

(* The two lists hold every suspended coroutine exactly once.               *)
RwQueuesAreExact ==
    /\ \A t \in Tasks : rwPc[t] = "rqueued" <=> Contains(readers, t)
    /\ \A t \in Tasks : rwPc[t] = "wqueued" <=> Contains(writers, t)
    /\ IsInjective(readers) /\ IsInjective(writers)

(* Who was admitted is resumed, once, and by one task: while it sleeps it   *)
(* is in the resume list of exactly one unlock under way.                   *)
AdmittedHaveOneWaker ==
    /\ \A s \in Tasks : rwPc[s] \in {"rgranted", "wgranted"}
                          <=> \E t \in Tasks : Contains(rwResume[t], s)
    /\ \A s, t, w \in Tasks : Contains(rwResume[s], w) /\ Contains(rwResume[t], w) => s = t
    /\ \A t \in Tasks : IsInjective(rwResume[t])
    /\ \A t \in Tasks : rwPc[t] = "wake" <=> rwResume[t] # << >>

(* Writer priority (shared_mutex.cppm:38): while a writer is queued, no     *)
(* reader gets in.                                                          *)
WriterPriority ==
    [][\A t \in Tasks : writers # << >> /\ t \notin Readers => t \notin Readers']_rwVars

(* Writer priority "prevents writer starvation" (shared_mutex.cppm:38).     *)
WriterIsServed == \A t \in Tasks : (rwPc[t] = "wqueued") ~> (rwPc[t] = "writer")
=============================================================================
