---------------------------- MODULE MCPrimitives ----------------------------
(***************************************************************************)
(* The synchronisation primitives for TLC.  They share no state, so a       *)
(* behaviour runs one of them, and the others rest in their initial states, *)
(* in which none of their fairness conditions asks for a step.              *)
(***************************************************************************)
EXTENDS Spinlock, AsyncMutex, AsyncSemaphore, AsyncSharedMutex, AsyncWaitGroup

VARIABLE active  \* the primitive under test

allVars == <<active, spinVars, vars, semVars, rwVars, wgVars>>

MCInit ==
    /\ active \in {"spinlock", "mutex", "semaphore", "shared_mutex", "wait_group"}
    /\ SpinInit /\ Init /\ SemInit /\ RwInit /\ WgInit

(* The bounded use of the wait group may end, with nobody left inside it.   *)
WgFinished == active = "wait_group" /\ pending = 0 /\ \A t \in Members : wgPc[t] = "idle"

MCNext ==
    \/ active = "spinlock" /\ SpinNext /\ UNCHANGED <<active, vars, semVars, rwVars, wgVars>>
    \/ active = "mutex" /\ Next /\ UNCHANGED <<active, spinVars, semVars, rwVars, wgVars>>
    \/ active = "semaphore" /\ SemNext /\ UNCHANGED <<active, spinVars, vars, rwVars, wgVars>>
    \/ active = "shared_mutex" /\ RwNext /\ UNCHANGED <<active, spinVars, vars, semVars, wgVars>>
    \/ active = "wait_group" /\ WgNext /\ UNCHANGED <<active, spinVars, vars, semVars, rwVars>>
    \/ WgFinished /\ UNCHANGED allVars

(* The fairness of each primitive's own specification.                      *)
MCSpec ==
    /\ MCInit /\ [][MCNext]_allVars
    /\ \A t \in Threads : WF_spinVars(SpinProgress(t))
    /\ \A t \in Tasks : /\ WF_vars(Progress(t))
                        /\ WF_semVars(SemProgress(t))
                        /\ WF_rwVars(RwProgress(t))
    /\ \A t \in Members : WF_wgVars(WgProgress(t))
    /\ WF_wgVars(\E t \in Workers : Done(t))
=============================================================================
