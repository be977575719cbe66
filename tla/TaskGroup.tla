------------------------------ MODULE TaskGroup ------------------------------
(***************************************************************************)
(* task_group (src/coro/task_group.cppm, task_group.cpp) and the tokens it  *)
(* hands out: children that run, fail or are cancelled on any thread, the   *)
(* sweeps that cancel them, and the reuse of slots and tokens.  A region    *)
(* under the latch, and an atomic operation of a token, is one action.      *)
(*                                                                          *)
(* A child's operation uses its token the way the awaiters do that register *)
(* a callback: it registers, completes or is told, and may register again.  *)
(***************************************************************************)
EXTENDS CancelToken, Naturals, Sequences, FiniteSets, FiniteSetsExt

CONSTANT Children   \* the operations given to run()

ASSUME TgAssumption == IsFiniteSet(Children) /\ Nobody \notin Children

(* Whoever may sweep: a child that fails, join()'s deadline watcher, and a  *)
(* caller of cancel().                                                      *)
Sweepers == Children \cup {"caller", "deadline"}

(* shared_ptr control blocks.  Bound: as many as can be referred to at once *)
(* (by slots, by retired children or sweeping ones, by the two other        *)
(* sweeps) and one more.                                                    *)
TokenIds == 1 .. 2 * Cardinality(Children) + 2

VARIABLES
    tok,         \* tok[i]: the state of token i
    slots,       \* tokens: sequence of [token, active]
    firstFree,   \* the free list through first_free and next_free
    child,       \* child[c]: where the child is, its slot and its token
    sweep,       \* sweep[s]: where the sweep is, index, count, token held
    failed,      \* first_error is set
    joining,     \* joining
    running,     \* the count of the wait group
    hit          \* history: the children a sweep has picked

tgVars == <<tok, slots, firstFree, child, sweep, failed, joining, running, hit>>

TgInit ==
    /\ tok = [i \in TokenIds |-> FreshToken]
    /\ slots = << >> /\ firstFree = << >>
    /\ child = [c \in Children |-> [at |-> "new", slot |-> 0, token |-> 0]]
    /\ sweep = [s \in Sweepers |-> [at |-> "idle", i |-> 0, n |-> 0, token |-> 0]]
    /\ failed = FALSE /\ joining = FALSE /\ running = 0
    /\ hit = {}

(* use_count() of a token: its slot, the frame of its child, a sweep.       *)
Holders(i) ==
    Cardinality({k \in DOMAIN slots : slots[k].token = i})
    + Cardinality({c \in Children : child[c].token = i})
    + Cardinality({s \in Sweepers : sweep[s].token = i})

Unheld == {i \in TokenIds : Holders(i) = 0}
MakeShared == Min(Unheld)

(* Fault: a token is recycled whoever else still has it.                    *)
RecycledAlways(k) == slots[k].token

(* Only a token that the slot alone owns is recycled.                       *)
Recycled(k) == IF Holders(slots[k].token) = 1 THEN slots[k].token ELSE MakeShared

-----------------------------------------------------------------------------
Run(c) ==
    LET k == IF firstFree = << >> THEN Len(slots) + 1 ELSE Head(firstFree)
        t == IF firstFree = << >> THEN MakeShared ELSE Recycled(k)
        entry == [token |-> t, active |-> TRUE]
    IN /\ child[c].at = "new" /\ ~joining /\ Unheld # {}
       /\ slots' = IF k > Len(slots) THEN Append(slots, entry) ELSE [slots EXCEPT ![k] = entry]
       /\ firstFree' = IF firstFree = << >> THEN firstFree ELSE Tail(firstFree)
       /\ tok' = [tok EXCEPT ![t] = FreshToken]
       /\ child' = [child EXCEPT ![c] = [at |-> "running", slot |-> k, token |-> t]]
       /\ running' = running + 1
       /\ UNCHANGED <<sweep, failed, joining, hit>>

Outcome(c, at) == child' = [child EXCEPT ![c].at = at]

(* Fault: the operation does not look whether it is cancelled by now.       *)
RegisterBlindly(c) ==
    /\ child[c].at = "running"
    /\ tok' = [tok EXCEPT ![child[c].token].op = c, ![child[c].token].notify = TRUE]
    /\ Outcome(c, "registered")
    /\ UNCHANGED <<slots, firstFree, sweep, failed, joining, running, hit>>

(* The operation registers, or learns that it is cancelled.                 *)
Register(c) ==
    /\ child[c].at = "running"
    /\ tok' = [tok EXCEPT ![child[c].token] = Registered(@, c)]
    /\ Outcome(c, IF tok'[child[c].token].op = c THEN "registered" ELSE "error")
    /\ UNCHANGED <<slots, firstFree, sweep, failed, joining, running, hit>>

(* What it waits for has come: it goes on, or its cancellation has won.     *)
Complete(c) ==
    /\ child[c].at = "registered" /\ Completes(tok[child[c].token], c)
    /\ tok' = [tok EXCEPT ![child[c].token] = Retired(@, c)]
    /\ Outcome(c, "running")
    /\ UNCHANGED <<slots, firstFree, sweep, failed, joining, running, hit>>

(* It was told: the queued completion runs and the operation fails.         *)
Finish(c) ==
    /\ child[c].at = "registered" /\ ~tok[child[c].token].notify
    /\ tok' = [tok EXCEPT ![child[c].token] = Retired(@, c)]
    /\ Outcome(c, "error")
    /\ UNCHANGED <<slots, firstFree, sweep, failed, joining, running, hit>>

(* The operation returns a value, an error, or throws.                      *)
Return(c) ==
    /\ child[c].at = "running"
    /\ \E at \in {"retiring", "error"} : Outcome(c, at)
    /\ UNCHANGED <<tok, slots, firstFree, sweep, failed, joining, running, hit>>

(* fail_task_group() and timeout_task_group(): the first error sweeps.      *)
StartSweep(s) == sweep' = [sweep EXCEPT ![s].at = "counting"]

Fail(c) ==
    /\ child[c].at = "error"
    /\ IF failed THEN Outcome(c, "retiring") /\ UNCHANGED sweep
       ELSE Outcome(c, "sweeping") /\ StartSweep(c)
    /\ failed' = TRUE
    /\ UNCHANGED <<tok, slots, firstFree, joining, running, hit>>

DeadlineElapses ==
    /\ joining /\ running > 0 /\ sweep["deadline"].at = "idle"
    /\ IF failed THEN sweep' = [sweep EXCEPT !["deadline"].at = "end"] ELSE StartSweep("deadline")
    /\ failed' = TRUE
    /\ UNCHANGED <<tok, slots, firstFree, child, joining, running, hit>>

CallCancel ==
    /\ sweep["caller"].at = "idle"
    /\ StartSweep("caller")
    /\ UNCHANGED <<tok, slots, firstFree, child, failed, joining, running, hit>>

(* retire_task_group_child(): the slot is free, then the count goes down    *)
(* and the frame with its token goes away.                                  *)
Retire(c) ==
    /\ \/ child[c].at = "retiring"
       \/ child[c].at = "sweeping" /\ sweep[c].at = "end"
    /\ slots' = [slots EXCEPT ![child[c].slot].active = FALSE]
    /\ firstFree' = <<child[c].slot>> \o firstFree
    /\ Outcome(c, "retired")
    /\ UNCHANGED <<tok, sweep, failed, joining, running, hit>>

DoneChild(c) ==
    /\ child[c].at = "retired"
    /\ running' = running - 1
    /\ child' = [child EXCEPT ![c] = [@ EXCEPT !.at = "done", !.token = 0]]
    /\ UNCHANGED <<tok, slots, firstFree, sweep, failed, joining, hit>>

(* join() and settle() seal the group.                                      *)
Seal ==
    /\ ~joining /\ joining' = TRUE
    /\ UNCHANGED <<tok, slots, firstFree, child, sweep, failed, running, hit>>

-----------------------------------------------------------------------------
(* cancel_task_group(): one slot after the other.                           *)
CountSlots(s) ==
    /\ sweep[s].at = "counting"
    /\ sweep' = [sweep EXCEPT ![s] = [@ EXCEPT !.at = "picking", !.i = 1, !.n = Len(slots)]]
    /\ UNCHANGED <<tok, slots, firstFree, child, failed, joining, running, hit>>

Occupant(k) == {c \in Children : child[c].slot = k /\ child[c].at \notin {"new", "retired", "done"}}

Pick(s) ==
    LET w == sweep[s]
    IN /\ w.at = "picking"
       /\ \/ /\ w.i > w.n
             /\ sweep' = [sweep EXCEPT ![s].at = "end"]
             /\ UNCHANGED hit
          \/ /\ w.i <= w.n /\ ~slots[w.i].active
             /\ sweep' = [sweep EXCEPT ![s].i = @ + 1]
             /\ UNCHANGED hit
          \/ /\ w.i <= w.n /\ slots[w.i].active
             /\ sweep' = [sweep EXCEPT ![s] = [@ EXCEPT !.at = "reasoning", !.token = slots[w.i].token]]
             /\ hit' = hit \cup Occupant(w.i)
       /\ UNCHANGED <<tok, slots, firstFree, child, failed, joining, running>>

(* On to the next slot; the shared_ptr to the token goes out of scope.      *)
MoveOn(s) == [sweep EXCEPT ![s] = [@ EXCEPT !.at = "picking", !.i = sweep[s].i + 1, !.token = 0]]
Goes(s, at) == [sweep EXCEPT ![s].at = at]

(* cancel(), or cancel_due_to_deadline(), which stops short unless it is    *)
(* the first.                                                               *)
Reason(s) ==
    LET t == sweep[s].token
        first == tok[t].reason = "none"
    IN /\ sweep[s].at = "reasoning"
       /\ tok' = [tok EXCEPT ![t] = Reasoned(@, IF s = "deadline" THEN "deadline" ELSE "caller")]
       /\ sweep' = IF first THEN Goes(s, "publishing")
                   ELSE IF s = "deadline" THEN MoveOn(s) ELSE Goes(s, "dispatching")
       /\ UNCHANGED <<slots, firstFree, child, failed, joining, running, hit>>

Publish(s) ==
    /\ sweep[s].at = "publishing"
    /\ tok' = [tok EXCEPT ![sweep[s].token] = Published(@)]
    /\ sweep' = Goes(s, "dispatching")
    /\ UNCHANGED <<slots, firstFree, child, failed, joining, running, hit>>

Dispatch(s) ==
    LET t == sweep[s].token
    IN /\ sweep[s].at = "dispatching"
       /\ tok' = IF MayDispatch(tok[t]) THEN [tok EXCEPT ![t] = Dispatched(@)] ELSE tok
       /\ sweep' = IF MayDispatch(tok[t]) THEN Goes(s, "telling") ELSE MoveOn(s)
       /\ UNCHANGED <<slots, firstFree, child, failed, joining, running, hit>>

Tell(s) ==
    /\ sweep[s].at = "telling"
    /\ tok' = [tok EXCEPT ![sweep[s].token] = IF Tells(@) THEN Told(@) ELSE @]
    /\ sweep' = MoveOn(s)
    /\ UNCHANGED <<slots, firstFree, child, failed, joining, running, hit>>

-----------------------------------------------------------------------------
SweepStep(s) == CountSlots(s) \/ Pick(s) \/ Reason(s) \/ Publish(s) \/ Dispatch(s) \/ Tell(s)

(* What a child does once it is cancelled; the rest depends on its input.   *)
ChildEnds(c) == Register(c) \/ Finish(c) \/ Fail(c) \/ Retire(c) \/ DoneChild(c)

TgNext ==
    \/ \E c \in Children : Run(c) \/ ChildEnds(c) \/ Complete(c) \/ Return(c)
    \/ \E s \in Sweepers : SweepStep(s)
    \/ DeadlineElapses \/ CallCancel \/ Seal

TgSpec ==
    /\ TgInit /\ [][TgNext]_tgVars
    /\ \A c \in Children : WF_tgVars(ChildEnds(c))
    /\ \A s \in Sweepers : WF_tgVars(SweepStep(s))

-----------------------------------------------------------------------------
(* A sweep cancels the children it has picked and no other: however slots   *)
(* and tokens are reused (task_group.cpp:72 "no delayed cancellation can    *)
(* target a newly registered operation"), a child whose token is cancelled  *)
(* or whose operation was told has been picked itself.                      *)
CancelHitsItsChild ==
    \A c \in Children :
        child[c].at \in {"running", "registered"} =>
            LET t == tok[child[c].token]
            IN t.reason # "none" \/ t.cancelled \/ (t.op = c /\ ~t.notify) => c \in hit

(* A sealed group settles after cancel() (task_group.cppm:143 "Emergency    *)
(* cleanup must request cancellation first"), although an operation that is *)
(* not cancelled may wait for ever: nobody keeps waiting because it         *)
(* registered while the sweep came by, or between two of its steps.         *)
SettlesAfterCancel ==
    (joining /\ sweep["caller"].at = "counting") ~> (running = 0)
=============================================================================
