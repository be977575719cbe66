------------------------------ MODULE EventLoop ------------------------------
(***************************************************************************)
(* io_context (src/io/io_context_impl.cpp) with the epoll loop              *)
(* (src/io/platform/epoll_impl.cpp), the awaiters that suspend on it        *)
(* (src/executor/platform/epoll_async_op.cpp) and their cancel tokens:      *)
(* coroutines that other threads post, that wait for descriptors, go to the *)
(* file pool and come back, while their operations are cancelled and the    *)
(* loop is stopped.                                                         *)
(*                                                                          *)
(* Registrations belong to the loop thread; what other threads share with   *)
(* it is post_head_, the eventfd, stopped_ and the tokens, and each atomic  *)
(* operation or latched region on those is a step of its own.  A direction  *)
(* is in a registration's events exactly when it has a waiter.              *)
(***************************************************************************)
EXTENDS CancelToken, Naturals, Sequences, FiniteSets, FiniteSetsExt, SequencesExt

CONSTANTS
    Jobs,       \* the coroutines
    Fds,        \* descriptors; they stay open while somebody waits for them
    MaxOps,     \* operations per coroutine
    LoopSetups  \* uses of the loop: what each coroutine may start and how often, what
                \* the descriptors get ready for, whose token is cancelled,
                \* whether they post themselves or go to the pool, and whether the
                \* loop is stopped

Directions == {"in", "out"}                  \* EPOLLIN, EPOLLOUT
ElOperations == [fd : Fds, dir : Directions, cancellable : BOOLEAN]

ASSUME ElAssumption ==
    /\ IsFiniteSet(Fds) /\ Fds # {} /\ IsFiniteSet(Jobs) /\ Nobody \notin Jobs
    /\ MaxOps \in Nat
    /\ LoopSetups \subseteq
          [awaits : [Jobs -> SUBSET ElOperations], left : [Jobs -> 0 .. MaxOps],
           signals : [Fds -> SUBSET (Directions \cup {"hup"})],
           cancels : SUBSET Jobs, moves : BOOLEAN, stop : BOOLEAN]

Addresses == 1 .. Cardinality(Fds) + MaxOps * Cardinality(Jobs)
Null == 0

VARIABLES
    use,        \* the use under test, constant
    posts,      \* the list at post_head_, newest first: nodes [kind, job]
    eventfd,    \* its counter is not 0
    wakes,      \* calls of wake(), and of stop(), that have yet to write to it
    stopped,    \* stopped_
    stops,      \* how often stop() was called
    loop,       \* where run() is, the rest of the batch, of the nodes taken, and
                \* of the waiters of the event at hand
    ep,         \* registrations_, what their addresses hold, retired_, and the
                \* interest list of the kernel
    readyFor,   \* readyFor[f]: what the descriptor is ready for, and "hup"
    onLoop,    \* the coroutine that runs on the loop thread, or Nobody
    job,        \* job[j]: where it is, its operation, operations left
    jobTok,     \* jobTok[j]: the token of its cancellable operations
    canceller   \* canceller[j]: where the call of cancel() on that token is

elVars == <<use, posts, eventfd, wakes, stopped, stops, loop, ep, readyFor, onLoop, job, jobTok,
            canceller>>

NoInterest == [reg |-> Null, dirs |-> {}]
NoRegistration == [fd |-> CHOOSE f \in Fds : TRUE, waiter |-> [d \in Directions |-> Nobody]]
NoOperation == [fd |-> CHOOSE f \in Fds : TRUE, dir |-> "in", cancellable |-> FALSE]

ElInit ==
    /\ use \in LoopSetups
    /\ posts = << >> /\ eventfd = FALSE /\ wakes = 0
    /\ stopped = FALSE /\ stops = 0
    /\ loop = [at |-> "test", events |-> << >>, chain |-> << >>, due |-> << >>]
    /\ ep = [at |-> [f \in Fds |-> Null],
             mem |-> [a \in Addresses |-> NoRegistration],
             retired |-> {},
             interest |-> [f \in Fds |-> NoInterest]]
    /\ readyFor = [f \in Fds |-> {}]
    /\ onLoop = Nobody
    /\ job = [j \in Jobs |-> [at |-> "away", op |-> NoOperation, left |-> use.left[j]]]
    /\ jobTok = [j \in Jobs |-> FreshToken]
    /\ canceller = [j \in Jobs |-> "idle"]

-----------------------------------------------------------------------------
(* Registrations.                                                           *)
Waited(e, r) == {d \in Directions : e.mem[r].waiter[d] # Nobody}

Unused(e) == Addresses \ ({e.at[f] : f \in Fds} \cup e.retired)

(* arm(), and disarm_or_rearm() of what is left.                            *)
Armed(e, r) == [e EXCEPT !.interest[e.mem[r].fd] = [reg |-> r, dirs |-> Waited(e, r)]]

(* Fault: a registration goes at once, and its address is used again.       *)
RetiredAtOnce(e, r) == [e EXCEPT !.at[e.mem[r].fd] = Null]

(* retire_registration(): everything that removes one runs in a batch.      *)
RetiredReg(e, r) == [e EXCEPT !.at[e.mem[r].fd] = Null, !.retired = @ \cup {r}]

Rearmed(e, r) ==
    IF Waited(e, r) # {} THEN Armed(e, r)
    ELSE RetiredReg([e EXCEPT !.interest[e.mem[r].fd] = NoInterest], r)

(* add(): one waiter per descriptor and direction.                          *)
Added(e, f, d, j) ==
    LET new == e.at[f] = Null
        r == IF new THEN Min(Unused(e)) ELSE e.at[f]
        kept == IF new THEN NoRegistration.waiter ELSE e.mem[r].waiter
    IN Armed([e EXCEPT !.at[f] = r,
                       !.mem[r] = [fd |-> f, waiter |-> [kept EXCEPT ![d] = j]]], r)

WithoutWaiters(e, r, ds) ==
    [e EXCEPT !.mem[r].waiter = [d \in Directions |-> IF d \in ds THEN Nobody ELSE @[d]]]

(* remove() of one waiter, in its direction only.                           *)
Removed(e, f, d, j) ==
    LET r == e.at[f]
    IN IF r = Null THEN e
       ELSE Rearmed(IF e.mem[r].waiter[d] = j THEN WithoutWaiters(e, r, {d}) ELSE e, r)

-----------------------------------------------------------------------------
(* Other threads.  post(), and post_awaitable on a thread of the file pool: *)
(* push_node(), then wake().                                                *)
PostFromOutside(j) ==
    /\ job[j].at = "away"
    /\ posts' = <<[kind |-> "coroutine", job |-> j]>> \o posts
    /\ wakes' = wakes + 1
    /\ job' = [job EXCEPT ![j].at = "posted"]
    /\ UNCHANGED <<use, eventfd, stopped, stops, loop, ep, readyFor, onLoop, jobTok, canceller>>

Wake ==
    /\ wakes > 0
    /\ wakes' = wakes - 1 /\ eventfd' = TRUE
    /\ UNCHANGED <<use, posts, stopped, stops, loop, ep, readyFor, onLoop, job, jobTok, canceller>>

StopLoop ==
    /\ use.stop /\ stops = 0
    /\ stopped' = TRUE /\ stops' = 1 /\ wakes' = wakes + 1
    /\ UNCHANGED <<use, posts, eventfd, loop, ep, readyFor, onLoop, job, jobTok, canceller>>

(* restart(), and run() again.                                              *)
RestartLoop ==
    /\ loop.at = "ended" /\ stopped
    /\ stopped' = FALSE /\ loop' = [loop EXCEPT !.at = "test"]
    /\ UNCHANGED <<use, posts, eventfd, wakes, stops, ep, readyFor, onLoop, job, jobTok, canceller>>

BecomesReady(f) ==
    /\ \E s \in use.signals[f] \ readyFor[f] : readyFor' = [readyFor EXCEPT ![f] = @ \cup {s}]
    /\ UNCHANGED <<use, posts, eventfd, wakes, stopped, stops, loop, ep, onLoop, job, jobTok, canceller>>

(* cancel(): request_cancel(), dispatch_cancel(), then dispatch_callback(), *)
(* which holds the latch of the token while epoll_cancel_fn() posts.        *)
CancelJob(j) ==
    /\ j \in use.cancels /\ canceller[j] = "idle"
    /\ canceller' = [canceller EXCEPT ![j] = "publishing"]
    /\ jobTok' = [jobTok EXCEPT ![j] = Reasoned(@, "caller")]
    /\ UNCHANGED <<use, posts, eventfd, wakes, stopped, stops, loop, ep, readyFor, onLoop, job>>

PublishCancel(j) ==
    /\ canceller[j] = "publishing"
    /\ canceller' = [canceller EXCEPT ![j] = "dispatching"]
    /\ jobTok' = [jobTok EXCEPT ![j] = Published(@)]
    /\ UNCHANGED <<use, posts, eventfd, wakes, stopped, stops, loop, ep, readyFor, onLoop, job>>

TellCancel(j) ==
    /\ canceller[j] = "dispatching" /\ MayDispatch(jobTok[j])
    /\ IF Tells(jobTok[j])
       THEN /\ posts' = <<[kind |-> "cancelled", job |-> j]>> \o posts
            /\ canceller' = [canceller EXCEPT ![j] = "waking"]
            /\ jobTok' = [jobTok EXCEPT ![j] = Dispatched(Told(@))]
       ELSE /\ UNCHANGED posts
            /\ canceller' = [canceller EXCEPT ![j] = "end"]
            /\ jobTok' = [jobTok EXCEPT ![j] = Dispatched(@)]
    /\ UNCHANGED <<use, eventfd, wakes, stopped, stops, loop, ep, readyFor, onLoop, job>>

WakeForCancel(j) ==
    /\ canceller[j] = "waking"
    /\ canceller' = [canceller EXCEPT ![j] = "end"] /\ eventfd' = TRUE
    /\ UNCHANGED <<use, posts, wakes, stopped, stops, loop, ep, readyFor, onLoop, job, jobTok>>

CancellerStep(j) == PublishCancel(j) \/ TellCancel(j) \/ WakeForCancel(j)

Latched(j) == canceller[j] = "waking"

-----------------------------------------------------------------------------
(* run() and run_one_impl().                                                *)
Idle == onLoop = Nobody /\ loop.due = << >>

TestStopped ==
    /\ loop.at = "test"
    /\ loop' = [loop EXCEPT !.at = IF stopped THEN "ended" ELSE "wait"]
    /\ UNCHANGED <<use, posts, eventfd, wakes, stopped, stops, ep, readyFor, onLoop, job, jobTok, canceller>>

(* epoll_wait(): EPOLLONESHOT, so what is reported is disabled.             *)
Signals(f) ==
    IF ep.interest[f].dirs = {} THEN {} ELSE readyFor[f] \cap (ep.interest[f].dirs \cup {"hup"})

EpollWait ==
    LET fs == {f \in Fds : Signals(f) # {}}
        items == {[reg |-> ep.interest[f].reg, signals |-> Signals(f)] : f \in fs}
                 \cup (IF eventfd THEN {[reg |-> Null, signals |-> {}]} ELSE {})
    IN /\ loop.at = "wait" /\ items # {}
       /\ \E batch \in SetToSeqs(items) : loop' = [loop EXCEPT !.at = "batch", !.events = batch]
       /\ ep' = [ep EXCEPT !.interest =
                     [f \in Fds |-> [ep.interest[f] EXCEPT !.dirs = IF f \in fs THEN {} ELSE @]]]
       /\ UNCHANGED <<use, posts, eventfd, wakes, stopped, stops, readyFor, onLoop, job, jobTok, canceller>>

(* An event of a descriptor; one whose registration is gone is skipped.     *)
HandleEvent ==
    LET e == Head(loop.events)
        f == ep.mem[e.reg].fd
        fired == IF "hup" \in e.signals THEN Directions ELSE e.signals
        waiter == ep.mem[e.reg].waiter
        Due(d) == IF d \in fired /\ waiter[d] # Nobody THEN <<waiter[d]>> ELSE << >>
    IN /\ loop.at = "batch" /\ Idle /\ loop.events # << >> /\ e.reg # Null
       /\ IF ep.at[f] = e.reg
          THEN /\ ep' = Rearmed(WithoutWaiters(ep, e.reg, fired), e.reg)
               /\ loop' = [loop EXCEPT !.events = Tail(@), !.due = Due("in") \o Due("out")]
          ELSE /\ UNCHANGED ep
               /\ loop' = [loop EXCEPT !.events = Tail(@)]
       /\ UNCHANGED <<use, posts, eventfd, wakes, stopped, stops, readyFor, onLoop, job, jobTok, canceller>>

Resumed(j, at) == onLoop' = j /\ job' = [job EXCEPT ![j].at = at]

(* ready(), which gives way to a cancellation that was dispatched; or the   *)
(* plain resumption of an epoll_awaiter.                                    *)
CallReady ==
    LET j == Head(loop.due)
    IN /\ onLoop = Nobody /\ loop.due # << >>
       /\ loop' = [loop EXCEPT !.due = Tail(@)]
       /\ \/ /\ ~job[j].op.cancellable
             /\ Resumed(j, "resumed") /\ UNCHANGED jobTok
          \/ /\ job[j].op.cancellable /\ ~Latched(j) /\ Completes(jobTok[j], j)
             /\ jobTok' = [jobTok EXCEPT ![j] = Retired(@, j)]
             /\ Resumed(j, "resumed")
          \/ /\ job[j].op.cancellable /\ ~Latched(j) /\ ~Completes(jobTok[j], j)
             /\ UNCHANGED <<jobTok, onLoop, job>>
       /\ UNCHANGED <<use, posts, eventfd, wakes, stopped, stops, ep, readyFor, canceller>>

(* The event of the eventfd: it is read first, then the list is taken.      *)
ReadEventfd ==
    /\ loop.at = "batch" /\ Idle /\ loop.events # << >> /\ Head(loop.events).reg = Null
    /\ eventfd' = FALSE
    /\ loop' = [loop EXCEPT !.at = "exchange"]
    /\ UNCHANGED <<use, posts, wakes, stopped, stops, ep, readyFor, onLoop, job, jobTok, canceller>>

TakePosts ==
    /\ loop.at = "exchange"
    /\ posts' = << >>
    /\ loop' = [loop EXCEPT !.at = "drain", !.chain = Reverse(posts)]
    /\ UNCHANGED <<use, eventfd, wakes, stopped, stops, ep, readyFor, onLoop, job, jobTok, canceller>>

(* Fault: the descriptor keeps the waiter that is resumed.                  *)
CancelledKeepsWaiter(j) == ep

(* epoll_cancel_awaiter::cancelled() takes the waiter back first.           *)
Cancelled(j) == Removed(ep, job[j].op.fd, job[j].op.dir, j)

DispatchNode ==
    LET n == Head(loop.chain)
    IN /\ loop.at = "drain" /\ onLoop = Nobody /\ loop.chain # << >>
       /\ loop' = [loop EXCEPT !.chain = Tail(@)]
       /\ \/ n.kind = "coroutine" /\ Resumed(n.job, "running") /\ UNCHANGED ep
          \/ n.kind = "cancelled" /\ Resumed(n.job, "resumed") /\ ep' = Cancelled(n.job)
       /\ UNCHANGED <<use, posts, eventfd, wakes, stopped, stops, readyFor, jobTok, canceller>>

(* Fault: the eventfd is read after the list was run.                       *)
EndDrainReads ==
    /\ loop.at = "drain" /\ onLoop = Nobody /\ loop.chain = << >>
    /\ loop' = [loop EXCEPT !.at = "batch", !.events = Tail(@)]
    /\ eventfd' = FALSE
    /\ UNCHANGED <<use, posts, wakes, stopped, stops, ep, readyFor, onLoop, job, jobTok, canceller>>

EndDrain ==
    /\ loop.at = "drain" /\ onLoop = Nobody /\ loop.chain = << >>
    /\ loop' = [loop EXCEPT !.at = "batch", !.events = Tail(@)]
    /\ UNCHANGED <<use, posts, eventfd, wakes, stopped, stops, ep, readyFor, onLoop, job, jobTok, canceller>>

(* batch_guard: release_retired().                                          *)
EndBatch ==
    /\ loop.at = "batch" /\ Idle /\ loop.events = << >>
    /\ loop' = [loop EXCEPT !.at = "test"]
    /\ ep' = [ep EXCEPT !.retired = {},
                        !.mem = [a \in Addresses |-> IF a \in ep.retired THEN NoRegistration ELSE @[a]]]
    /\ UNCHANGED <<use, posts, eventfd, wakes, stopped, stops, readyFor, onLoop, job, jobTok, canceller>>

-----------------------------------------------------------------------------
(* The coroutine that runs on the loop thread.  It starts an operation: one *)
(* that is cancelled, or cannot be armed, returns at once; so does one for  *)
(* which add() has no memory (bad_alloc: an error code).                    *)
Taken(f, d) == ep.at[f] # Null /\ ep.mem[ep.at[f]].waiter[d] # Nobody
HasMemory(f) == ep.at[f] # Null \/ Unused(ep) # {}
InUse(f, d) ==
    \E j \in Jobs : /\ job[j].at \in {"adding", "suspended", "resumed"}
                    /\ job[j].op.fd = f /\ job[j].op.dir = d

Await(j, op) ==
    LET Goes(at) == job' = [job EXCEPT ![j] = [at |-> at, op |-> op, left |-> @.left - 1]]
        Fails == job' = [job EXCEPT ![j].left = @ - 1] /\ UNCHANGED <<ep, onLoop>>
    IN /\ onLoop = j /\ job[j].at = "running" /\ job[j].left > 0
       /\ ~InUse(op.fd, op.dir)
       /\ \/ Fails
          \/ /\ op.cancellable /\ ~jobTok[j].cancelled /\ HasMemory(op.fd)
             /\ ep' = Added(ep, op.fd, op.dir, j) /\ Goes("adding") /\ UNCHANGED onLoop
          \/ /\ ~op.cancellable /\ HasMemory(op.fd)
             /\ ep' = Added(ep, op.fd, op.dir, j) /\ Goes("suspended") /\ onLoop' = Nobody
       /\ UNCHANGED <<use, posts, eventfd, wakes, stopped, stops, loop, readyFor, jobTok, canceller>>

(* register_callback() at the end of await_suspend().                       *)
RegisterAwaiter(j) ==
    /\ onLoop = j /\ job[j].at = "adding" /\ ~Latched(j)
    /\ jobTok' = [jobTok EXCEPT ![j] = Registered(@, j)]
    /\ \/ /\ ~jobTok[j].cancelled
          /\ job' = [job EXCEPT ![j].at = "suspended"] /\ onLoop' = Nobody
          /\ UNCHANGED ep
       \/ /\ jobTok[j].cancelled
          /\ job' = [job EXCEPT ![j].at = "running"] /\ UNCHANGED onLoop
          /\ ep' = Removed(ep, job[j].op.fd, job[j].op.dir, j)
    /\ UNCHANGED <<use, posts, eventfd, wakes, stopped, stops, loop, readyFor, canceller>>

(* finish_callback(); then the operation is aborted, or reads or writes and *)
(* leaves the descriptor ready or not.                                      *)
AfterAwait(j) ==
    LET op == job[j].op
    IN /\ onLoop = j /\ job[j].at = "resumed"
       /\ op.cancellable => ~Latched(j)
       /\ jobTok' = IF op.cancellable THEN [jobTok EXCEPT ![j] = Retired(@, j)] ELSE jobTok
       /\ \/ op.cancellable /\ jobTok[j].cancelled /\ UNCHANGED readyFor
          \/ /\ op.cancellable => ~jobTok[j].cancelled
             /\ \E rest \in {readyFor[op.fd], readyFor[op.fd] \ {op.dir}} : readyFor' = [readyFor EXCEPT ![op.fd] = rest]
       /\ job' = [job EXCEPT ![j].at = "running"]
       /\ UNCHANGED <<use, posts, eventfd, wakes, stopped, stops, loop, ep, onLoop, canceller>>

(* co_await post_awaitable on the loop itself.                              *)
PostAgain(j) ==
    /\ onLoop = j /\ job[j].at = "running" /\ job[j].left > 0 /\ use.moves
    /\ posts' = <<[kind |-> "coroutine", job |-> j]>> \o posts /\ eventfd' = TRUE
    /\ job' = [job EXCEPT ![j].at = "posted", ![j].left = @ - 1] /\ onLoop' = Nobody
    /\ UNCHANGED <<use, wakes, stopped, stops, loop, ep, readyFor, jobTok, canceller>>

(* A file operation goes to the pool and posts itself back from there.      *)
FileOperation(j) ==
    /\ onLoop = j /\ job[j].at = "running" /\ job[j].left > 0 /\ use.moves
    /\ job' = [job EXCEPT ![j].at = "away", ![j].left = @ - 1] /\ onLoop' = Nobody
    /\ UNCHANGED <<use, posts, eventfd, wakes, stopped, stops, loop, ep, readyFor, jobTok, canceller>>

EndJob(j) ==
    /\ onLoop = j /\ job[j].at = "running"
    /\ job' = [job EXCEPT ![j].at = "done", ![j].op = NoOperation] /\ onLoop' = Nobody
    /\ UNCHANGED <<use, posts, eventfd, wakes, stopped, stops, loop, ep, readyFor, jobTok, canceller>>

JobStep(j) ==
    \/ \E op \in use.awaits[j] : Await(j, op)
    \/ RegisterAwaiter(j) \/ AfterAwait(j) \/ PostAgain(j) \/ FileOperation(j) \/ EndJob(j)

-----------------------------------------------------------------------------
LoopStep ==
    \/ TestStopped \/ EpollWait \/ HandleEvent \/ CallReady \/ ReadEventfd \/ TakePosts
    \/ DispatchNode \/ EndDrain \/ EndBatch
    \/ \E j \in Jobs : JobStep(j)

ElNext ==
    \/ LoopStep \/ Wake \/ StopLoop \/ RestartLoop
    \/ \E f \in Fds : BecomesReady(f)
    \/ \E j \in Jobs : PostFromOutside(j) \/ CancelJob(j) \/ CancellerStep(j)

(* A thread inside run(), wake() or cancel() goes on.                       *)
ElSpec ==
    /\ ElInit /\ [][ElNext]_elVars
    /\ WF_elVars(LoopStep) /\ WF_elVars(Wake)
    /\ \A j \in Jobs : WF_elVars(CancellerStep(j))

-----------------------------------------------------------------------------
Nodes(kind, j) == Cardinality({i \in DOMAIN posts : posts[i] = [kind |-> kind, job |-> j]})
                  + Cardinality({i \in DOMAIN loop.chain : loop.chain[i] = [kind |-> kind, job |-> j]})

(* The registrations, and the event at hand, that will call j's awaiter.    *)
CallersOf(j) ==
    Cardinality({w \in Fds \X Directions :
                     Taken(w[1], w[2]) /\ ep.mem[ep.at[w[1]]].waiter[w[2]] = j})
    + Cardinality({i \in DOMAIN loop.due : loop.due[i] = j})

(* A waiter in a registration is armed, or the event that disabled it is    *)
(* still to be handled.                                                     *)
StaysArmed(f) ==
    ep.at[f] # Null =>
        \/ ep.interest[f] = [reg |-> ep.at[f], dirs |-> Waited(ep, ep.at[f])]
        \/ \E i \in DOMAIN loop.events : loop.events[i].reg = ep.at[f]

(* Whatever the order of readiness and cancellation, exactly one of them    *)
(* will resume a suspended coroutine, and nothing refers to its awaiter,    *)
(* which lives in its frame, once it has been resumed (epoll_async_op.cpp:  *)
(* complete_callback() decides, cancelled() takes the waiter back); and     *)
(* "cancelling one must not discard the other" (epoll.cppm:34): the waiter  *)
(* of the other direction stays armed.                                      *)
ResumedByOne ==
    /\ \A f \in Fds : StaysArmed(f)
    /\ \A j \in Jobs :
        LET told == job[j].op.cancellable /\ ~Completes(jobTok[j], j)
        IN /\ Nodes("cancelled", j) = IF job[j].at = "suspended" /\ told THEN 1 ELSE 0
           /\ job[j].at = "suspended" /\ ~told => CallersOf(j) = 1
           /\ job[j].at \notin {"suspended", "adding"} => CallersOf(j) = 0

(* An operation that was resumed because its descriptor is ready finds it   *)
(* ready (its read or write is not tried again): no event of the batch      *)
(* reaches a waiter that came to the address of a registration that went    *)
(* (epoll.cppm:61 "Keeps removed registrations alive while a fetched event  *)
(* batch references them").                                                 *)
ReadyWhenResumed ==
    \A j \in Jobs :
        job[j].at = "resumed" /\ ~(job[j].op.cancellable /\ jobTok[j].cancelled) =>
            readyFor[job[j].op.fd] \cap {job[j].op.dir, "hup"} # {}

(* The loop owes a run to a posted coroutine, and to one whose operation is *)
(* cancelled although its descriptor never gets ready.  Unless it is        *)
(* stopped it pays: no wake-up is lost between the list and the eventfd     *)
(* (epoll_impl.cpp:278), and a cancellation is seen when the operation      *)
(* starts or registers, or reaches it through the queue.                    *)
Owed(j) ==
    \/ job[j].at = "posted"
    \/ job[j].at = "suspended" /\ job[j].op.cancellable /\ jobTok[j].cancelled

OwedIsRun == \A j \in Jobs : Owed(j) ~> (~Owed(j) \/ stopped)
=============================================================================
