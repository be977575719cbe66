# Verification of cnetmod

cnetmod is a C++23 coroutine network library: a set of coroutine primitives on
top of per-thread event loops, and protocol implementations built from them,
among which a Raft consensus node, an MQTT client and broker, and HTTP clients
and servers. This directory holds TLA+ models of the parts
whose correctness depends on the order in which things happen, the
configurations with which TLC checks them, and TLAPS proofs of the results that
hold for every number of tasks or voters. Paths below are relative to the
repository, which is at `src/` next to this directory.

## 1. Inventory

| part | state it keeps | operations | interacts through |
|---|---|---|---|
| adaptive spinlock (`coro/mutex.cppm`) | an atomic word 0/1/2 | `lock`, `unlock` | guards the waiter lists of the primitives below |
| `async_mutex` | atomic word unlocked/locked/contended, FIFO waiter list, spinlock | `lock`, `try_lock`, `unlock` | resumes a waiter in place or posts it to its `io_context` |
| `async_semaphore` | atomic count, FIFO waiter list | `acquire`, `try_acquire`, `release`, `release(n)` | as above |
| `async_shared_mutex` | state (-1, 0, readers), reader list, writer list | `lock`, `lock_shared`, `try_lock`, `unlock`, `unlock_shared` | as above |
| `async_wait_group` | atomic count, waiter list | `add`, `done`, `wait` | as above |
| `channel<T>` | ring buffer, sender list, receiver list, closed flag | `send`, `receive`, `try_*`, batch and deferred forms, `close`, `reopen` | values handed over directly or through the buffer |
| `cancel_token` | reason, two flags, the registered operation | `cancel`, `cancel_due_to_deadline`, registration, completion, `reset` | tells the operation, on the canceller's thread |
| circuit breaker | state, two counts, when it opened | `pre_execute`, `on_success`, `on_failure`, `trip`, `reset` | callers |
| `task_group` | slots with tokens and a free list, first error, wait group | `run`, `cancel`, `join`, `settle` | cancels its children through their tokens |
| rate limiter, retry, timers, `task`, `spawn`, bridge | a clock, coroutine frames | start, wait | event loop, other threads |
| `io_context`, epoll loop, its operations | list of posted nodes, eventfd, registrations with a waiter per direction, batch of events | `post`, `run`, `stop`, `restart`, `add`, `remove`, `async_*` | resumes every coroutine above; tokens; the kernel; the file pool |
| executor: io_uring, kqueue and IOCP loops, thread pool | completion queues | the same | the same |
| Raft: `raft_node`, `log_manager`, `progress_tracker` | role, term, vote, log, commit and applied index, per-peer progress, configuration | timers, message handlers, client commands, transfer, membership, snapshots, ReadIndex | `raft_storage`, `raft_transport`, the state machine |
| Raft: runtime and TCP transport | connections, timers | `election_loop`, `heartbeat_loop`, `dispatch_message` | call the node under its strand, send what it returns |
| `bounded_client_pool` (HTTP) | slots, FIFO waiters, counters, `async_mutex` | `acquire`, `release`, `close`, cancellation | posts waiters to the loop, returns leases from destructors |
| MQTT client and broker | packets in flight, received ids, session with offline queue, connection channels | connect, publish, acknowledge, retry, route, deliver, clean up | packets over TCP connections that break |
| HTTP/2 server session | streams, windows both ways, ready requests, pending responses, output | frames, dispatch, response writers, flow credit | the peer; background tasks; the writer lock |
| concurrent containers | lock-free structures | queue, map and list operations | memory order of single loads and stores |
| HTTP/1, HTTP/3, QUIC, gRPC, WebSocket, AMQP, Kafka, databases, mail, DNS, ... | connection and stream state | codecs, clients, servers | sockets |
| application framework, ORM, logging, core | configuration, pools | | |

**Hard behaviours.** Every primitive suspends in two steps, `await_ready` and
`await_suspend`, with other coroutines in between when several loops are in use;
a waiter owns what it waited for before it runs again; release operations take
their decision under a lock and resume after it. In Raft, messages are lost,
repeated and reordered, nodes restart from what they saved, storage calls throw
in the middle of a handler, logs of earlier terms diverge, and the set of voters
changes meanwhile. Cancelling is three atomic steps that race the operation and
the reuse of its token. The event loop sleeps in the kernel between a list that any
thread extends and a batch of events that its own coroutines make stale. An MQTT connection breaks with packets on the way and in
the broker's channels, and both sides go on from what they remember. An HTTP/2
session shares one connection window among streams that come, wait and go. The
complete list,
each with its line and the properties aimed at it, is `hazards` in
`PROJECT.json`.

**What makes them correct.** Locks: exclusion, no lost wake-up, no stranded
waiter, promised order and priority, everybody served. Semaphore: permits are
conserved. Wait group: a wait returns, and not too early. Channel: FIFO, exactly
once, the documented invariants. Raft: one leader per term, durable votes, log
matching, leader completeness, the same commands applied everywhere, truthful
progress, also while voters change and snapshots are installed; reads that see
what was committed before them. Task group: cancelling ends the children it is
meant for, and no other. Breaker: closes only on fresh evidence. Client pool: a
lease has one owner, and nobody waits for ever. Event loop: what is posted runs, and
readiness and cancellation resume an operation once between them. MQTT: QoS 2 exactly once, QoS 1
at least once (findings 7 and 9: neither holds throughout). HTTP/2: both ends agree on every window, and no window is wasted.

## 2. Modules

| module | models | composed with |
|---|---|---|
| `AtomicLock` | what the spinlock promises: taken only when nobody holds it, given up by its holder | implemented by `Spinlock` |
| `Spinlock` | `async_mutex::spinlock` | `AtomicLock` by refinement |
| `AsyncMutex` | `async_mutex`, with its queue lock | |
| `AsyncSemaphore`, `AsyncSharedMutex`, `AsyncWaitGroup`, `Channel` | the class of that name | |
| `MCPrimitives` | the five primitives, for TLC | extends them |
| `Coroutines`, `CancelToken` | what all coroutine models share; the state of a token and its atomic operations | used by the next three |
| `TaskGroup` | `task_group`, its children, its tokens and the sweeps that cancel | extends `CancelToken` |
| `ClientPool` | `bounded_client_pool` | extends `CancelToken`; its mutex excludes, as `AsyncMutex` is shown to |
| `EventLoop` | `io_context`, `epoll_context`, the epoll awaiters and the operations built on them | extends `CancelToken` |
| `CircuitBreaker` | `circuit_breaker` | |
| `MqttSession` | one MQTT session, client and broker, over successive connections | |
| `Http2` | the server session, and the peer as RFC 9113 has it | |
| `MCComponents` | channel, breaker, task group, pool, MQTT, HTTP/2 and event loop, with their uses, for TLC | extends them |
| `Raft` | node, log manager, progress tracker, transport dispatch, runtime timers | |
| `MCRaft` | setups, initial disks and state view for TLC | extends `Raft` |
| `RaftCluster` | membership, snapshots, ReadIndex, restarts, with elections and replication in less detail | |
| `MCRaftCluster` | plans and state view for TLC | extends `RaftCluster` |
| `WaiterQueueProofs` | what the proofs share: appending to and popping from a duplicate-free list, the least of a set of naturals | |
| `PrimitiveProofs` (spinlock, mutex, semaphore, shared mutex, wait group, breaker), `ChannelProofs`, `CancellationProofs` (client pool, task group), `EventLoopProofs`, `Http2Proofs`, `RaftProofs` (elections, logs), `RaftSafetyProofs` (commitment) | theorems | use the modules they are about; `RaftSafetyProofs` extends `RaftProofs` |

**Primitives.** A variable is a member of the class (`state` is `state_`, `queue`
the list from `head_` to `tail_`); `pc[t]` says where task `t` is inside a call.
One atomic operation, or one region under the queue lock, is one action.
`Spinlock` and `AsyncMutex` go down to the single atomic operation because they
mix them with the guarded regions; the others use that `Spinlock` excludes and
treat a guarded region as one step. Because a waiter is given what it waits for
before it runs, a task "owns" from the moment it is popped: exclusion is stated
for owners in this sense, which is the stronger claim. Whether a waiter is
resumed in place or posted is a free choice.

**Channel.** The capacity and the number of loops are chosen in `Init`. With one
loop nobody runs between a coroutine's `await_ready` and `await_suspend`; with
more, anybody may. A value is its serial number, and three histories record what
was accepted, delivered and refused.

**Raft.** `node[n]` is the `raft_node` object, `disk[n]` the saved term and vote,
`msgs` every message ever sent. A handler is a function from a node state to
a node state (`StepDown`, `BecomeLeader`, `FollowCommit`, ...) that an action applies
together with everything the transport does with the result: a response is
sent, a won election is followed by a round of appends, a completed catch-up by
`TimeoutNow`. A log entry is the term it was appended in, so the stream of
applied entries can be compared. `setup` holds the option `pre_vote` and the bounds of a behaviour (to whom a window
may be full, who campaigns, how often what happens); it is constant in a behaviour
and lets one run cover several situations. The saved commit and applied index
and the log survive a restart with the values they have in memory, since every
handler saves them before it returns. A heartbeat is one step, or two
(`HeartbeatAwait`, `HeartbeatResume`) with anything in between, because the loop
is suspended while old snapshot files are removed.

**Raft with a changing cluster.** `RaftCluster` leaves out what `Raft` already
has (pre-vote, failing storage, the search for the next index) and adds what a
fixed voter set cannot show. A log entry is a term and possibly a configuration;
`fsm` is the stream the state machine was given, and a snapshot stands for a prefix
of it. `ApplyOne` is the loop body of `apply_committed()`, in which a configuration takes
effect, a leader leaves or the joint configuration is left. A read is confirmed by a quorum or, with
`lease_read`, at once while the leader trusts its lease; whether it does depends on a clock and is a free choice (`LeaseValid`).

**Cancel tokens.** `CancelToken` has the state and the effect of each atomic operation
or latched region; `TaskGroup`, `ClientPool` and `EventLoop` take them as steps of their own, so that
a cancel in progress is three steps with anything in between. In `TaskGroup` a shared
pointer is counted (`Holders`): a token is recycled only when its slot alone has it.

**Client pool.** A caller inside `state_mutex_` is `poolLock`; `posted` is the intrusive node of
a waiter in the loop's queue, which is where being told twice would show.

**Event loop.** `loop` is the position of `run()`, with the rest of the batch (`events`), of the
nodes taken from the list (`chain`) and of the waiters of the event at hand (`due`); the
coroutine that one of them resumes is `onLoop`, and the loop goes on when it suspends or
ends. `ep` has the registrations at their addresses, so that an address can be used
again, and the interest list of the kernel, in which a reported descriptor is disabled
(`EPOLLONESHOT`). Posting is a push and a write to the eventfd; the callback of a token
does both under the latch of the token, on the canceller's thread (`TellCancel`,
`WakeForCancel`). A descriptor stays open while somebody waits for it, and one coroutine at
a time waits in a direction, as the sockets are used.

**MQTT.** A connection is a pair of FIFO streams; `Cut` loses it together with any
suffix of what is on the way. On the client a publish or a handler that awaits a write goes on when
the packet is on the wire, or when it failed. On the broker a handler gives its packet to the
writer of the connection and goes on in a step of its own (`AfterReply`), with anything in between: it
acknowledges a publish first and routes it afterwards, so the client may have the answer to a letter that
is not routed yet. The client subscribes to one filter, on the first connection and again when its session was not
kept; letters come for it only once the broker has the subscription. `route_publish()` is one step, the
other critical sections of the broker too, and the three of `cleanup_connection()` are three. A publish
waits for quota, or goes on without it after the 3000 looks (`connection.cpp:346`). A client whose retry could not be
written (`connection.cpp:1108`) is `deaf`: marked as not connected, with nobody to resume its publishes
or to reconnect.

**HTTP/2.** Everything runs on the loop of the connection; an action is what runs
between two suspensions. Bytes are counted in units, and the peer keeps to its
windows. A streamed body may refuse a chunk (`chunk_capacity`, `max_bytes`), which ends the session.

Operators marked *Fault* change one definition the way a mistake in the code
would. They are used nowhere in the specifications; substituting one for the
definition after it makes TLC report the property named for it in `mutants`.

## 3. What TLC checks

| run | instance | what it shows |
|---|---|---|
| `Primitives` | one of: spinlock with 4 threads; mutex, semaphore (1 permit, 2 more), shared mutex with 4 tasks; wait group with 3 workers, 3 waiters, 2 rounds | spinlock: `NoLostWakeup`, `LockIsGranted`, `SpinImplementsLock`; mutex: `MutualExclusion`, `WaiterIsCovered`, `NoBarging`, `QueuedIsServed`; semaphore: `PermitsConserved`, `NoIdlePermit`, `AcquirerIsServed`; shared mutex: `WriterExcludes`, `WriterIsServed`; wait group: `WaitReturns` |
| `Components` | one of: channel (2 senders, 2 receivers, 2 values each, capacity 0-2, 1 or 2 loops); breaker (3 callers, thresholds 2); task group (2 children, a deadline, a caller of `cancel`); pool (1 client, 3 callers, 3 calls); MQTT (`MCMqttSetups`); HTTP/2 (`MCHttp2Setups`); event loop (`MCLoopSetups`) | channel: `FifoDelivery`, `ExactlyOnce`, `NulloptOnlyWhenDrained`; breaker: `ClosesOnEvidence`; task group: `CancelHitsItsChild`, `SettlesAfterCancel`; pool: `LeasesAreExclusive`, `NotificationsAreOwned`, `NobodyIsStranded`; MQTT: `PublishedOnce`, `ShownOnce`; HTTP/2: `WindowsAgree`, `NoIdleWindow`, `CreditConserved`; event loop: `ResumedByOne`, `ReadyWhenResumed`, `OwedIsRun` |
| `RaftCore` | 3 voters: two campaign with pre-vote, a restart; a command with full windows; repair of divergent logs with restart, crash, lapse; a suspended heartbeat of the only leader; leader transfer; one storage failure | `ElectionSafety`, `VotesAreDurable`, `LogMatching`, `LeaderCompleteness`, `AppliedIsStored`, `MatchIsStored` |
| `RaftCluster` | 4 nodes: a replaced voter set, a learner promoted, a leader removed, two nodes taking turns while joint, a snapshot that catches a follower up, reads against a successor, also with lease reads enabled | `SameStream`, `LeaderHasApplied`, `ReadsAreCurrent` |
| `AsyncWaitGroupReuse` | 2 workers, 1 waiter, 2 rounds | **violated** `WaitSeesZero`: early return in the second round |
| `ChannelLostWakeup` | 1 sender, 1 receiver, 2 loops | **violated** `DocumentedInvariants`: a receiver sleeps beside a value |
| `RaftCommitPrefix` | 3 voters, one entry per append | **violated** `StateMachineSafety`: two nodes apply different streams |
| `RaftStaleHeartbeat` | 3 voters, one heartbeat suspended while a successor is elected | **violated** `AppliedIsStored`: a leader loses entries it has applied |
| `RaftStaleRejection` | 3 voters, one of them leads twice, an answer to its first leadership arrives in the second | **violated** `CommittedIsHeld`: a command is committed that the leader alone has |
| `RaftLateSnapshot` | 3 nodes, a snapshot that arrives late | **violated** `SameStream`: a state machine goes back and never gets the entries in between |
| `MqttLost` | one letter to a subscriber, one lost connection | **violated** `NothingLost`: the letter is in the channel of a connection whose writer failed |
| `Http2EarlyUpdate` | one request without a body | **violated** `WindowsAgree`: the server knows of a smaller window than the client granted |

The components of `MCPrimitives` and of `MCComponents` share no state: a behaviour runs one
of them and the others rest. Each property is about one of them and is vacuous
in the behaviours of the others, never in its own.

**Bounds.** Four tasks are an owner, two queued and one arriving, the least that
tells FIFO order, hand-over and newcomers apart. In the wait group two rounds are
what reuse needs. Two values a sender with capacity at most two make the channel
full with somebody waiting; a batch that refills from several waiting senders takes more values and is left to
the theorem `ChannelFifo`. Two children are enough for a slot
and a token to change hands under a sweep, and three sweeps (a failure, the
deadline, a caller) run at once. In the pool one client makes the second caller
wait and the third queue behind it. An MQTT setup has one or two letters, up to
three connections and three packet ids, so that ids are used again; client and
broker retries, losses and a takeover happen where the setup says so. An HTTP/2
window is two units and a response three, so that it must wait; with two
streams the window of the connection is shared. An event loop has two coroutines with
up to two operations each and two descriptors, enough for both directions of one and for a
registration that takes the address of another. The plans of `MCMqttSetups`, `MCHttp2Setups`,
`MCLoopSetups` and `ClusterSetups` name the situation each is for.

The core Raft runs have three voters; that more voters make no difference to the
election and to log matching is proved (section 4). Terms stop
at the first on empty disks and one or two past those on the disks of
a history. Reaching divergent logs from empty disks takes more steps than TLC
can search exhaustively, so `MCRaft` starts those setups from three disks that
earlier terms can leave behind: a command that reached nobody, two
leaders that reached nobody, and a long stale log against a short committed one
(`RaftStaleRejection`: a longer one).
Each history is one the protocol can produce (the comments there say how), and
the messages of earlier terms count as lost. Each of restart, lapse, transfer,
command, failure and suspended heartbeat happens at most once in the setups that allow it. One branch is
reached by no run: a `TimeoutNow` from somebody other than the known leader of
the term cannot arrive when a term has one leader, so that check of the code is
defensive. `MCRaftCluster` starts with a leader of term 1 whose no-op is committed, and its plans
say who can reach whom: links that are down for the whole behaviour keep the
search small and are what makes a quorum matter.

**View.** The Raft runs identify states that differ only in what no later step
looks at (with no leader deposed during a heartbeat): answers to a role or term that is over, progress of
a node that does not lead, and messages that every later step treats alike.
Granted votes are always kept because `VotesAreDurable` reads them.

**Deadlock** is checked in `Primitives`, where only the wait group may end its bounded use
(`WgFinished`, with nobody inside); it is not checked where bounded uses end.

**Fairness.** A task inside a call of a primitive keeps running (its thread is
scheduled), a posted coroutine is run by its loop, and who holds a lock
eventually releases it: weak fairness of each task's `Progress`. In the wait group
every added unit is eventually done. A child of a task group goes on when it can,
but an operation that waits need never complete by itself: that it ends is what
cancelling is for. In the pool coroutines and posted nodes run and leases are returned, as
the pool asks its users; nobody has to cancel or close. In the event loop the thread
in `run()` goes on, with the coroutine it runs, and so do threads inside `wake()` and `cancel()`; no
descriptor has to get ready. No task has to call
anything, and no strong fairness is assumed: a waiter in a FIFO list needs none.
The spinlock is not FIFO, so for it only "somebody gets it" is claimed. Raft, MQTT
and HTTP/2 have no liveness claim: the timers and the peers that would justify one
are not modelled.

In the task group `Run` asks for a token that nobody holds; there is one for every child
and every sweep, so the guard never holds anything up.

**Auxiliary invariants.** The type invariants, and `SpinExclusion`, `QueueIsExact`, `SemQueueIsExact`,
`StateCountsHolders`, `WriterPriority`, `RwNoStranded` and `WgNoStranded`, are stated in their modules for the proofs; no
run lists them, since what they are for is implied by what is checked. The inductive
invariants of section 4 (`PoolInv`, `GroupInv`, `ChInv`, `ElIInv`, `H2Core`, `H2Flow`, ...) were
checked by TLC on small instances before they were proved, in a bounded form where they quantify over every value.

## 4. What is proved

| theorem | statement | for |
|---|---|---|
| `SpinlockExcludes`, `SpinlockLosesNoWakeup`, `SpinlockRefinesLock` | exclusion, no lost wake-up, implements `AtomicLock` | any set of threads |
| `MutexExcludes`, `MutexCoversWaiters`, `MutexQueueIsExact`, `MutexNoBarging` | the safety properties of the run, and that the list is exact | any set of coroutines |
| `SemaphoreConserves`, `SemaphoreIdlesNoPermit`, `SemaphoreWakesOnce` | permits are neither lost nor made; none is idle while somebody waits; the list is exact and a granted waiter is resumed by one task | any set of coroutines, any initial count, any number of extra permits |
| `SharedMutexExcludes`, `SharedMutexCovers`, `SharedMutexWakesOnce`, `SharedMutexWriterFirst` | a writer excludes everybody; somebody will wake whoever waits; both lists are exact; a queued writer goes before new readers | any set of coroutines |
| `WaitGroupCovers` | whoever is queued has pending work, or a `done()` about to drain the list; the list is exact and a drained waiter is resumed by one task | any set of coroutines, any number of rounds |
| `BreakerClosesOnEvidence` | an open breaker closes on `reset()`, or on enough successes since it opened, with no failure and no `trip()` in between | any callers and thresholds |
| `ChannelFifo`, `ChannelNullopt` | on one loop: the documented invariants, delivery in order of acceptance, nullopt only from a closed and drained channel | any coroutines, capacity and number of values, all operations |
| `ChannelExactlyOnce` | an accepted value is delivered or buffered once, a refused one never | the same, on any number of loops |
| `PoolLeases`, `PoolNotifications` | a lease has one owner and the counters count; the node of a waiter is posted once, and not after `close()` has returned | any callers, clients and calls |
| `GroupCancelsItsOwn` | only a child that a sweep has picked is cancelled | any finite set of children |
| `LoopResumesOnce`, `LoopResumesReady` | a suspended operation has one that will resume it, and nothing refers to its awaiter afterwards; one resumed by readiness finds its descriptor ready | any coroutines, descriptors, addresses and uses |
| `ConnectionCreditConserved`, `NoResponseLeftIdle` | the receive window of the connection is short of exactly what is unread or on its way back; a response waits only while a window is closed | any finite set of streams, any window, any uses |
| `WindowsAgreeWithoutEarlyCredit` | the two ends agree on every window, up to what is on the wire, as long as the peer does not extend the window of a request it has completed before the response begins (`"done" \notin plan.early`) | the same |
| `RaftElectsOne` | at most one winner per term, as long as storage works | any finite voter set, any setups |
| `RaftKeepsVotes` | a vote given is in the saved hard state, as long as storage works | the same |
| `RaftLogsMatch` | logs that agree on the term of an entry agree up to it, as long as storage works and no heartbeat suspends inside the leader | the same, any batch size |
| `RaftMatchIsTrue` | `match_index` tells what a follower has of the leader's log, under the conditions of `RaftLogsMatch` and `NoStaleAnswers` | the same |
| `RaftLeadersComplete`, `RaftAppliedIsStored`, `RaftReplicasAgree`, `RaftCommitsAreHeld` | a leader has what was applied; no truncation reaches it; all replicas apply one stream; a majority has what a leader committed; under the conditions of `RaftMatchIsTrue` and `CommitsCovered` | the same |

*Spinlock.* The inductive invariant is the conjunction of the checked ones: that
an exchange which reads 0 adds the only holder needs `WordMatchesHolder`, and
that needs exclusion.

*Mutex.* Exclusion alone is not inductive. It needs that the word is `unlocked`
exactly when there is no owner and `contended` on the slow path (`WordInv`), that
the queue lock is held by whom the program counter says (`LockInv`), that the list is
exact, so that the popped head is a suspended coroutine, and that a popped
handle is resumed by one task (`HandleInv`). `WaiterQueueProofs` has what appending
and popping do to a duplicate-free list.

*Semaphore and shared mutex.* Permits are counted as the cardinality of the set of
holders and of permits under way, so conservation is a statement about finite sets, and a step adds or
removes one element. `SemIInv` adds that the list is exact, that a permit is not
idle while somebody waits (or a popped permit would be lost) and that a grant has one
waker. `RwIInv` adds the count of holders, that readers and writers wait in their own
lists, and that a state with waiters has somebody who will wake them.

*Wait group and breaker.* `WgIInv` is that the list is exact, that work or a drain is pending while
it is not empty, and that a drained waiter is in the hands of one task. For the breaker, `CbIInv` is that
while half-open it counts no success that was not reported since it opened and the timeout
elapsed; that closing takes the threshold of them is an action property over it.

*Channel.* `ChInv` says where a value is: with a sender that is about to suspend or
waits, refused, delivered or buffered, and in one place (`ChValues`). A step on the receiving side
(`Serves`) moves values of the first waiting senders in; one on the sending side (`Takes`) splits
new values between waiting receivers and the buffer; `ReceiveSide` and `SendSide` show once for all operations
that both keep the invariant. What is special about one loop is `ChAlone`:
whoever is between `await_ready` and `await_suspend` is alone and the reason to suspend
still holds. That is the fact that several loops lose, and with it FIFO; exactly-once does not need it.

*Client pool.* `PoolInv` relates the state of an `acquire()`, its token and its intrusive node (`Fits`):
only a waiter has its node posted or a registration, and one that can still be completed has not
been posted. With it, resumption and cancellation cannot both post the node,
a leased client has one owner (a caller or a posted return), and the counters are cardinalities.

*Task group.* `GroupInv`: a child that has not retired has an active slot of its own, no two slots
have one token, the free list is duplicate-free and inactive, and a sweep that is
in the middle of cancelling a token holds it, so that `MakeShared` cannot give it to somebody else.

*Event loop.* `ElIInv` says where the one reference is that will resume a suspended coroutine: in the
waiter slot of its registration (`Holder`), among the waiters due of the event at hand (`DueFit`), or, once its
token was told, in a node of the list or of the chain taken from it (`NodesFit`), and that it is in one of
them (`Called`, `TokFit`). The hard part is that an event of a fetched batch names an address: every such
address is registered or retired and not free (`Fetched`), has one event (`EventsOnce`), and a registration that is disabled
has its event to come (`Covered`), which is true of its descriptor (`Truthful`). Assumption: `ElAssumption` (finite
sets of descriptors and coroutines, `Nobody` is not one of them, well-formed uses).

*HTTP/2.* `H2Core` is the conjunction of types (a window is an integer, since SETTINGS can push it
below zero; what a frame may say by its direction), `CreditConserved`, and, until the session ends,
`OpensOnce` (what the peer has not opened is mentioned nowhere, and its HEADERS come first),
`AnsweredOnce` (a request waits for its handler, or has a task, or its response waits, one of them, so that
nobody answers a stream twice) and `NoIdleWindow`.
A server step is reduced to `Charged`, what it does to windows and output, and
`OthersKept`, what it leaves alone (`StreamStepKeeps`, `ReadForKeeps`); the peer's steps to what they append
(`PeerSaysKeeps`). Sums of windows and credits (`SumFunction`), the fold over pending responses
(`Drained`) and `std::erase_if` (`Erased`) are defined by recursion. Of a sum, one shows instead with
`SubsetInduction` (the non-empty set of counterexamples has a least element, by cardinality) that
there is a function that satisfies the recursion, so that `CHOOSE` yields one, and that it may take the
elements in any order (`SumRemove`); the fold over the responses is then described step by step
(`DrainSteps`): the order of the map is arbitrary, and whichever response is looked at, what
it leaves behind is a closed window.
`WindowsAgree` is not inductive on top of that: it compares the windows of a stream only once both ends
have the same initial window, and a SETTINGS frame changes the windows of the client when it is sent and those of the
session when it is read. `Balanced` states the equations relative to the initial window of
each side, which both of them then move alike, and for the requests the session has not opened yet.
Beside it, `H2Flow` has that SETTINGS is sent once and says what the client believes (`SettlesOnce`), that a
stream opens with the window the client has been sending against (`BodyBeforeOpen`), and
that no credit is on its way for a request that has no stream entry yet (`NoEarlyCredit`): the one part that a client of finding 8
breaks. A step then is one of the session (`Flows`: what it sends is charged, what it returns
is said), a frame it reads (`ReadFlows`), or one of the peer, which says (`PeerFlows`) or hears (`Taken`)
something; each moves units between two terms of an equation. Assumption: `H2Assumption`, a finite set of stream
ids without 0 and well-formed uses.

*Raft, elections.* Two winners of a term would each have a majority; majorities share
a voter (`QuorumsMeet`, from the cardinality theorems), and a voter votes once. The
invariant `IInv` makes this inductive: a vote sent is remembered by its sender
until it is past the term (`GrantsKept`), is unique (`GrantsUnique`), what a candidate
counts are votes for it in its term (`CandidatesCount`), and every recorded winner
had a majority and kept its own vote (`LeadersElected`). `disk` equals the hard state
in memory, which is why a restart is harmless, and is what a storage failure
breaks: the theorems are about every behaviour, and what they claim is claimed up to the
first failed save (`StorageWorked`). `SoundStep` reduces preservation to what one handler does to one node; each action
is then shown sound. Assumption: `RaftAssumption` (finite `Server`, `Nil` not
a member, well-formed setups). The theorems are about `Spec`, which starts
on empty disks; the initial disks of `MCRaft` are for TLC only.

*Raft, logs.* `LInv`: there is a table `E` with one canonical log for every term, the log of
its leader as far as it has come, such that every log, and the entries of every append under way, are
pieces of canonical logs (`Canonical`). A leader's append extends `E` at its term, and that there is one
leader to extend it is `RaftElectsOne`; everything else copies pieces. Log matching follows because
an entry of term `t` at `i` fixes everything before it as `E[t]`. The two conditions are
the ones under which there is one leader a term and it sends in its own term: finding 4
breaks the second.

*Raft, commitment.* The four conditions are what the findings break, one each, and together they are enough:
`StorageWorked` (a vote that could not be saved is given), `NeverAwaits` (finding 4), `NoStaleAnswers`
(finding 5: no rejection of an append of an earlier term carries a term that its receiver has
led) and `CommitsCovered` (finding 3: no append tells of a commit index beyond the entries it covers). None
of them is an assumption on the constants: the theorems are about every behaviour of `Spec`, up to the first state in
which one of the four is false, and once false each stays so, since `msgs`, `leaders` and `spent` only grow
(`HistoryGrows`, `CountsGrow`). `RaftCore` reaches states with several leaders and committed entries in which
all four hold; a batch that carries the whole suffix makes the last one true.
The usual argument (a committed entry is in the log of every later leader) is not inductive, because
between an acknowledgement and the commit nobody knows that the entry is safe. `SInv` speaks of acknowledgements instead.
An entry `i` of term `t` is `Dead` once a majority is past `t` without having acknowledged it: it can never
be committed, and stays dead, because an acknowledgement carries the term of its sender. `Safe(E)` says
that an entry which is not dead is `Kept` by whoever acknowledged it (`AcksSafe`), by a candidate that has the
vote of such a node (`VotesSafe`; `UpToDateKeeps` is why the comparison of last term and index is enough), and in
the canonical log of every later term that has a leader (`TermsSafe`). In `TermsSafe` a new leader has
a majority of votes: either one of the voters acknowledged the entry, and the candidate has it, or none did, and
the voters, all past `t`, make it dead. The rest of `Safe` is what that needs of messages and of the leader's progress: a
request describes the sender's log, `next_index` stays within the log (what finding 5 breaks), and
`match_index` was acknowledged.
`Commits(E)` then says that what a node has committed was `Decided`, acknowledged by a majority as an entry of its
own term, and is the beginning of its log; `DecidedAlive` (two majorities meet) takes it out of the reach of `Dead`.
A step is reduced to what one node does (`Proceeds`: the log stays, is grafted onto the canonical one, or
leads) and to how it may commit (`CommitFits`: not at all, what the leader told and the log has, or what the leader tallied);
`SafeStep` and `CommitsMove` are proved once, and each handler is shown to be such a step.

Only model-checked, and why:

- liveness: fairness and `ENABLED` are outside the prover;
- `LeaderCompleteness`, `AppliedIsStored` and `MatchIsStored` of Raft do not hold for every setup: findings 3, 4
  and 5 refute them, and they are proved up to there. `RaftCore` checks them unconditionally, in setups that keep clear
  of the findings;
- the invariants of `RaftCluster` (`SameStream`, `LeaderHasApplied`, `ReadsAreCurrent`): membership changes make
  the majorities of two terms differ, and finding 6 takes applied entries back; the argument above is
  for a fixed voter set;
- `WindowsAgree` of HTTP/2 is proved for clients that do not extend the window of a request they have
  completed before its response begins; for the others it does not hold (finding 8, `Http2EarlyUpdate`);
- the properties of MQTT (`PublishedOnce`, `ShownOnce`): they bound how often a QoS 2 letter is routed or shown by one, plus the
  repetitions of finding 9, and they depend on the setups:
  an acknowledgement that is still on its way when its packet id is used again
  ends the wrong exchange, so they need as many ids as there are letters under way.

## 5. Findings

1. `async_wait_group` (`coro/wait_group_impl.cpp:47`): `done()` decrements in one step and
   drains the list in another without looking at the count again. If the group is
   reused in between, the waiters of the new round are resumed although its work
   is pending. The counterexample needs a second round.
2. `channel` on several loops (`coro/channel.cppm:361`): `await_suspend` looks again at
   `closed_` only. A value sent since `await_ready` stays in the buffer while the receiver
   sleeps; symmetrically a sender sleeps beside free space. For the same reason
   a `receive()` may return nullopt from a closed channel that has a value, and the
   order of delivery is claimed for one loop only. Values are never lost or doubled.
3. Raft (`protocol/raft/node.cpp:445`): a follower bounds the leader's commit index by its
   own last index instead of the last entry the request covers. With small
   batches, or an append sent while the in-flight window is full, a stale tail is
   applied. Shown with one entry per append; the passing runs use appends that
   carry the whole suffix.
4. Raft (`protocol/raft/raft_runtime_impl.cpp:196`): the heartbeat looks at the role, awaits
   the cleanup of snapshot files on another thread, and replicates without looking
   again. A leader deposed meanwhile sends its entries under the term of its
   successor, which takes them for those of the leader of the term, steps down and
   truncates what it has committed. The election properties are not affected
   (the theorems cover this step); the log properties are checked with heartbeats
   that no change of term interrupts.
5. Raft (`protocol/raft/progress.cpp:116`): the answer to an append of an earlier term carries the
   current term and the length of the follower's log. A node that leads again takes it for
   the answer to one of its own appends and sets `next_index` beyond the end of its log; it then
   asks about an index where neither side has anything (term 0), the follower
   acknowledges it, and the next command counts as replicated there. It is committed while the
   leader alone has it. Found while looking for an inductive invariant of the
   leader's progress.
6. Raft (`protocol/raft/node.cpp:489`): an `InstallSnapshot` is compared with nothing the
   follower has. One that arrives after the entries that follow it restores the state
   machine to its own index, while `commit_index` and `last_applied` keep the larger value (`max()`, `node.cpp:540`).
   `apply_committed()` goes on after `last_applied` (`node.cpp:1079`): the entries in between are skipped and the
   state machine never gets them again. The passing run installs snapshots that are ahead of the follower's log.
7. MQTT broker (`protocol/mqtt/broker/runtime.cpp:920`): a letter for a persistent session whose connection
   is registered goes to the delivery channel of that connection. In the trace the client subscribes
   and the connection is lost; a letter is put in the channel; the writer fails on the SUBACK, marks the
   connection and closes its channels; `delivery_loop()` stops at its next look at `connected`
   (`runtime.cpp:1196`, `1211`) and the letter ends with the channel, neither in flight nor in the offline queue of the session.
   A letter whose own write failed (`runtime.cpp:1287`) and one that is in the channel when
   `cleanup_connection()` closes it (`runtime.cpp:2085`) end the same way. QoS 1 is at most once
   across a lost connection.
8. HTTP/2 (`protocol/http/v2/session.cpp:1253`): a stream is created for a bodiless request only
   when its response has to wait, so a `WINDOW_UPDATE` for the stream that was processed
   before is gone, and the response waits for credit that the client believes it
   has given. The passing run has no such update.

Four more have no configuration of their own. For the first two the
passing runs check a property with these cases taken out by name; the stricter property is stated
beside it, and checking it as described shows the case.

9. MQTT, QoS 2 repeated, against `docs/en/protocols/mqtt.md:139`, "QoS 2: Exactly once". (a) `retry_loop` of the
   broker (`protocol/mqtt/broker/runtime.cpp:1346`) sends the PUBLISH again whichever answer it waits for. When the
   client has answered PUBREL and forgotten the id, while PUBCOMP is on its way, it takes the repetition for
   a new letter and shows it twice. `MqttLost.cfg` with
   `MqttSetups <- RetriedLetter` and `INVARIANT NothingTwice` has the trace (26 states). (b) When a session is taken over, the handler of the
   old connection may not have recorded yet that PUBREL was sent, and the letter is sent again on the
   new one and shown twice. (c) With a takeover and a retry of the client a published letter is
   routed twice: the old connection and the new one each handle a copy. `MCMqttSetups` has setups for all three; `PublishedOnce` and `ShownOnce`
   allow a repetition for a retry of the client in a session that can be taken over, for a retry of the broker and for a takeover, and for nothing
   else.
10. Raft reads, against `docs/en/protocols/raft.md:174`, "It is now safe to serve a read from the local state
   machine". `read_index()` (`protocol/raft/node.cpp:821`) does not ask whether the leader has committed anything in its term.
   A new leader whose commit index is behind confirms a read with a quorum at that index, and
   misses entries that its predecessor has committed; no option is needed for it. `RaftCluster.cfg` with `INVARIANT EveryReadIsCurrent` shows it (8
   states). With `lease_read` (`node.cpp:842`) a read is ready at once while `leader_lease_valid()`
   (`node.cpp:148`). Nothing ties the lease to the election of a successor: it runs from the receipt of an
   answer, not from the request that was answered, and the activity of the peers is set on sending (`progress.cpp:76`). `raft.md:186` asks
   for `check_quorum` only. The clock is not modelled, so the model lets a lease be trusted at any time; `ReadsAreCurrent`
   is stated for reads that a quorum confirmed (`leased` is false) and that came after the leader had committed in its term (`settled`).
11. Raft: when `save_hard_state` throws in `handle_request_vote`
   (`protocol/raft/node.cpp:322`), the node stops, but the granted vote is returned and sent
   (`FailVote`); after a restart it may vote again. This is why the theorems claim nothing
   after a failure (`StorageWorked`).
12. Breaker: half-open admits any number of calls, although `coro/circuit_breaker.cppm:55` speaks of
   limited requests; results of calls from before it opened are counted, too. `ClosesOnEvidence` says what is true of it.

Observations made while modelling, which contradict no line of the repository:

- Raft: a restarted node forgets the configurations it has committed, unless a
  snapshot holds them (`node.cpp:43`); a configuration takes effect when applied, not when
  appended; `quorum_size() == 1` looks at the new voters only; `create_snapshot` stores the
  configuration in force, whatever index it is from; a
  crash between `on_apply` and the save applies an entry twice (`node.cpp:1073`).
- Task group: `run()` accepts children after the first error; those are not cancelled.
- MQTT: a connection that was taken over erases the registration of its successor
  when it is cleaned up (`runtime.cpp:2108`); a failed CONNACK returns without cleanup
  (`runtime.cpp:1592`);
  `deliver_offline_queue` does not look at `receive_maximum`; the client's `retry_loop` keeps an
  iterator across an await (`connection.cpp:1107`); a server DISCONNECT or a missed PINGRESP does not
  start the reconnect (`connection.cpp:734`), and neither does a retry that could not be written (`connection.cpp:1108`): publishes that wait
  stay suspended.
- HTTP/2: bytes of a body the handler never reads stay charged to the connection;
  header blocks of streamed responses are encoded before the writer lock is awaited
  (`session.cpp:580`); DATA for a stream that an early response has retired ends the connection
  (`session.cpp:1201`).

## 6. Not modelled, and the plan

Partly modelled: the clock behind the leader lease (a lapse happens at any
time, and a lease read may trust it at any time); storage failures in `step_down` on an append, in the leader's own appends, in
`become_leader` and while the cluster changes; a crash between the two saves of one vote, or between
applying and saving; the native operations a cancel token may hold; `run_one`, `poll`, timers, and failures of
`epoll_ctl` other than in `add`; MQTT
subscriptions (one filter, set once; no unsubscribing, no shared subscriptions), retained and will messages, expiry and persistence; HTTP/2
header compression, PING and GOAWAY; the client side of HTTP/2.

Not modelled: byte formats and parsers, the io_uring, kqueue and IOCP loops, TLS, wrappers of the
operating system, query builders and the application framework, which have no
order of events to get wrong or none that can be told apart from the platform
below; clients of brokers and databases, whose peers are external and whose code is
one request and one response at a time; QUIC and HTTP/3, whose state is
arithmetic on bytes and clocks within one connection, the size of which (some
fifteen thousand lines) would need a project of its own; the lock-free
containers, whose hazards are those of a weak memory model. They make up most of
the repository: its models cover the parts with a protocol of their own.

Next: QUIC loss recovery and stream flow control as a component of their own, the io_uring and IOCP loops
as variants of `EventLoop`; a statement of MQTT's exactly-once in terms of the packet ids in use, for a proof.

## 7. Running

```
tlc -workers 2 -config Primitives.cfg MCPrimitives
tlc -workers 2 -config Components.cfg MCComponents
tlc -workers 2 -config RaftCore.cfg MCRaft
tlapm RaftProofs.tla
```

The module of each configuration is in `PROJECT.json` under `runs`; `map` there gives for every
definition the lines it models. The Raft runs and `Components` take up to three
minutes each, the others seconds; `Http2Proofs` takes about ten, `RaftSafetyProofs` six, `CancellationProofs` and `RaftProofs` take several, the
other proofs one or two.
