-------------------------------- MODULE Raft --------------------------------
(***************************************************************************)
(* The Raft core of src/protocol/raft with a fixed voter set: raft_node     *)
(* (node.cpp), its log_manager and progress_tracker, and the dispatch of    *)
(* raft_tcp_transport, which turns one received message into one handler    *)
(* call and the messages that follow from it.  The node's methods are       *)
(* functions from a node's state to its next state; an action applies one   *)
(* of them to the node that received a message or whose timer fired.        *)
(*                                                                          *)
(* Messages are put into a set and never taken out, so any of them may be   *)
(* lost, delayed, reordered or received again.  A log entry is the term it  *)
(* was appended in.  Membership changes, snapshots, ReadIndex and the clock *)
(* behind the lease are not part of this module.                            *)
(***************************************************************************)
EXTENDS Naturals, Sequences, FiniteSets, SequencesExt, FiniteSetsExt

CONSTANTS
    Server,               \* the voters
    Nil,                  \* an empty node_id
    MaxEntriesPerAppend,  \* raft_options::max_entries_per_append
    Setups                \* the setups a behaviour may have, see setup

(* The events a setup bounds.                                               *)
Events == {"command", "restart", "lapse", "transfer", "failure", "await"}

ASSUME RaftAssumption ==
    /\ IsFiniteSet(Server) /\ Nil \notin Server
    /\ MaxEntriesPerAppend \in Nat \ {0}
    /\ Setups \subseteq [preVote : BOOLEAN, window : SUBSET Server, campaigners : SUBSET Server,
                         maxTerm : Nat, bound : [Events -> Nat]]

VARIABLES
    node,      \* node[n]: the raft_node object of n
    disk,      \* disk[n]: the term and the vote in n's saved hard state
    msgs,      \* every message sent so far
    leaders,   \* history: <<term, node>> of every election won
    spent,     \* how often each bounded event has happened
    setup      \* raft_options::pre_vote and the bounds of the behaviour: to
               \* whom an in-flight window may be full, whose election timer
               \* may fire, up to which term, and how often each event happens

vars == <<node, disk, msgs, leaders, spent, setup>>

-----------------------------------------------------------------------------
(* The state of a node that has just been constructed on what it finds in   *)
(* its storage: term, vote, log and what has been committed and applied.    *)
(* applied is the sequence of entries on_apply() has been called with.      *)
Restored(term, vote, log, commit, applied) ==
    [role |-> "follower", term |-> term, vote |-> vote, leader |-> Nil,
     votes |-> {}, log |-> log, commit |-> commit, applied |-> applied,
     next |-> [p \in Server |-> 1], match |-> [p \in Server |-> 0],
     mode |-> [p \in Server |-> "probe"], transfer |-> Nil, stopped |-> FALSE,
     awaiting |-> FALSE]

Spend(e) == spent[e] < setup.bound[e] /\ spent' = [spent EXCEPT ![e] = @ + 1]

HardState(s) == [term |-> s.term, vote |-> s.vote]

Init ==
    /\ node = [n \in Server |-> Restored(0, Nil, << >>, 0, << >>)]
    /\ disk = [n \in Server |-> [term |-> 0, vote |-> Nil]]
    /\ msgs = {}
    /\ leaders = {}
    /\ spent = [e \in Events |-> 0]
    /\ setup \in Setups

-----------------------------------------------------------------------------
(* The log.                                                                 *)
Min2(a, b) == IF a <= b THEN a ELSE b
Max2(a, b) == IF a >= b THEN a ELSE b

TermAt(log, i) == IF i \in 1 .. Len(log) THEN log[i] ELSE 0
LastTerm(log) == TermAt(log, Len(log))

(* Fault: the longer log wins whatever its terms.                           *)
LongerLog(log, lastIndex, lastTerm) == lastIndex >= Len(log)

(* is_log_at_least_up_to_date()                                             *)
UpToDate(log, lastIndex, lastTerm) ==
    \/ lastTerm > LastTerm(log)
    \/ lastTerm = LastTerm(log) /\ lastIndex >= Len(log)

(* Fault: entries are compared with nothing, only missing ones are added.   *)
MissingEntries(log, prev, entries) == {i \in 1 .. Len(entries) : prev + i > Len(log)}

(* append_from_leader(): where the local log first disagrees with the       *)
(* entries that follow prev, and the log with them in place.                *)
Conflicts(log, prev, entries) ==
    {i \in 1 .. Len(entries) : TermAt(log, prev + i) # entries[i]}

(* Fault: the log is cut after prev even when nothing conflicts.            *)
CutAndAppended(log, prev, entries) == SubSeq(log, 1, Min2(prev, Len(log))) \o entries

Spliced(log, prev, entries) ==
    IF Conflicts(log, prev, entries) = {}
    THEN log
    ELSE LET i == Min(Conflicts(log, prev, entries))
         IN SubSeq(log, 1, prev + i - 1) \o SubSeq(entries, i, Len(entries))

(* conflict_result(): the first index of the run of equal terms that ends   *)
(* at prev, or one past a log that is too short.                            *)
ConflictIndex(log, prev) ==
    IF TermAt(log, prev) = 0
    THEN Len(log) + 1
    ELSE Min({i \in 1 .. prev : \A j \in i .. prev : log[j] = log[prev]})

-----------------------------------------------------------------------------
(* The node's internal methods.                                             *)
HasQuorum(S) == 2 * Cardinality(S) > Cardinality(Server)

StepDown(s, term) ==
    [s EXCEPT !.role = "follower",
              !.term = term,
              !.vote = IF term # s.term THEN Nil ELSE s.vote,
              !.votes = {},
              !.transfer = Nil]

(* Commit up to index c and apply_committed(): on_apply() gets the entries  *)
(* after the last applied one, in order.                                    *)
Commit(s, c) ==
    [s EXCEPT !.commit = c,
              !.applied = s.applied \o SubSeq(s.log, Len(s.applied) + 1, c)]

(* A one-voter cluster commits what it appends at once.                     *)
CommitAlone(s) == IF Cardinality(Server) = 1 THEN Commit(s, Len(s.log)) ELSE s

(* advance_commit_index(): the highest index of the current term that a     *)
(* quorum has.                                                              *)
Committable(n, s) ==
    {i \in s.commit + 1 .. Len(s.log) :
        /\ HasQuorum({p \in Server : p = n \/ s.match[p] >= i})
        /\ s.log[i] = s.term}

AdvanceCommit(n, s) ==
    IF Committable(n, s) = {} THEN s ELSE Commit(s, Max(Committable(n, s)))

(* become_leader(): progress is reset and a no-op entry appended.           *)
BecomeLeader(n, s) ==
    LET last == Len(s.log)
    IN CommitAlone(
         [s EXCEPT !.role = "leader",
                   !.leader = n,
                   !.votes = {},
                   !.log = Append(s.log, s.term),
                   !.next = [p \in Server |-> IF p = n THEN last + 2 ELSE last + 1],
                   !.match = [p \in Server |-> IF p = n THEN last + 1 ELSE 0],
                   !.mode = [p \in Server |-> "probe"]])

(* begin_pre_vote(): asks without changing the term.                        *)
BeginPreVote(n, s) == [s EXCEPT !.role = "pre_candidate", !.votes = {n}]

(* begin_election(): a lone voter wins at once.                             *)
Candidate(n, s) ==
    [s EXCEPT !.role = "candidate", !.leader = Nil, !.term = s.term + 1,
              !.vote = n, !.votes = {n}]

BeginElection(n, s) ==
    IF HasQuorum({n}) THEN BecomeLeader(n, Candidate(n, s)) ELSE Candidate(n, s)

-----------------------------------------------------------------------------
(* Sending.  The transport may drop a message at any point; every message   *)
(* carries the addresses its envelope has.                                  *)
Send(ms) == msgs' = msgs \cup ms

(* The outcome of a handler: n's object is now s and its hard state saved.  *)
Update(n, s) ==
    /\ node' = [node EXCEPT ![n] = s]
    /\ disk' = [disk EXCEPT ![n] = HardState(s)]
    /\ leaders' = IF s.role = "leader" THEN leaders \cup {<<s.term, n>>} ELSE leaders

VoteRequests(n, s, pre) ==
    {[type |-> "RequestVote", pre |-> pre, from |-> n, to |-> p,
      term |-> IF pre THEN s.term + 1 ELSE s.term,
      lastIndex |-> Len(s.log), lastTerm |-> LastTerm(s.log)] : p \in Server \ {n}}

VoteResponse(m, term, granted) ==
    [type |-> "VoteResponse", pre |-> m.pre, from |-> m.to, to |-> m.from,
     term |-> term, granted |-> granted]

(* make_append_entries(): at most MaxEntriesPerAppend entries from the      *)
(* peer's next index on, and none while its in-flight window is full.       *)
AppendRequest(n, s, p, full) ==
    LET next == Max2(s.next[p], 1)
    IN [type |-> "AppendEntries", from |-> n, to |-> p, term |-> s.term,
        prev |-> next - 1, prevTerm |-> TermAt(s.log, next - 1),
        entries |-> IF full THEN << >>
                    ELSE SubSeq(s.log, next, Min2(next + MaxEntriesPerAppend - 1, Len(s.log))),
        commit |-> s.commit]

AppendResponse(m, term, success, match, conflict) ==
    [type |-> "AppendResponse", from |-> m.to, to |-> m.from, term |-> term,
     success |-> success, match |-> match, conflict |-> conflict]

(* mark_append_sent(): next runs ahead of what is acknowledged only in the  *)
(* replicate state.                                                         *)
MarkSent(n, s, full) ==
    LET LastSent(p) == LET m == AppendRequest(n, s, p, p \in full)
                       IN m.prev + Len(m.entries)
    IN [s EXCEPT !.next = [p \in Server |->
          IF p # n /\ s.mode[p] = "replicate"
          THEN Max2(s.next[p], LastSent(p) + 1) ELSE s.next[p]]]

(* The peers whose in-flight window is full are chosen freely among those   *)
(* in the replicate state.                                                  *)
FullWindows(s) == SUBSET {p \in setup.window : s.mode[p] = "replicate"}

AppendRequests(n, s, full) == {AppendRequest(n, s, p, p \in full) : p \in Server \ {n}}

ReplicateToAll(n, s) ==
    \E full \in FullWindows(s) :
        Update(n, MarkSent(n, s, full)) /\ Send(AppendRequests(n, s, full))

-----------------------------------------------------------------------------
(* Timers.                                                                  *)

(* election_loop(): the election timeout of a node that does not lead.      *)
ElectionTimeout(n) ==
    LET s == node[n]
    IN /\ ~s.stopped /\ s.role # "leader"
       /\ n \in setup.campaigners /\ s.term < setup.maxTerm
       /\ UNCHANGED spent
       /\ IF setup.preVote
          THEN Update(n, BeginPreVote(n, s)) /\ Send(VoteRequests(n, s, TRUE))
          ELSE Update(n, BeginElection(n, s)) /\ Send(VoteRequests(n, Candidate(n, s), FALSE))

(* heartbeat_loop() awaits cleanup_snapshot_files(), which runs on a thread *)
(* of its own, between looking at the role and replicate_to_all().  Here    *)
(* nothing else happens to the node in between.                             *)
Heartbeat(n) ==
    /\ node[n].role = "leader" /\ ~node[n].awaiting
    /\ ReplicateToAll(n, node[n])
    /\ UNCHANGED spent

(* The same with the event loop handling messages and timers in between:    *)
(* the role is not looked at again when the cleanup is done.                *)
HeartbeatAwait(n) ==
    /\ node[n].role = "leader" /\ ~node[n].awaiting
    /\ Spend("await")
    /\ Update(n, [node[n] EXCEPT !.awaiting = TRUE])
    /\ UNCHANGED msgs

HeartbeatResume(n) ==
    LET s == [node[n] EXCEPT !.awaiting = FALSE]
    IN /\ node[n].awaiting
       /\ \E full \in FullWindows(s) :
             /\ node' = [node EXCEPT ![n] = MarkSent(n, s, full)]
             /\ Send(AppendRequests(n, s, full))
       /\ UNCHANGED <<disk, leaders, spent>>

(* check_leader_quorum(): the lease has run out.                            *)
CheckQuorum(n) ==
    /\ ~node[n].stopped /\ node[n].role = "leader"
    /\ Cardinality(Server) > 1
    /\ Spend("lapse")
    /\ Update(n, StepDown(node[n], node[n].term))
    /\ UNCHANGED msgs

-----------------------------------------------------------------------------
(* Votes.                                                                   *)

(* handle_request_vote() for a pre-vote: an opinion that changes nothing.   *)
HandlePreVote(m) ==
    LET s == node[m.to]
        grant == /\ ~s.stopped
                 /\ m.term >= s.term
                 /\ UpToDate(s.log, m.lastIndex, m.lastTerm)
    IN /\ m.type = "RequestVote" /\ m.pre
       /\ Send({VoteResponse(m, s.term, grant)})
       /\ UNCHANGED <<node, disk, leaders, spent>>

(* Fault: an earlier vote in the term is not looked at.                     *)
MayGrantAgain(s, m) == UpToDate(s.log, m.lastIndex, m.lastTerm)

(* Whether the vote is free and the candidate's log good enough.           *)
MayGrant(s, m) == s.vote \in {Nil, m.from} /\ UpToDate(s.log, m.lastIndex, m.lastTerm)

(* Fault: the vote is granted and not recorded.                             *)
VotedUnrecorded(s, m) ==
    LET s1 == IF m.term > s.term THEN StepDown(s, m.term) ELSE s
    IN IF MayGrant(s1, m) THEN [s1 EXCEPT !.leader = Nil] ELSE s1

(* What a request to vote makes of the voter's state.                       *)
Voted(s, m) ==
    LET s1 == IF m.term > s.term THEN StepDown(s, m.term) ELSE s
    IN IF MayGrant(s1, m) THEN [s1 EXCEPT !.vote = m.from, !.leader = Nil] ELSE s1

HandleRequestVote(m) ==
    LET s == node[m.to]
        s1 == IF m.term > s.term THEN StepDown(s, m.term) ELSE s
    IN /\ m.type = "RequestVote" /\ ~m.pre
       /\ UNCHANGED spent
       /\ IF s.stopped \/ m.term < s.term
          THEN /\ Send({VoteResponse(m, s.term, FALSE)})
               /\ UNCHANGED <<node, disk, leaders>>
          ELSE /\ Update(m.to, Voted(s, m))
               /\ Send({VoteResponse(m, m.term, MayGrant(s1, m))})

HandleVoteResponse(m) ==
    LET n == m.to
        s == node[n]
        s1 == [s EXCEPT !.votes = @ \cup {m.from}]
    IN /\ m.type = "VoteResponse"
       /\ ~s.stopped
       /\ UNCHANGED spent
       /\ \/ /\ m.term > s.term
             /\ Update(n, StepDown(s, m.term))
             /\ UNCHANGED msgs
          \/ /\ m.term <= s.term
             /\ m.pre /\ s.role = "pre_candidate" /\ m.granted
             /\ IF HasQuorum(s1.votes)
                THEN /\ s.term < setup.maxTerm
                     /\ Update(n, BeginElection(n, s1))
                     /\ Send(VoteRequests(n, Candidate(n, s1), FALSE))
                ELSE Update(n, s1) /\ UNCHANGED msgs
          \/ /\ m.term = s.term
             /\ ~m.pre /\ s.role = "candidate" /\ m.granted
             /\ IF HasQuorum(s1.votes)
                THEN ReplicateToAll(n, BecomeLeader(n, s1))
                ELSE Update(n, s1) /\ UNCHANGED msgs

-----------------------------------------------------------------------------
(* Replication.                                                             *)

(* append_command().                                                        *)
AppendCommand(n) ==
    LET s == node[n]
    IN /\ ~s.stopped /\ s.role = "leader"
       /\ Spend("command")
       /\ Update(n, CommitAlone([s EXCEPT !.log = Append(@, s.term)]))
       /\ UNCHANGED msgs

(* handle_append_entries() up to the log: the sender is the leader.         *)
Follow(s, m) ==
    LET s1 == IF m.term > s.term \/ s.role # "follower" THEN StepDown(s, m.term) ELSE s
    IN [s1 EXCEPT !.leader = m.from]

(* The commit index follows the leader's as far as the local log reaches.   *)
FollowCommit(s, m) ==
    IF m.commit > s.commit THEN Commit(s, Min2(m.commit, Len(s.log))) ELSE s

HandleAppendEntries(m) ==
    LET n == m.to
        s == node[n]
        s1 == Follow(s, m)
        s2 == [s1 EXCEPT !.log = Spliced(s1.log, m.prev, m.entries)]
    IN /\ m.type = "AppendEntries"
       /\ UNCHANGED spent
       /\ \/ /\ s.stopped \/ m.term < s.term
             /\ Send({AppendResponse(m, s.term, FALSE, Len(s.log), 0)})
             /\ UNCHANGED <<node, disk, leaders>>
          \/ /\ ~s.stopped /\ m.term >= s.term
             /\ TermAt(s.log, m.prev) # m.prevTerm
             /\ Update(n, s1)
             /\ Send({AppendResponse(m, m.term, FALSE, IF m.prev > 0 THEN m.prev - 1 ELSE 0,
                                     ConflictIndex(s.log, m.prev))})
          \/ /\ ~s.stopped /\ m.term >= s.term
             /\ TermAt(s.log, m.prev) = m.prevTerm
             /\ Update(n, FollowCommit(s2, m))
             /\ Send({AppendResponse(m, m.term, TRUE, m.prev + Len(m.entries), 0)})

(* mark_replicated() and mark_rejected().                                   *)
MarkReplicated(s, p, index) ==
    LET match == Max2(s.match[p], index)
    IN [s EXCEPT !.match[p] = match, !.next[p] = Max2(@, match + 1), !.mode[p] = "replicate"]

MarkRejected(s, m) ==
    [s EXCEPT !.mode[m.from] = "probe",
              !.next[m.from] = IF m.conflict # 0 THEN m.conflict ELSE Max2(m.match, 1)]

TimeoutNow(n, s, p) == [type |-> "TimeoutNow", from |-> n, to |-> p, term |-> s.term]

(* take_pending_leader_transfer(): the target has caught up.                *)
TransferDue(s, p) == s.role = "leader" /\ s.transfer = p /\ s.match[p] >= Len(s.log)

HandleAppendResponse(m) ==
    LET n == m.to
        s == node[n]
        s1 == IF m.success THEN AdvanceCommit(n, MarkReplicated(s, m.from, m.match))
              ELSE MarkRejected(s, m)
    IN /\ m.type = "AppendResponse"
       /\ ~s.stopped
       /\ UNCHANGED spent
       /\ \/ /\ m.term > s.term
             /\ Update(n, StepDown(s, m.term))
             /\ UNCHANGED msgs
          \/ /\ m.term = s.term /\ s.role = "leader"
             /\ \/ /\ TransferDue(s1, m.from)
                   /\ Update(n, [s1 EXCEPT !.transfer = Nil])
                   /\ Send({TimeoutNow(n, s1, m.from)})
                \/ /\ ~TransferDue(s1, m.from) /\ m.success
                   /\ ReplicateToAll(n, s1)
                \/ /\ ~TransferDue(s1, m.from) /\ ~m.success
                   /\ Update(n, s1)
                   /\ UNCHANGED msgs

-----------------------------------------------------------------------------
(* Leader transfer.                                                         *)
TransferLeader(n, p) ==
    LET s == [node[n] EXCEPT !.transfer = p]
    IN /\ ~s.stopped /\ s.role = "leader" /\ p # n
       /\ Spend("transfer")
       /\ IF TransferDue(s, p)
          THEN Update(n, [s EXCEPT !.transfer = Nil]) /\ Send({TimeoutNow(n, s, p)})
          ELSE ReplicateToAll(n, s)

HandleTimeoutNow(m) ==
    LET n == m.to
        s == node[n]
        s1 == IF m.term > s.term THEN StepDown(s, m.term) ELSE s
    IN /\ m.type = "TimeoutNow"
       /\ UNCHANGED spent
       /\ ~s.stopped /\ m.term >= s.term
       /\ IF s1.leader \notin {Nil, m.from}
          THEN Update(n, s1) /\ UNCHANGED msgs
          ELSE /\ s1.term < setup.maxTerm
               /\ Update(n, BeginElection(n, s1))
               /\ Send(VoteRequests(n, Candidate(n, s1), FALSE))

-----------------------------------------------------------------------------
(* Crashes and storage failures.                                            *)

(* The process ends and a new raft_node is constructed on the storage.      *)
RestoredFrom(s, hard, log) == Restored(hard.term, hard.vote, log, s.commit, s.applied)

Restart(n) ==
    /\ Spend("restart")
    /\ Update(n, RestoredFrom(node[n], disk[n], node[n].log))
    /\ UNCHANGED msgs

(* The log as it is between truncate_suffix() and append().                 *)
Truncated(log, m) ==
    IF Conflicts(log, m.prev, m.entries) = {}
    THEN log
    ELSE SubSeq(log, 1, Min2(m.prev + Min(Conflicts(log, m.prev, m.entries)) - 1, Len(log)))

Accepts(m) ==
    LET s == node[m.to]
    IN /\ m.type = "AppendEntries" /\ ~s.stopped /\ m.term >= s.term
       /\ TermAt(s.log, m.prev) = m.prevTerm

(* The process dies inside handle_append_entries(), before the append.      *)
CrashInAppend(m) ==
    LET s == Follow(node[m.to], m)
    IN /\ Accepts(m)
       /\ Spend("restart")
       /\ Update(m.to, RestoredFrom(s, HardState(s), Truncated(s.log, m)))
       /\ UNCHANGED msgs

(* stop(): the node answers but does nothing any more.                      *)
Stop(s) == [s EXCEPT !.role = "follower", !.votes = {}, !.transfer = Nil, !.stopped = TRUE]

(* A step whose storage call throws leaves n as s, stopped, with the hard   *)
(* state h on disk.                                                         *)
Fail(n, s, h) ==
    /\ Spend("failure")
    /\ node' = [node EXCEPT ![n] = Stop(s)]
    /\ disk' = [disk EXCEPT ![n] = h]
    /\ UNCHANGED leaders

(* save_hard_state() throws in handle_request_vote(), in step_down() or     *)
(* when the vote is recorded; the response is sent all the same.            *)
FailVote(m) ==
    LET n == m.to
        s == node[n]
        s1 == IF m.term > s.term THEN StepDown(s, m.term) ELSE s
    IN /\ m.type = "RequestVote" /\ ~m.pre
       /\ ~s.stopped /\ m.term >= s.term
       /\ \/ m.term > s.term /\ Fail(n, Voted(s, m), disk[n])
          \/ MayGrant(s1, m) /\ Fail(n, Voted(s, m), HardState(s1))
       /\ Send({VoteResponse(m, m.term, MayGrant(s1, m))})

(* The snapshot or the cleanup of a heartbeat fails.                        *)
FailHeartbeat(n) ==
    /\ node[n].role = "leader" \/ node[n].awaiting
    /\ Fail(n, [node[n] EXCEPT !.awaiting = FALSE], disk[n])
    /\ UNCHANGED msgs

(* save_hard_state() throws in begin_election(); the requests are sent.     *)
FailElection(n) ==
    LET s == node[n]
    IN /\ ~s.stopped /\ s.role # "leader"
       /\ n \in setup.campaigners /\ s.term < setup.maxTerm /\ ~setup.preVote
       /\ Fail(n, Candidate(n, s), disk[n])
       /\ Send(VoteRequests(n, Candidate(n, s), FALSE))

(* Fault: the failed append is acknowledged.                                *)
FailAppendAcks(m) ==
    LET s == Follow(node[m.to], m)
        s1 == [s EXCEPT !.log = Truncated(s.log, m)]
    IN /\ Accepts(m)
       /\ Fail(m.to, s1, HardState(s1))
       /\ Send({AppendResponse(m, s1.term, TRUE, m.prev + Len(m.entries), 0)})

(* append() throws in append_from_leader().                                 *)
FailAppend(m) ==
    LET s == Follow(node[m.to], m)
        s1 == [s EXCEPT !.log = Truncated(s.log, m)]
    IN /\ Accepts(m)
       /\ Fail(m.to, s1, HardState(s1))
       /\ Send({AppendResponse(m, s1.term, FALSE, Len(s1.log), 0)})

-----------------------------------------------------------------------------
Step ==
    \/ \E n \in Server :
          \/ ElectionTimeout(n) \/ CheckQuorum(n)
          \/ Heartbeat(n) \/ HeartbeatAwait(n) \/ HeartbeatResume(n)
          \/ AppendCommand(n) \/ Restart(n) \/ FailElection(n) \/ FailHeartbeat(n)
          \/ \E p \in Server : TransferLeader(n, p)
    \/ \E m \in msgs :
          \/ HandlePreVote(m) \/ HandleRequestVote(m) \/ HandleVoteResponse(m)
          \/ HandleAppendEntries(m) \/ HandleAppendResponse(m)
          \/ HandleTimeoutNow(m)
          \/ CrashInAppend(m) \/ FailVote(m) \/ FailAppend(m)

Next == Step /\ UNCHANGED setup

Spec == Init /\ [][Next]_vars

-----------------------------------------------------------------------------
Roles == {"follower", "pre_candidate", "candidate", "leader"}

(* Every field has its type, and commit_index is never beyond the log       *)
(* (node.cpp:443-448).                                                      *)
TypeOK ==
    /\ \A n \in Server :
          LET s == node[n]
          IN /\ s.role \in Roles /\ s.term \in Nat /\ s.vote \in Server \cup {Nil}
             /\ s.leader \in Server \cup {Nil} /\ s.votes \in SUBSET Server
             /\ s.log \in Seq(Nat) /\ s.applied \in Seq(Nat)
             /\ s.commit \in 0 .. Len(s.log)
             /\ s.next \in [Server -> Nat] /\ s.match \in [Server -> Nat]
             /\ s.awaiting \in BOOLEAN
    /\ disk \in [Server -> [term : Nat, vote : Server \cup {Nil}]]

(* At most one node wins the election of a term, whatever is lost, repeated *)
(* or restarted (node.cpp:278-366).                                         *)
ElectionSafety == \A e, f \in leaders : e[1] = f[1] => e = f

(* No storage call has thrown yet: once one has, a vote may be given that   *)
(* is not on disk (FailVote).                                               *)
StorageWorked == spent["failure"] = 0

(* As long as storage works, a vote that was granted is on disk: a          *)
(* restarted node remembers it or has moved on to a later term              *)
(* (node.cpp:313-325).                                                      *)
VotesAreDurable ==
    StorageWorked =>
        \A m \in msgs :
            m.type = "VoteResponse" /\ ~m.pre /\ m.granted =>
                \/ disk[m.from].term > m.term
                \/ disk[m.from] = [term |-> m.term, vote |-> m.to]

Agree(a, b, i) == i <= Len(a) /\ i <= Len(b) /\ SubSeq(a, 1, i) = SubSeq(b, 1, i)

(* Two logs with the same term at an index are the same up to there.        *)
LogMatching ==
    \A a, b \in Server : \A i \in DOMAIN node[a].log \cap DOMAIN node[b].log :
        node[a].log[i] = node[b].log[i] => Agree(node[a].log, node[b].log, i)

(* All replicas apply the same command stream: of any two, one has applied  *)
(* a prefix of what the other has.                                          *)
StateMachineSafety ==
    \A a, b \in Server :
        IsPrefix(node[a].applied, node[b].applied) \/ IsPrefix(node[b].applied, node[a].applied)

(* What a node has applied is still in its log: the truncation of a         *)
(* conflicting suffix never reaches a committed entry.                      *)
AppliedIsStored == \A n \in Server : IsPrefix(node[n].applied, node[n].log)

(* A leader has every entry that anybody in its term or before has applied. *)
LeaderCompleteness ==
    \A l, n \in Server :
        node[l].role = "leader" /\ node[l].term >= node[n].term
            => IsPrefix(node[n].applied, node[l].log)

(* match_index tells the truth: a follower that has not moved on to a later *)
(* term holds the leader's log up to there.                                 *)
MatchIsStored ==
    \A l, p \in Server :
        node[l].role = "leader" /\ node[p].term <= node[l].term
            => Agree(node[l].log, node[p].log, node[l].match[p])

(* "The leader advances commit after quorum acknowledgement"                *)
(* (docs/en/protocols/raft.md:153): what a leader has committed, a majority *)
(* of the voters has in its log.                                            *)
CommittedIsHeld ==
    \A l \in Server :
        node[l].role = "leader"
            => HasQuorum({p \in Server : Agree(node[l].log, node[p].log, node[l].commit)})

=============================================================================
