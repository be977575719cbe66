----------------------------- MODULE RaftCluster -----------------------------
(***************************************************************************)
(* What changes a Raft cluster while it runs: configuration entries with    *)
(* joint quorums and learners, snapshots that replace a prefix of the log,  *)
(* restarts, and ReadIndex requests (src/protocol/raft: node.cpp,           *)
(* raft_configuration.cpp, raft_fsm.cpp, log_manager.cpp, progress.cpp).    *)
(* Module Raft has the core for a fixed voter set in more detail; here      *)
(* votes are asked for without pre-vote, storage does not fail, and the     *)
(* search for a peer's next index is left out: an append carries everything *)
(* after the last entry known to be there or after the snapshot.            *)
(*                                                                          *)
(* log is everything the node has stored or its snapshot stands for: the    *)
(* entries up to base are compacted and only the term at base is known.     *)
(* Messages may be lost, delayed, reordered or received again.              *)
(***************************************************************************)
EXTENDS Naturals, Sequences, FiniteSets, SequencesExt, FiniteSetsExt

CONSTANTS
    Node,       \* every node that has storage and an address
    Nil,        \* an empty node_id
    Setups      \* the setups a behaviour may have, see setup

Happenings == {"command", "change", "snapshot", "restart", "read"}

ASSUME ClusterAssumption ==
    /\ IsFiniteSet(Node) /\ Nil \notin Node
    /\ Setups \subseteq [founders : SUBSET Node, reach : [Node -> SUBSET Node],
                         campaigners : SUBSET Node, maxTerm : Nat,
                         subjects : SUBSET Node, voterSets : SUBSET (SUBSET Node),
                         lateSnapshots : BOOLEAN, lease : BOOLEAN, bound : [Happenings -> Nat]]

VARIABLES
    member,  \* member[n]: the raft_node object of n and its storage
    wire,    \* every message sent so far
    done,    \* how often each bounded event has happened
    plan     \* raft_config::peers of the first voters, and the bounds of the
             \* behaviour: who can reach whom, who campaigns and up to which
             \* term, which nodes are added or removed, which voter sets are
             \* entered at once, whether a snapshot may arrive that is behind
             \* the follower's log, whether the options lease_read and
             \* check_quorum are set, and how often what happens

clusterVars == <<member, wire, done, plan>>

Happen(e) == done[e] < plan.bound[e] /\ done' = [done EXCEPT ![e] = @ + 1]

-----------------------------------------------------------------------------
(* configuration_state: joint while old is not empty.                       *)
Conf(voters, old, learners) == [voters |-> voters, old |-> old, learners |-> learners]
NoConf == Conf({}, {}, {})

IsVoter(c, n) == n \in c.voters \cup c.old
Members(c) == c.voters \cup c.old \cup c.learners
Majority(S, V) == 2 * Cardinality(S \cap V) > Cardinality(V)

(* Fault: while joint, the new voters decide alone.                         *)
NewQuorum(c, S) == c.voters # {} /\ Majority(S, c.voters)

(* has_quorum(), and quorum_size() = 1, which looks at the new voters only. *)
Quorum(c, S) ==
    /\ c.voters # {}
    /\ Majority(S, c.voters)
    /\ c.old # {} => Majority(S, c.old)

Alone(c) == Cardinality(c.voters) <= 1

WithJoint(c, V) == Conf(V, c.voters, c.learners \ V)
LeaveJoint(c) == Conf(c.voters, {}, c.learners)

(* A node that was not there from the start is given the founders as peers. *)
InitialConf(n) == Conf(plan.founders \cup {n}, {}, {})

Entry(term, conf) == [term |-> term, conf |-> conf]

-----------------------------------------------------------------------------
(* The constructor, on what storage holds.                                  *)
Constructed(n, term, vote, log, snap, commit, fsm) ==
    [role |-> "follower", term |-> term, vote |-> vote, votes |-> {},
     conf |-> IF snap.conf = NoConf THEN InitialConf(n) ELSE snap.conf,
     log |-> log, snap |-> snap, commit |-> commit, applied |-> commit, fsm |-> fsm,
     progress |-> << >>, pendingConf |-> 0, reads |-> {}]

NoSnapshot == [index |-> 0, conf |-> NoConf]

ClusterInit ==
    /\ wire = {}
    /\ done = [e \in Happenings |-> 0]
    /\ plan \in Setups
    /\ member = [n \in Node |-> Constructed(n, 0, Nil, << >>, NoSnapshot, 0, << >>)]

LastIndex(s) == Len(s.log)
TermOf(s, i) == IF i \in 1 .. LastIndex(s) /\ i >= s.snap.index THEN s.log[i].term ELSE 0

-----------------------------------------------------------------------------
(* The node's internal methods.                                             *)
Retire(s, term) ==
    [s EXCEPT !.role = "follower", !.term = term, !.votes = {}, !.reads = {},
              !.vote = IF term # s.term THEN Nil ELSE s.vote]

(* progress_.reset(): the members of the configuration are tracked, with    *)
(* nothing known of them; the leader's own entry is never looked at.        *)
ResetProgress(s) ==
    [s EXCEPT !.progress = [p \in Members(s.conf) |-> [match |-> 0, pending |-> 0]]]

(* apply_committed(), one entry.  A configuration takes effect; a leader it *)
(* leaves out steps down, and one that finds it joint appends the entry     *)
(* that leaves it.                                                          *)
ApplyOne(n, s, i) ==
    LET e == s.log[i]
        s1 == [s EXCEPT !.applied = i, !.fsm = Append(@, e)]
        s2 == [s1 EXCEPT !.conf = e.conf,
                         !.pendingConf = IF @ <= i THEN 0 ELSE @]
    IN CASE i # s.applied + 1 \/ i > LastIndex(s) \/ i <= s.snap.index -> s
         [] e.conf = NoConf -> s1
         [] s.role = "leader" /\ ~IsVoter(e.conf, n) -> Retire(s2, s.term)
         [] s.role = "leader" /\ IsVoter(e.conf, n) /\ e.conf.old # {} ->
                [s2 EXCEPT !.log = Append(@, Entry(s.term, LeaveJoint(e.conf))),
                           !.pendingConf = LastIndex(s) + 1]
         [] OTHER -> s2

CommitTo(n, s, c) ==
    FoldLeft(LAMBDA acc, i : IF i <= LastIndex(acc) THEN ApplyOne(n, acc, i) ELSE acc,
             [s EXCEPT !.commit = c],
             [k \in 1 .. (IF c > s.applied THEN c - s.applied ELSE 0) |-> s.applied + k])

CommitIfAlone(n, s) == IF Alone(s.conf) THEN CommitTo(n, s, LastIndex(s)) ELSE s

(* advance_commit_index()                                                   *)
Agreed(n, s) ==
    {i \in s.commit + 1 .. LastIndex(s) :
        /\ Quorum(s.conf, {n} \cup {p \in DOMAIN s.progress : s.progress[p].match >= i})
        /\ TermOf(s, i) = s.term}

Advance(n, s) == IF Agreed(n, s) = {} THEN s ELSE CommitTo(n, s, Max(Agreed(n, s)))

(* become_leader()                                                          *)
Lead(n, s) ==
    LET s1 == [s EXCEPT !.role = "leader", !.votes = {}, !.log = Append(@, Entry(s.term, NoConf))]
    IN CommitIfAlone(n, ResetProgress(s1))

Keep(n, s) == member' = [member EXCEPT ![n] = s]

Reply(m, r) == wire' = wire \cup {r @@ [from |-> m.to, to |-> m.from]}

-----------------------------------------------------------------------------
(* Elections.                                                               *)
Campaign(n) ==
    LET c == [member[n] EXCEPT !.role = "candidate", !.term = @ + 1, !.vote = n, !.votes = {n}]
    IN /\ n \in plan.campaigners /\ member[n].role # "leader" /\ member[n].term < plan.maxTerm
       /\ IsVoter(member[n].conf, n)
       /\ Keep(n, IF Quorum(c.conf, {n}) THEN Lead(n, c) ELSE c)
       /\ wire' = wire \cup {[type |-> "RequestVote", from |-> n, to |-> p, term |-> c.term,
                              index |-> LastIndex(c), lastTerm |-> TermOf(c, LastIndex(c))] :
                                p \in plan.reach[n]}
       /\ UNCHANGED done

(* Nodes that do not know the candidate, or are no voters, refuse.          *)
OnRequestVote(m) ==
    LET n == m.to
        s == IF m.term > member[n].term THEN Retire(member[n], m.term) ELSE member[n]
        logOk == \/ m.lastTerm > TermOf(s, LastIndex(s))
                 \/ m.lastTerm = TermOf(s, LastIndex(s)) /\ m.index >= LastIndex(s)
        grant == s.vote \in {Nil, m.from} /\ logOk
        known == IsVoter(member[n].conf, n) /\ IsVoter(member[n].conf, m.from)
    IN /\ m.type = "RequestVote"
       /\ IF ~known \/ m.term < member[n].term
          THEN /\ Reply(m, [type |-> "Vote", term |-> member[n].term, granted |-> FALSE])
               /\ UNCHANGED member
          ELSE /\ Reply(m, [type |-> "Vote", term |-> s.term, granted |-> grant])
               /\ Keep(n, IF grant THEN [s EXCEPT !.vote = m.from] ELSE s)
       /\ UNCHANGED done

OnVote(m) ==
    LET n == m.to
        s == member[n]
        s1 == [s EXCEPT !.votes = @ \cup {m.from}]
    IN /\ m.type = "Vote"
       /\ \/ m.term > s.term /\ Keep(n, Retire(s, m.term))
          \/ /\ m.term = s.term /\ s.role = "candidate" /\ m.granted
             /\ Keep(n, IF Quorum(s.conf, s1.votes) THEN Lead(n, s1) ELSE s1)
       /\ UNCHANGED <<wire, done>>

-----------------------------------------------------------------------------
(* Replication.                                                             *)

(* replicate_to_all(), one peer of the transport: the snapshot when the     *)
(* peer needs compacted entries, else a suffix of the log, with the reads   *)
(* that wait for a quorum.                                                  *)
KnownMatch(s, p) == IF p \in DOMAIN s.progress THEN s.progress[p].match ELSE LastIndex(s)

SendAppend(n, p) ==
    LET s == member[n]
        prev == Max({KnownMatch(s, p), s.snap.index})
    IN /\ s.role = "leader" /\ p \in plan.reach[n]
       /\ wire' = wire \cup {[type |-> "Append", from |-> n, to |-> p, term |-> s.term,
                              prev |-> prev, prevTerm |-> TermOf(s, prev),
                              entries |-> SubSeq(s.log, prev + 1, LastIndex(s)), commit |-> s.commit,
                              reads |-> {r.id : r \in {x \in s.reads : ~x.ready}}]}
       /\ UNCHANGED <<member, done>>

SendSnapshot(n, p) ==
    LET s == member[n]
    IN /\ s.role = "leader" /\ p \in plan.reach[n] /\ KnownMatch(s, p) < s.snap.index
       /\ wire' = wire \cup {[type |-> "Snapshot", from |-> n, to |-> p, term |-> s.term,
                              state |-> SubSeq(s.log, 1, s.snap.index), conf |-> s.snap.conf]}
       /\ Keep(n, [s EXCEPT !.progress[p].pending = s.snap.index])
       /\ UNCHANGED done

(* append_from_leader(): entries the snapshot covers are skipped, and the   *)
(* log is replaced from the first difference on.                            *)
Merged(s, m) ==
    LET differs == {i \in 1 .. Len(m.entries) :
                      /\ m.prev + i > s.snap.index
                      /\ TermOf(s, m.prev + i) # m.entries[i].term}
    IN IF differs = {} THEN s.log
       ELSE SubSeq(s.log, 1, m.prev + Min(differs) - 1)
            \o SubSeq(m.entries, Min(differs), Len(m.entries))

Follow(s, m) ==
    IF m.term > s.term \/ s.role # "follower" THEN Retire(s, m.term) ELSE s

Refused(m, s) ==
    Reply(m, [type |-> "Appended", term |-> s.term, success |-> FALSE, match |-> 0, reads |-> {}])

OnAppend(m) ==
    LET n == m.to
        s == member[n]
        s1 == Follow(s, m)
        s2 == [s1 EXCEPT !.log = Merged(s1, m)]
        s3 == IF m.commit > s2.commit
              THEN CommitTo(n, s2, Min({m.commit, LastIndex(s2)})) ELSE s2
    IN /\ m.type = "Append"
       /\ \/ /\ m.term < s.term \/ ~IsVoter(s.conf, m.from)
             /\ Refused(m, s)
             /\ UNCHANGED member
          \/ /\ m.term >= s.term /\ IsVoter(s.conf, m.from)
             /\ IF TermOf(s1, m.prev) # m.prevTerm
                THEN Refused(m, s1) /\ Keep(n, s1)
                ELSE /\ Keep(n, s3)
                     /\ Reply(m, [type |-> "Appended", term |-> s3.term, success |-> TRUE,
                                  match |-> m.prev + Len(m.entries), reads |-> m.reads])
       /\ UNCHANGED done

(* mark_replicated()                                                        *)
Replicated(s, p, i) ==
    IF p \notin DOMAIN s.progress THEN s
    ELSE [s EXCEPT !.progress[p] = [match |-> Max({@.match, i}), pending |-> 0]]

(* Fault: any acknowledgement confirms every read.                          *)
AcknowledgedAll(s, m) ==
    [s EXCEPT !.reads = {[r EXCEPT !.acked = @ \cup {m.from},
                                   !.ready = @ \/ Quorum(s.conf, r.acked \cup {m.from})] :
                            r \in s.reads}]

(* acknowledge_read()                                                       *)
Acknowledged(s, m) ==
    [s EXCEPT !.reads =
        {IF r.id \in m.reads
         THEN [r EXCEPT !.acked = @ \cup {m.from},
                        !.ready = @ \/ Quorum(s.conf, r.acked \cup {m.from})]
         ELSE r : r \in s.reads}]

OnAppended(m) ==
    LET n == m.to
        s == member[n]
    IN /\ m.type = "Appended"
       /\ \/ m.term > s.term /\ Keep(n, Retire(s, m.term))
          \/ /\ m.term = s.term /\ s.role = "leader" /\ m.success
             /\ Keep(n, Advance(n, Acknowledged(Replicated(s, m.from, m.match), m)))
       /\ UNCHANGED <<wire, done>>

AppendEntry(n) ==
    LET s == member[n]
    IN /\ s.role = "leader"
       /\ Happen("command")
       /\ Keep(n, CommitIfAlone(n, [s EXCEPT !.log = Append(@, Entry(s.term, NoConf))]))
       /\ UNCHANGED wire

-----------------------------------------------------------------------------
(* Membership.                                                              *)

(* append_configuration(): the leader uses the new configuration at once,   *)
(* everybody else when it is applied.                                       *)
Propose(n, c) ==
    LET s == member[n]
        s1 == [s EXCEPT !.log = Append(@, Entry(s.term, c)), !.conf = c,
                        !.pendingConf = LastIndex(s) + 1]
    IN /\ s.role = "leader" /\ s.pendingConf <= s.commit
       /\ Happen("change")
       /\ Keep(n, CommitIfAlone(n, ResetProgress(s1)))
       /\ UNCHANGED wire

SetLearners(n, L) ==
    LET c == member[n].conf
    IN Propose(n, [c EXCEPT !.learners = {x \in L : ~IsVoter(c, x)}])

PromoteLearner(n, x) ==
    LET c == member[n].conf
    IN x \in c.learners /\ c.old = {} /\ Propose(n, WithJoint(c, c.voters \cup {x}))

RemoveNode(n, x) ==
    LET c == member[n].conf
    IN \/ x \in c.learners /\ Propose(n, [c EXCEPT !.learners = @ \ {x}])
       \/ /\ IsVoter(c, x) /\ c.old = {} /\ c.voters # {x}
          /\ Propose(n, WithJoint(c, c.voters \ {x}))

EnterJoint(n, V) ==
    LET c == member[n].conf
    IN V # {} /\ c.old = {} /\ Propose(n, WithJoint(c, V))

LeaveJointByHand(n) ==
    LET c == member[n].conf
    IN c.old # {} /\ Propose(n, LeaveJoint(c))

-----------------------------------------------------------------------------
(* Snapshots.                                                               *)

(* create_snapshot(): what has been applied, under the configuration in     *)
(* use.                                                                     *)
CreateSnapshot(n) ==
    LET s == member[n]
    IN /\ s.commit > s.snap.index
       /\ Happen("snapshot")
       /\ Keep(n, [s EXCEPT !.snap = [index |-> s.commit, conf |-> s.conf]])
       /\ UNCHANGED wire

(* Fault: the log is replaced and the state machine is not.                 *)
InstalledLogOnly(s, m) ==
    LET i == Len(m.state)
    IN [s EXCEPT !.log = m.state, !.snap = [index |-> i, conf |-> m.conf],
                 !.conf = m.conf, !.commit = Max({@, i}), !.applied = Max({@, i})]

(* handle_install_snapshot(): the state machine and the log become those of *)
(* the snapshot whatever the node has beyond it.                            *)
Installed(s, m) ==
    LET i == Len(m.state)
    IN [s EXCEPT !.fsm = m.state, !.log = m.state, !.snap = [index |-> i, conf |-> m.conf],
                 !.conf = m.conf, !.commit = Max({@, i}), !.applied = Max({@, i})]

OnSnapshot(m) ==
    LET s == member[m.to]
    IN /\ m.type = "Snapshot"
       /\ plan.lateSnapshots \/ LastIndex(s) <= Len(m.state)
       /\ IF m.term < s.term \/ ~IsVoter(s.conf, m.from)
          THEN /\ Reply(m, [type |-> "Installed", term |-> s.term, success |-> FALSE])
               /\ UNCHANGED member
          ELSE /\ Reply(m, [type |-> "Installed", term |-> m.term, success |-> TRUE])
               /\ Keep(m.to, Installed(Follow(s, m), m))
       /\ UNCHANGED done

OnInstalled(m) ==
    LET n == m.to
        s == member[n]
    IN /\ m.type = "Installed"
       /\ \/ m.term > s.term /\ Keep(n, Retire(s, m.term))
          \/ /\ m.term = s.term /\ s.role = "leader" /\ m.success
             /\ m.from \in DOMAIN s.progress /\ s.progress[m.from].pending # 0
             /\ Keep(n, Advance(n, Replicated(s, m.from, s.progress[m.from].pending)))
       /\ UNCHANGED <<wire, done>>

(* A new raft_node on the same storage.                                     *)
Reboot(n) ==
    LET s == member[n]
    IN /\ Happen("restart")
       /\ Keep(n, [Constructed(n, s.term, s.vote, s.log, s.snap, s.commit, s.fsm)
                      EXCEPT !.applied = s.applied])
       /\ UNCHANGED wire

-----------------------------------------------------------------------------
(* ReadIndex.                                                               *)
MaxCommit == Max({member[n].commit : n \in Node})

(* leader_lease_valid(), of which the clock is not modelled: with other     *)
(* voters it may be true or false at any time.                              *)
LeaseValid(s) == IF Alone(s.conf) THEN {TRUE} ELSE BOOLEAN

(* read_index(): a quorum must confirm the read, unless the leader trusts   *)
(* its lease.  leased, floor and settled are histories: whether it did,     *)
(* what was committed anywhere when the read came, and whether the leader   *)
(* had committed an entry of its own term by then.                          *)
ReadIndex(n) ==
    LET s == member[n]
        alone == Quorum(s.conf, {n})
    IN \E valid \in LeaseValid(s) :
        LET leased == ~alone /\ plan.lease /\ valid
            r == [id |-> done["read"] + 1, index |-> s.commit, acked |-> {n},
                  ready |-> alone \/ leased, leased |-> leased, floor |-> MaxCommit,
                  settled |-> TermOf(s, s.commit) = s.term]
        IN /\ s.role = "leader"
           /\ Happen("read")
           /\ Keep(n, [s EXCEPT !.reads = @ \cup {r}])
           /\ UNCHANGED wire

(* consume_read_index() of a ready one, expire_read_indexes() of another.   *)
EndRead(n) ==
    \E r \in member[n].reads :
        /\ Keep(n, [member[n] EXCEPT !.reads = @ \ {r}])
        /\ UNCHANGED <<wire, done>>

-----------------------------------------------------------------------------
ClusterStep ==
    \/ \E n \in Node :
          \/ Campaign(n) \/ AppendEntry(n) \/ CreateSnapshot(n) \/ Reboot(n)
          \/ ReadIndex(n) \/ EndRead(n) \/ LeaveJointByHand(n)
          \/ \E p \in Node : SendAppend(n, p) \/ SendSnapshot(n, p)
          \/ \E x \in plan.subjects :
                SetLearners(n, {x}) \/ PromoteLearner(n, x) \/ RemoveNode(n, x)
          \/ \E V \in plan.voterSets : EnterJoint(n, V)
    \/ \E m \in wire :
          \/ OnRequestVote(m) \/ OnVote(m) \/ OnAppend(m) \/ OnAppended(m)
          \/ OnSnapshot(m) \/ OnInstalled(m)

ClusterNext == ClusterStep /\ UNCHANGED plan

ClusterSpec == ClusterInit /\ [][ClusterNext]_clusterVars

-----------------------------------------------------------------------------
(* Every state machine has been given exactly what its applied index says,  *)
(* and of any two one is behind the other on the same stream, whether it    *)
(* came entry by entry or as a snapshot (raft.md: "all replicas must apply  *)
(* the same ordered command stream").                                       *)
SameStream ==
    \A a, b \in Node :
        /\ Len(member[a].fsm) = member[a].applied
        /\ IsPrefix(member[a].fsm, member[b].fsm) \/ IsPrefix(member[b].fsm, member[a].fsm)

(* A leader holds what anybody in its term or before has applied, also when *)
(* it was elected by another set of voters than the one that committed it.  *)
LeaderHasApplied ==
    \A l, n \in Node :
        member[l].role = "leader" /\ member[l].term >= member[n].term
            => IsPrefix(member[n].fsm, member[l].log)

(* A read that a quorum has confirmed does not miss anything that was       *)
(* committed before it came, provided the leader had settled its term; a    *)
(* read under a lease was confirmed by nobody.                              *)
ReadsAreCurrent ==
    \A n \in Node : \A r \in member[n].reads :
        r.ready /\ r.settled /\ ~r.leased => r.index >= r.floor

(* The same without the two conditions (raft.md: "It is now safe to serve a *)
(* read from the local state machine").                                     *)
EveryReadIsCurrent ==
    \A n \in Node : \A r \in member[n].reads : r.ready => r.index >= r.floor
=============================================================================
