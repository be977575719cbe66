------------------------------- MODULE MCRaft -------------------------------
(* Instances of Raft for TLC.  States that differ only in what no step will *)
(* ever look at again are one state, and a run may start from what earlier  *)
(* terms have left on the disks of three voters.  What counts as never      *)
(* looked at assumes that no leader is deposed while it awaits the cleanup, *)
(* which only StaleHeartbeatSetups allow; what TLC finds there is a         *)
(* behaviour all the same.                                                  *)
EXTENDS Raft

CONSTANTS n1, n2, n3

(* A refused vote of a past term, and an append's response to a node that   *)
(* has left the role or the term it answers, is ignored for ever, because a *)
(* node never returns to either.  A node at maxTerm has done with pre-votes. *)
Live(m) ==
    LET s == node[m.to]
    IN CASE m.type = "VoteResponse" ->
                m.term > s.term \/ (m.granted /\ (m.pre => s.term < setup.maxTerm))
         [] m.type = "RequestVote" /\ m.pre -> node[m.from].term < setup.maxTerm
         [] m.type = "AppendResponse" ->
                \/ m.term > s.term
                \/ m.term = s.term /\ s.role = "leader"
         [] OTHER -> TRUE

(* Two messages that every later step treats alike are one: requests of a   *)
(* past term (only the term of the answer matters), entries the follower    *)
(* has and acknowledged, and acknowledgements the leader knows of.          *)
Absorbed(m) ==
    LET s == node[m.to]
    IN /\ m.term = s.term
       /\ TermAt(s.log, m.prev) = m.prevTerm
       /\ Conflicts(s.log, m.prev, m.entries) = {}
       /\ m.commit <= s.commit
       /\ LET r == AppendResponse(m, m.term, TRUE, m.prev + Len(m.entries), 0)
          IN r \in msgs \/ node[m.from].term > m.term

Token(t, m) == [type |-> t, from |-> m.from, to |-> m.to]

Essence(m) ==
    LET s == node[m.to]
    IN CASE m.type = "RequestVote" /\ ~m.pre /\ m.term < s.term -> Token("stale vote", m)
         [] m.type = "AppendEntries" /\ m.term < s.term -> Token("stale append", m)
         [] m.type = "AppendEntries" /\ Absorbed(m) -> Token("absorbed", m)
         [] /\ m.type = "AppendResponse" /\ m.success
            /\ m.term = s.term /\ m.match <= s.match[m.from] -> Token("known", m)
         [] OTHER -> m

(* Progress is read by leaders only and reset on becoming one.              *)
Relevant(s) ==
    IF s.role = "leader" THEN s ELSE [s EXCEPT !.next = Nil, !.match = Nil, !.mode = Nil]

View == <<[n \in Server |-> Relevant(node[n])], disk,
          {Essence(m) : m \in {x \in msgs : Live(x)}}, leaders, spent, setup>>

-----------------------------------------------------------------------------
(* All nodes start on the disks d, no message survives.                     *)
StartFrom(d) ==
    /\ node = [n \in Server |-> Restored(d[n].term, d[n].vote, d[n].log, d[n].commit,
                                         SubSeq(d[n].log, 1, d[n].commit))]
    /\ disk = [n \in Server |-> [term |-> d[n].term, vote |-> d[n].vote]]
    /\ msgs = {}
    /\ leaders = {<<1, n1>>, <<2, n2>>}
    /\ spent = [e \in Events |-> 0]

Disk(term, vote, log, commit) == [term |-> term, vote |-> vote, log |-> log, commit |-> commit]
Disks(a, b, c) == [n \in {n1, n2, n3} |-> IF n = n1 THEN a ELSE IF n = n2 THEN b ELSE c]

(* n1 led term 1 and committed its no-op, but a command reached nobody; n2  *)
(* led term 2 with the vote of n3 and committed its own no-op.              *)
LostCommand ==
    Disks(Disk(1, n1, <<1, 1>>, 1), Disk(2, n2, <<1, 2>>, 2), Disk(2, n2, <<1, 2>>, 1))

(* Nothing n1 appended in term 1 and n2 in term 2 reached anybody.          *)
TwoLoners ==
    Disks(Disk(1, n1, <<1, 1>>, 0), Disk(2, n2, <<2>>, 0), Disk(2, n2, << >>, 0))

(* As above with a longer log of n1, and n2's no-op committed.              *)
LongStaleLog ==
    Disks(Disk(1, n1, <<1, 1, 1>>, 0), Disk(2, n2, <<2>>, 1), Disk(2, n2, <<2>>, 0))

(* As TwoLoners, with a log of n1 longer than n2's will be after two more   *)
(* elections.                                                               *)
LongLoner ==
    Disks(Disk(1, n1, <<1, 1, 1, 1, 1>>, 0), Disk(2, n2, <<2>>, 0), Disk(2, n2, << >>, 0))

-----------------------------------------------------------------------------
(* The setups: who campaigns and up to which term, and the events b allows  *)
(* once each.                                                               *)
Setup(preVote, window, campaigners, maxTerm, b) ==
    [preVote |-> preVote, window |-> window, campaigners |-> campaigners,
     maxTerm |-> maxTerm, bound |-> [e \in Events |-> IF e \in b THEN 1 ELSE 0]]

Election == Setup(TRUE, {}, {n1, n2}, 1, {"restart"})
Transfer == Setup(FALSE, {}, {n2}, 4, {"transfer"})
Replication == Setup(FALSE, {n2}, {n1}, 1, {"command"})
Cleanup == Setup(FALSE, {}, {n1}, 1, {"await"})
Recovery == Setup(FALSE, {n1, n2, n3}, {n1, n2, n3}, 3, {"restart", "lapse"})
StorageFailure == Setup(FALSE, {}, {n2, n3}, 3, {"failure"})

CoreSetups == {Election, Replication, Cleanup, Recovery, Transfer, StorageFailure}
CommitPrefixSetups == {Setup(FALSE, {}, {n2}, 3, {})}
StaleRejection == Setup(FALSE, {}, {n2}, 4, {"lapse", "command"})
StaleRejectionSetups == {StaleRejection}
StaleHeartbeatSetups == {Setup(FALSE, {}, {n2, n3}, 5, {"await"})}

(* The first election and the first replication start on empty disks, the   *)
(* rest on disks with a history.                                            *)
History ==
    CASE setup = Transfer -> {LongStaleLog}
      [] setup = StaleRejection -> {LongLoner}
      [] OTHER -> {LostCommand, TwoLoners, LongStaleLog}

Start ==
    /\ setup \in Setups
    /\ IF setup.maxTerm = 1 THEN Init ELSE \E d \in History : StartFrom(d)

(* Steps that change nothing are left to stuttering.                        *)
MCNext == Next /\ vars' # vars

MCSpec == Start /\ [][MCNext]_vars
=============================================================================
