--------------------------- MODULE MCRaftCluster ----------------------------
(* Instances of RaftCluster for TLC.  A behaviour starts with n1 as leader  *)
(* of term 1, elected by n2, with its no-op committed.                      *)
EXTENDS RaftCluster

CONSTANTS n1, n2, n3, n4

Noop == Entry(1, NoConf)

(* The nodes in full have the no-op, the others nothing.                    *)
Follower(n, full) ==
    Constructed(n, IF n \in full THEN 1 ELSE 0, IF n \in full THEN n1 ELSE Nil,
                IF n \in full THEN <<Noop>> ELSE << >>, NoSnapshot, 0, << >>)

StartWith(full) ==
    LET s == ResetProgress([Follower(n1, full) EXCEPT !.role = "leader"])
        known == [s EXCEPT !.commit = 1, !.applied = 1, !.fsm = <<Noop>>,
                           !.progress[n2].match = 1]
    IN /\ member = [n \in Node |-> IF n = n1 THEN known ELSE Follower(n, full)]
       /\ wire = {}
       /\ done = [e \in Happenings |-> 0]

-----------------------------------------------------------------------------
(* How often what happens is given by a function from some happenings.      *)
Plan(founders, reach, campaigners, subjects, voterSets, late, b) ==
    [founders |-> founders, reach |-> reach, campaigners |-> campaigners, maxTerm |-> 2,
     subjects |-> subjects, voterSets |-> voterSets, lateSnapshots |-> late, lease |-> FALSE,
     bound |-> [e \in Happenings |-> IF e \in DOMAIN b THEN b[e] ELSE 0]]

(* Who can ask whom among the nodes of S: nobody can be asked by n2 and n1, *)
(* or n1 by n2.                                                             *)
Parted(S) == [n \in Node |-> IF n \in {n1, n2} THEN S \ {n1, n2} ELSE {}]
OneWay(S) == [Parted(S) EXCEPT ![n1] = S \ {n1}]

Mutual == [n \in Node |-> {n1, n2} \ {n}]

Three == {n1, n2, n3}

Replace == Plan(Three, Parted(Node), {n2}, {}, {{n1, n4}}, FALSE, [change |-> 1])
Learn == Plan({n1, n2}, OneWay(Three), {n2}, {n3}, {}, FALSE, [change |-> 2])
Shrink == Plan(Three, OneWay(Three), {n2}, {n1}, {}, FALSE, [change |-> 1])
Catchup == Plan(Three, Parted(Three), {n2}, {}, {}, FALSE, [snapshot |-> 1, command |-> 1, restart |-> 1])
(* Two nodes take turns while the configuration is joint.                   *)
Turns == [Plan({n1, n2}, Mutual, {n1, n2}, {}, {{n1, n2}}, FALSE, [change |-> 2]) EXCEPT !.maxTerm = 3]
Reads == [Plan(Three, Parted(Three), {n2}, {}, {}, FALSE, [read |-> 1, restart |-> 1, command |-> 1])
             EXCEPT !.lease = TRUE]

ClusterSetups == {Replace, Learn, Shrink, Catchup, Reads, Turns}

(* Catchup where a snapshot may arrive after the entries that follow it.    *)
LateSetups == {[Catchup EXCEPT !.lateSnapshots = TRUE]}

-----------------------------------------------------------------------------
(* Messages that no later step can tell apart: answers to a term or a role  *)
(* that is over, and requests of a past term.                               *)
Live(m) ==
    LET s == member[m.to]
    IN CASE m.type = "Vote" -> m.term > s.term \/ (m.granted /\ m.term = s.term /\ s.role = "candidate")
         [] m.type \in {"Appended", "Installed"} ->
                m.term > s.term \/ (m.term = s.term /\ s.role = "leader" /\ m.success)
         [] OTHER -> TRUE

(* An append whose entries the follower has, commit index included, and     *)
(* which it has answered or whose answer nobody waits for.                  *)
Absorbed(m) ==
    LET s == member[m.to]
    IN /\ m.term = s.term /\ IsVoter(s.conf, m.from)
       /\ TermOf(s, m.prev) = m.prevTerm
       /\ Merged(s, m) = s.log
       /\ m.commit <= s.commit
       /\ LET r == [type |-> "Appended", from |-> m.to, to |-> m.from, term |-> m.term,
                    success |-> TRUE, match |-> m.prev + Len(m.entries),
                    reads |-> m.reads]
          IN r \in wire \/ member[m.from].term > m.term

(* An acknowledgement that tells the leader nothing new.                    *)
Known(m) ==
    LET s == member[m.to]
    IN /\ m.success /\ m.term = s.term
       /\ \/ m.from \notin DOMAIN s.progress
          \/ m.match <= s.progress[m.from].match /\ s.progress[m.from].pending = 0
       /\ m.reads \cap {r.id : r \in {x \in s.reads : ~x.ready}} = {}

Token(t, m) == [type |-> t, from |-> m.from, to |-> m.to]

Essence(m) ==
    CASE m.type \in {"RequestVote", "Append", "Snapshot"} /\ m.term < member[m.to].term
              -> Token("stale", m)
      [] m.type = "Append" /\ Absorbed(m) -> Token("absorbed", m)
      [] m.type = "Appended" /\ Known(m) -> Token("known", m)
      [] OTHER -> m

(* Progress is read by leaders only and reset on becoming one.              *)
Relevant(s) == IF s.role = "leader" THEN s ELSE [s EXCEPT !.progress = << >>]

View == <<[n \in Node |-> Relevant(member[n])],
          {Essence(m) : m \in {x \in wire : Live(x)}}, done, plan>>

MCStart ==
    /\ plan \in Setups
    /\ StartWith({n1, n2})

MCNext == ClusterNext /\ clusterVars' # clusterVars
MCSpec == MCStart /\ [][MCNext]_clusterVars
=============================================================================
