----------------------------- MODULE RaftProofs -----------------------------
(***************************************************************************)
(* Proofs about the Raft core for every set of voters, every batch size and *)
(* every interleaving: a term has at most one winner, a vote that was given *)
(* is on disk, and two logs with the same term at an index are the same up  *)
(* to there.  They hold as long as no storage call has failed: a vote whose *)
(* saving throws is sent all the same (FailVote).                           *)
(***************************************************************************)
EXTENDS Raft, WaiterQueueProofs, FiniteSetTheorems, TLAPS

(* The answer by which v votes for c in term t.  Messages stay in msgs, so  *)
(* these are the record of every vote given to another node.                *)
Grant(v, t, c) ==
    [type |-> "VoteResponse", pre |-> FALSE, from |-> v, to |-> c, term |-> t, granted |-> TRUE]

(* v has voted for c in term t, or is past that term.                       *)
VotedFor(v, t, c) ==
    \/ node[v].term > t
    \/ node[v].term = t /\ node[v].vote = c

(* By the messages M every member of Q has voted for c in term t, c itself  *)
(* without an answer.                                                       *)
Supports(M, Q, t, c) == \A v \in Q : v = c \/ Grant(v, t, c) \in M

-----------------------------------------------------------------------------
(* The parts of the inductive invariant.                                    *)
Fields == {"role", "term", "vote", "leader", "votes", "log", "commit", "applied",
           "next", "match", "mode", "transfer", "stopped", "awaiting"}

Shape(s) ==
    /\ DOMAIN s = Fields
    /\ s.role \in Roles /\ s.term \in Nat /\ s.vote \in Server \cup {Nil}
    /\ s.votes \in SUBSET Server

VoteResponses ==
    [type : {"VoteResponse"}, pre : BOOLEAN, from : Server, to : Server,
     term : Nat, granted : BOOLEAN]

MessageOK(m) ==
    /\ m.from \in Server /\ m.to \in Server /\ m.term \in Nat
    /\ m.type = "RequestVote" => m.pre \in BOOLEAN
    /\ m.type = "VoteResponse" => m \in VoteResponses

Typed ==
    /\ node \in [Server -> {node[n] : n \in Server}]
    /\ \A n \in Server : Shape(node[n])
    /\ disk = [n \in Server |-> HardState(node[n])]
    /\ \A m \in msgs : MessageOK(m)
    /\ leaders \in SUBSET (Nat \X Server)
    /\ spent \in [Events -> Nat]
    /\ setup \in Setups

(* A vote given to another node is remembered, and given to one node only.  *)
GrantsKept == \A v, c \in Server, t \in Nat : Grant(v, t, c) \in msgs => VotedFor(v, t, c)

GrantsUnique ==
    \A v, c, d \in Server, t \in Nat :
        Grant(v, t, c) \in msgs /\ Grant(v, t, d) \in msgs => c = d

(* The votes a candidate counts were given to it in its term.               *)
CandidatesCount ==
    \A n \in Server : node[n].role = "candidate" =>
        node[n].vote = n /\ Supports(msgs, node[n].votes, node[n].term, n)

(* A leader is on record; who is on record had the votes of a quorum, its   *)
(* own included, and has given its vote of that term to nobody else.        *)
LeadersRecorded ==
    \A n \in Server : node[n].role = "leader" => <<node[n].term, n>> \in leaders

LeadersElected ==
    \A n \in Server, t \in Nat : <<t, n>> \in leaders =>
        /\ \E Q \in SUBSET Server : HasQuorum(Q) /\ Supports(msgs, Q, t, n)
        /\ VotedFor(n, t, n)
        /\ \A d \in Server : Grant(n, t, d) \in msgs => d = n

IInv ==
    /\ Typed
    /\ GrantsKept /\ GrantsUnique /\ CandidatesCount
    /\ LeadersRecorded /\ LeadersElected

-----------------------------------------------------------------------------
(* What a handler may make of the state s of n, and which messages ms it    *)
(* may send, without disturbing the invariant.                              *)
Advances(s, s1) ==
    \/ s1.term > s.term
    \/ s1.term = s.term /\ (s.vote # Nil => s1.vote = s.vote)

Sound(n, s1, ms) ==
    /\ Shape(s1)
    /\ Advances(node[n], s1)
    /\ \A m \in ms : MessageOK(m)
    /\ \A v, c \in Server, t \in Nat :
          Grant(v, t, c) \in ms => v = n /\ t = s1.term /\ c = s1.vote
    /\ s1.role = "candidate" => s1.vote = n /\ Supports(msgs, s1.votes, s1.term, n)
    /\ s1.role = "leader" =>
          \/ <<s1.term, n>> \in leaders
          \/ /\ s1.vote = n
             /\ \E Q \in SUBSET Server : HasQuorum(Q) /\ Supports(msgs, Q, s1.term, n)

(* A sound step keeps the invariant.                                        *)
LEMMA SoundStep ==
    ASSUME IInv, NEW n \in Server, NEW s1, NEW ms, Sound(n, s1, ms),
           Update(n, s1), Send(ms),
           spent' \in [Events -> Nat], UNCHANGED setup
    PROVE  IInv'
<1> USE DEF Update, Send
<1>a. Nil \notin Server
  BY RaftAssumption
<1>n. /\ node' = [node EXCEPT ![n] = s1]
      /\ node'[n] = s1
      /\ \A p \in Server : p # n => node'[p] = node[p]
  BY DEF IInv, Typed
<1>g. \A v, c \in Server, t \in Nat : Grant(v, t, c) \in msgs' =>
         Grant(v, t, c) \in msgs \/ (v = n /\ t = s1.term /\ c = s1.vote)
  BY DEF Sound
<1>m. \A v, c \in Server, t \in Nat : Grant(v, t, c) \in msgs => Grant(v, t, c) \in msgs'
  OBVIOUS
<1>s. \A Q \in SUBSET Server, c \in Server, t \in Nat : Supports(msgs, Q, t, c) => Supports(msgs', Q, t, c)
  BY <1>m DEF Supports
<1>k. \A v, c \in Server, t \in Nat : VotedFor(v, t, c) => VotedFor(v, t, c)'
  <2> SUFFICES ASSUME NEW v \in Server, NEW c \in Server, NEW t \in Nat, VotedFor(v, t, c)
               PROVE  VotedFor(v, t, c)'
    OBVIOUS
  <2>1. CASE v # n
    BY <2>1, <1>n DEF VotedFor
  <2>2. CASE v = n
    <3>1. node[n].term \in Nat /\ s1.term \in Nat
      BY DEF IInv, Typed, Sound, Shape
    <3> QED
      BY <2>2, <3>1, <1>n, <1>a DEF VotedFor, Sound, Advances
  <2> QED
    BY <2>1, <2>2
<1>1. Typed'
  <2>1. node' \in [Server -> {node'[p] : p \in Server}]
    BY <1>n DEF IInv, Typed
  <2>2. \A p \in Server : Shape(node'[p])
    BY <1>n DEF IInv, Typed, Sound
  <2>3. disk' = [p \in Server |-> HardState(node'[p])]
    BY <1>n DEF IInv, Typed
  <2>4. \A m \in msgs' : MessageOK(m)
    BY DEF IInv, Typed, Sound
  <2>5. leaders' \in SUBSET (Nat \X Server)
    BY DEF IInv, Typed, Sound, Shape
  <2> QED
    BY <2>1, <2>2, <2>3, <2>4, <2>5 DEF IInv, Typed
<1>2. GrantsKept'
  <2> SUFFICES ASSUME NEW v \in Server, NEW c \in Server, NEW t \in Nat, Grant(v, t, c) \in msgs'
               PROVE  VotedFor(v, t, c)'
    BY DEF GrantsKept, Grant
  <2>1. CASE Grant(v, t, c) \in msgs
    BY <2>1, <1>k DEF IInv, GrantsKept
  <2>2. CASE v = n /\ t = s1.term /\ c = s1.vote
    BY <2>2, <1>n DEF VotedFor
  <2> QED
    BY <2>1, <2>2, <1>g
<1>3. GrantsUnique'
  <2> SUFFICES ASSUME NEW v \in Server, NEW c \in Server, NEW d \in Server, NEW t \in Nat,
                      Grant(v, t, c) \in msgs', Grant(v, t, d) \in msgs'
               PROVE  c = d
    BY DEF GrantsUnique, Grant
  <2>1. VotedFor(v, t, c)' /\ VotedFor(v, t, d)'
    BY <1>2 DEF GrantsKept, Grant
  <2>2. CASE Grant(v, t, c) \in msgs /\ Grant(v, t, d) \in msgs
    BY <2>2 DEF IInv, GrantsUnique
  <2>3. CASE v = n /\ t = s1.term
    <3>1. s1.term \in Nat
      BY DEF Sound, Shape
    <3> QED
      BY <2>1, <2>3, <3>1, <1>n DEF VotedFor
  <2> QED
    BY <2>2, <2>3, <1>g
<1>4. CandidatesCount'
  <2> SUFFICES ASSUME NEW p \in Server, node'[p].role = "candidate"
               PROVE  node'[p].vote = p /\ Supports(msgs', node'[p].votes, node'[p].term, p)
    BY DEF CandidatesCount
  <2>1. CASE p = n
    <3>1. s1.votes \in SUBSET Server /\ s1.term \in Nat
      BY DEF Sound, Shape
    <3> QED
      BY <2>1, <3>1, <1>n, <1>m DEF Sound, Supports
  <2>2. CASE p # n
    <3>1. node[p].votes \in SUBSET Server /\ node[p].term \in Nat
      BY DEF IInv, Typed, Shape
    <3>2. node'[p] = node[p]
      BY <2>2, <1>n
    <3> QED
      BY <3>1, <3>2, <1>m DEF IInv, CandidatesCount, Supports
  <2> QED
    BY <2>1, <2>2
<1>5. LeadersRecorded'
  BY <1>n DEF IInv, LeadersRecorded
<1>6. LeadersElected'
  <2> SUFFICES ASSUME NEW p \in Server, NEW t \in Nat, <<t, p>> \in leaders'
               PROVE  /\ \E Q \in SUBSET Server : HasQuorum(Q) /\ Supports(msgs', Q, t, p)
                      /\ VotedFor(p, t, p)'
                      /\ \A d \in Server : Grant(p, t, d) \in msgs' => d = p
    BY DEF LeadersElected, Grant, HasQuorum
  <2>1. ASSUME VotedFor(p, t, p)', NEW d \in Server, Grant(p, t, d) \in msgs',
               Grant(p, t, d) \notin msgs
        PROVE  d = p
    <3>1. s1.term \in Nat /\ p = n /\ t = s1.term /\ d = s1.vote
      BY <2>1, <1>g DEF Sound, Shape
    <3> QED
      BY <2>1, <3>1, <1>n DEF VotedFor
  <2>2. CASE <<t, p>> \in leaders
    <3>1. /\ \E Q \in SUBSET Server : HasQuorum(Q) /\ Supports(msgs, Q, t, p)
          /\ VotedFor(p, t, p)
          /\ \A d \in Server : Grant(p, t, d) \in msgs => d = p
      BY <2>2 DEF IInv, LeadersElected
    <3>2. VotedFor(p, t, p)'
      BY <3>1, <1>k
    <3> QED
      BY <3>1, <3>2, <2>1, <1>s
  <2>3. CASE <<t, p>> \notin leaders
    <3>1. p = n /\ t = s1.term /\ s1.role = "leader"
      BY <2>3
    <3>2. s1.vote = n /\ \E Q \in SUBSET Server : HasQuorum(Q) /\ Supports(msgs, Q, s1.term, n)
      BY <2>3, <3>1 DEF Sound
    <3>3. VotedFor(p, t, p)'
      BY <3>1, <3>2, <1>n DEF VotedFor
    <3>4. ASSUME NEW d \in Server, Grant(p, t, d) \in msgs PROVE d = p
      <4>1. VotedFor(p, t, d)'
        BY <3>4, <1>k DEF IInv, GrantsKept
      <4> QED
        BY <4>1, <3>1, <3>2, <1>n DEF VotedFor, Sound, Shape
    <3> QED
      BY <3>1, <3>2, <3>3, <3>4, <2>1, <1>s
  <2> QED
    BY <2>2, <2>3
<1> QED
  BY <1>1, <1>2, <1>3, <1>4, <1>5, <1>6 DEF IInv

-----------------------------------------------------------------------------
(* What the node's methods do to role, term and votes.                      *)
Same(s, s1) ==
    /\ DOMAIN s1 = DOMAIN s
    /\ s1.role = s.role /\ s1.term = s.term /\ s1.vote = s.vote /\ s1.votes = s.votes

(* A state with the same role, term and votes is as well formed.            *)
LEMMA SameShape ==
    ASSUME NEW s, NEW s1, Shape(s), Same(s, s1)
    PROVE  Shape(s1)
BY DEF Shape, Same

(* Keeping role, term and votes is transitive.                              *)
LEMMA SameTransitive ==
    ASSUME NEW s, NEW s1, NEW s2, Same(s, s1), Same(s1, s2)
    PROVE  Same(s, s2)
BY DEF Same

(* Committing and applying, and the bookkeeping of a leader, touch neither  *)
(* role nor term nor votes.                                                 *)
LEMMA CommitKeeps ==
    ASSUME NEW s, Shape(s), NEW c, NEW n, NEW m
    PROVE  /\ Same(s, Commit(s, c)) /\ Same(s, CommitAlone(s))
           /\ Same(s, AdvanceCommit(n, s)) /\ Same(s, FollowCommit(s, m))
<1>1. \A d : Same(s, Commit(s, d))
  BY DEF Commit, Same, Shape, Fields
<1>2. Same(s, s)
  BY DEF Same
<1> QED
  BY <1>1, <1>2 DEF CommitAlone, AdvanceCommit, FollowCommit

(* Progress, the transfer target and the log are no part of it.             *)
LEMMA ProgressKeeps ==
    ASSUME NEW s, Shape(s), NEW n, NEW full, NEW p, NEW i, NEW m, NEW q
    PROVE  /\ Same(s, MarkSent(n, s, full)) /\ Same(s, MarkReplicated(s, p, i))
           /\ Same(s, MarkRejected(s, m)) /\ Same(s, [s EXCEPT !.transfer = q])
           /\ Same(s, [s EXCEPT !.log = q]) /\ Same(s, [s EXCEPT !.awaiting = q])
<1>1. Same(s, MarkSent(n, s, full))
  BY DEF MarkSent, Same, Shape, Fields
<1>2. Same(s, MarkReplicated(s, p, i))
  BY DEF MarkReplicated, Same, Shape, Fields
<1>3. Same(s, MarkRejected(s, m))
  BY DEF MarkRejected, Same, Shape, Fields
<1>4. /\ Same(s, [s EXCEPT !.transfer = q]) /\ Same(s, [s EXCEPT !.log = q])
      /\ Same(s, [s EXCEPT !.awaiting = q])
  BY DEF Same, Shape, Fields
<1> QED
  BY <1>1, <1>2, <1>3, <1>4

(* Stepping down to a term that is not behind never changes a vote within   *)
(* the term.                                                                *)
LEMMA StepDownAdvances ==
    ASSUME NEW s, Shape(s), NEW t \in Nat, t >= s.term
    PROVE  /\ Shape(StepDown(s, t)) /\ Advances(s, StepDown(s, t))
           /\ StepDown(s, t).role = "follower" /\ StepDown(s, t).term = t
BY DEF StepDown, Shape, Fields, Advances, Roles

(* begin_election() moves to the next term with a vote for itself.          *)
LEMMA CandidateAdvances ==
    ASSUME NEW s, Shape(s), NEW n \in Server
    PROVE  /\ Shape(Candidate(n, s)) /\ Advances(s, Candidate(n, s))
           /\ Candidate(n, s).role = "candidate"
           /\ Candidate(n, s).term = s.term + 1
           /\ Candidate(n, s).vote = n /\ Candidate(n, s).votes = {n}
BY DEF Candidate, Shape, Fields, Advances, Roles

(* become_leader() keeps the term and the vote.                             *)
LEMMA BecomeLeaderKeeps ==
    ASSUME NEW s, Shape(s), NEW n \in Server
    PROVE  /\ Shape(BecomeLeader(n, s))
           /\ BecomeLeader(n, s).role = "leader"
           /\ BecomeLeader(n, s).term = s.term
           /\ BecomeLeader(n, s).vote = s.vote
<1> DEFINE last == Len(s.log)
           l == [s EXCEPT !.role = "leader",
                          !.leader = n,
                          !.votes = {},
                          !.log = Append(s.log, s.term),
                          !.next = [p \in Server |-> IF p = n THEN last + 2 ELSE last + 1],
                          !.match = [p \in Server |-> IF p = n THEN last + 1 ELSE 0],
                          !.mode = [p \in Server |-> "probe"]]
<1>1. Shape(l) /\ l.role = "leader" /\ l.term = s.term /\ l.vote = s.vote
  BY DEF Shape, Fields, Roles
<1>2. Same(l, CommitAlone(l))
  BY <1>1, CommitKeeps
<1>3. BecomeLeader(n, s) = CommitAlone(l)
  BY DEF BecomeLeader
<1> HIDE DEF l
<1> QED
  BY <1>1, <1>2, <1>3, SameShape DEF Same

-----------------------------------------------------------------------------
(* Messages that carry no vote.                                             *)
Plain(ms) ==
    /\ \A m \in ms : MessageOK(m)
    /\ \A v, c, t : Grant(v, t, c) \notin ms

(* No request carries a vote.                                               *)
LEMMA RequestsArePlain ==
    ASSUME NEW n \in Server, NEW s, Shape(s), NEW pre \in BOOLEAN, NEW full
    PROVE  /\ Plain(VoteRequests(n, s, pre))
           /\ Plain(AppendRequests(n, s, full))
           /\ \A p \in Server : Plain({TimeoutNow(n, s, p)})
           /\ Plain({})
<1>1. Plain(VoteRequests(n, s, pre))
  <2>1. ASSUME NEW m \in VoteRequests(n, s, pre)
        PROVE  MessageOK(m) /\ \A v, c, t : Grant(v, t, c) # m
    BY <2>1 DEF VoteRequests, MessageOK, Grant, Shape
  <2> QED
    BY <2>1 DEF Plain
<1>2. Plain(AppendRequests(n, s, full))
  <2>1. ASSUME NEW p \in Server
        PROVE  /\ MessageOK(AppendRequest(n, s, p, p \in full))
               /\ \A v, c, t : Grant(v, t, c) # AppendRequest(n, s, p, p \in full)
    BY DEF AppendRequest, MessageOK, Grant, Shape
  <2> QED
    BY <2>1 DEF Plain, AppendRequests
<1>3. \A p \in Server : Plain({TimeoutNow(n, s, p)})
  BY DEF TimeoutNow, MessageOK, Grant, Shape, Plain
<1> QED
  BY <1>1, <1>2, <1>3 DEF Plain

(* Nor does the answer to an append or to a pre-vote, or a refusal.         *)
LEMMA AnswersArePlain ==
    ASSUME NEW m, MessageOK(m), NEW t \in Nat, NEW b, NEW i, NEW j
    PROVE  /\ Plain({AppendResponse(m, t, b, i, j)})
           /\ m.type = "RequestVote" => Plain({VoteResponse(m, t, FALSE)})
           /\ m.type = "RequestVote" /\ m.pre /\ b \in BOOLEAN => Plain({VoteResponse(m, t, b)})
<1>1. Plain({AppendResponse(m, t, b, i, j)})
  BY DEF AppendResponse, MessageOK, Grant, Plain
<1>2. ASSUME m.type = "RequestVote" PROVE Plain({VoteResponse(m, t, FALSE)})
  BY <1>2 DEF VoteResponse, MessageOK, VoteResponses, Grant, Plain
<1>3. ASSUME m.type = "RequestVote", m.pre, b \in BOOLEAN PROVE Plain({VoteResponse(m, t, b)})
  BY <1>3 DEF VoteResponse, MessageOK, VoteResponses, Grant, Plain
<1> QED
  BY <1>1, <1>2, <1>3

(* A step is sound when it leaves n without a claim to votes, or with the   *)
(* claim it had.                                                            *)
Quiet(n, s1) ==
    /\ Shape(s1) /\ Advances(node[n], s1)
    /\ s1.role \in {"follower", "pre_candidate"} \/ Same(node[n], s1)

(* A quiet step without votes is sound.                                     *)
LEMMA QuietIsSound ==
    ASSUME IInv, NEW n \in Server, NEW s1, Quiet(n, s1), NEW ms, Plain(ms)
    PROVE  Sound(n, s1, ms)
<1>1. CASE s1.role \in {"follower", "pre_candidate"}
  BY <1>1 DEF Quiet, Plain, Sound
<1>2. CASE Same(node[n], s1)
  BY <1>2 DEF Quiet, Plain, Sound, Same, IInv, CandidatesCount, LeadersRecorded
<1> QED
  BY <1>1, <1>2 DEF Quiet

(* So it keeps the invariant.                                               *)
LEMMA QuietStep ==
    ASSUME IInv, NEW n \in Server, NEW s1, Quiet(n, s1), NEW ms, Plain(ms),
           Update(n, s1), Send(ms), spent' \in [Events -> Nat], UNCHANGED setup
    PROVE  IInv'
BY QuietIsSound, SoundStep

(* Answering without changing anything.                                     *)
LEMMA AnswerStep ==
    ASSUME IInv, NEW n \in Server, NEW ms, Plain(ms), UNCHANGED <<node, disk, leaders>>,
           Send(ms), spent' \in [Events -> Nat], UNCHANGED setup
    PROVE  IInv'
<1>1. Quiet(n, node[n])
  BY DEF IInv, Typed, Quiet, Advances, Same
<1>2. Update(n, node[n])
  BY DEF IInv, Typed, LeadersRecorded, Update
<1> QED
  BY <1>1, <1>2, QuietStep

(* Replicating to all changes nothing that votes depend on.                 *)
LEMMA ReplicateStep ==
    ASSUME IInv, NEW n \in Server, NEW s, Sound(n, s, {}), ReplicateToAll(n, s),
           spent' \in [Events -> Nat], UNCHANGED setup
    PROVE  IInv'
<1>1. PICK full \in FullWindows(s) :
         Update(n, MarkSent(n, s, full)) /\ Send(AppendRequests(n, s, full))
  BY DEF ReplicateToAll
<1> DEFINE s1 == MarkSent(n, s, full)
           ms == AppendRequests(n, s, full)
<1>2. Shape(s)
  BY DEF Sound
<1>3. Same(s, s1) /\ Shape(s1)
  BY <1>2, ProgressKeeps, SameShape
<1>4. Plain(ms)
  BY <1>2, RequestsArePlain
<1>5. Sound(n, s1, ms)
  <2> HIDE DEF s1, ms
  <2> QED
    BY <1>3, <1>4 DEF Sound, Same, Plain, Advances
<1>6. Update(n, s1) /\ Send(ms)
  BY <1>1
<1> HIDE DEF s1, ms
<1> QED
  BY <1>5, <1>6, SoundStep

(* Starting an election is sound from any state that has not gone back.     *)
LEMMA ElectionStep ==
    ASSUME IInv, NEW n \in Server, NEW s, Shape(s), s.term >= node[n].term,
           Update(n, BeginElection(n, s)), Send(VoteRequests(n, Candidate(n, s), FALSE)),
           spent' \in [Events -> Nat], UNCHANGED setup
    PROVE  IInv'
<1> DEFINE c == Candidate(n, s)
           ms == VoteRequests(n, c, FALSE)
           s1 == BeginElection(n, s)
<1>1. /\ Shape(c) /\ c.role = "candidate" /\ c.term = s.term + 1
      /\ c.vote = n /\ c.votes = {n}
  BY CandidateAdvances
<1>2. Plain(ms)
  <2> HIDE DEF c
  <2> QED
    BY <1>1, RequestsArePlain
<1>3. /\ Shape(s1) /\ s1.term = s.term + 1 /\ s1.vote = n
      /\ \/ s1.role = "candidate" /\ s1.votes = {n}
         \/ s1.role = "leader" /\ HasQuorum({n})
  <2>1. CASE HasQuorum({n})
    <3>1. s1 = BecomeLeader(n, c)
      BY <2>1 DEF BeginElection
    <3> HIDE DEF c, s1
    <3> QED
      BY <2>1, <3>1, <1>1, BecomeLeaderKeeps
  <2>2. CASE ~HasQuorum({n})
    <3>1. s1 = c
      BY <2>2 DEF BeginElection
    <3> HIDE DEF c, s1
    <3> QED
      BY <3>1, <1>1
  <2> QED
    BY <2>1, <2>2
<1>4. Sound(n, s1, ms)
  <2>1. Advances(node[n], s1)
    <3>1. node[n].term \in Nat /\ s.term \in Nat
      BY DEF IInv, Typed, Shape
    <3> HIDE DEF s1
    <3> QED
      BY <1>3, <3>1 DEF Advances
  <2>2. Supports(msgs, {n}, s1.term, n)
    BY DEF Supports
  <2> HIDE DEF s1, ms
  <2> QED
    BY <1>2, <1>3, <2>1, <2>2 DEF Sound, Plain
<1>5. Update(n, s1) /\ Send(ms)
  OBVIOUS
<1> HIDE DEF s1, ms
<1> QED
  BY <1>4, <1>5, SoundStep

-----------------------------------------------------------------------------
(* Timers, clients and restarts.                                            *)
LEMMA SpendKeepsType ==
    ASSUME IInv, NEW e \in Events, Spend(e)
    PROVE  spent' \in [Events -> Nat]
BY DEF IInv, Typed, Spend

(* The state of every node is well formed.                                  *)
LEMMA ShapeHere ==
    ASSUME IInv, NEW n \in Server
    PROVE  Shape(node[n]) /\ Advances(node[n], node[n]) /\ node[n].term \in Nat
BY DEF IInv, Typed, Shape, Advances

(* A changed copy of the state that keeps role, term and votes is quiet.    *)
LEMMA SameIsQuiet ==
    ASSUME IInv, NEW n \in Server, NEW s1, Same(node[n], s1)
    PROVE  Quiet(n, s1)
<1>1. Shape(s1)
  BY ShapeHere, SameShape
<1> QED
  BY <1>1 DEF Quiet, Same, Advances

(* Timers, client commands and restarts keep the invariant.                 *)
LEMMA TimerSteps ==
    ASSUME IInv, NEW n \in Server, UNCHANGED setup,
           \/ ElectionTimeout(n) \/ CheckQuorum(n) \/ AppendCommand(n) \/ Restart(n)
           \/ Heartbeat(n) \/ HeartbeatAwait(n) \/ HeartbeatResume(n)
    PROVE  IInv'
<1> DEFINE s == node[n]
<1>s. Shape(s) /\ Advances(s, s) /\ s.term \in Nat
  BY ShapeHere
<1>p. Plain({})
  BY <1>s, RequestsArePlain
<1>1. CASE ElectionTimeout(n)
  <2>1. spent' \in [Events -> Nat]
    BY <1>1 DEF ElectionTimeout, IInv, Typed
  <2>2. CASE setup.preVote
    <3>1. Update(n, BeginPreVote(n, s)) /\ Send(VoteRequests(n, s, TRUE))
      BY <1>1, <2>2 DEF ElectionTimeout
    <3>2. Quiet(n, BeginPreVote(n, s))
      BY <1>s DEF BeginPreVote, Quiet, Shape, Fields, Roles, Advances
    <3>3. Plain(VoteRequests(n, s, TRUE))
      BY <1>s, RequestsArePlain
    <3> QED
      BY <2>1, <3>1, <3>2, <3>3, QuietStep
  <2>3. CASE ~setup.preVote
    <3>1. Update(n, BeginElection(n, s)) /\ Send(VoteRequests(n, Candidate(n, s), FALSE))
      BY <1>1, <2>3 DEF ElectionTimeout
    <3>2. s.term >= node[n].term
      BY <1>s
    <3> QED
      BY <2>1, <3>1, <3>2, <1>s, ElectionStep
  <2> QED
    BY <2>2, <2>3
<1>2. CASE Heartbeat(n)
  <2>1. spent' \in [Events -> Nat] /\ ReplicateToAll(n, s)
    BY <1>2 DEF Heartbeat, IInv, Typed
  <2>2. Sound(n, s, {})
    BY <1>s, <1>p, QuietIsSound DEF Quiet, Same
  <2> QED
    BY <2>1, <2>2, ReplicateStep
<1>3. CASE CheckQuorum(n)
  <2>1. spent' \in [Events -> Nat]
    BY <1>3, SpendKeepsType DEF CheckQuorum, Events
  <2>2. Update(n, StepDown(s, s.term)) /\ Send({})
    BY <1>3 DEF CheckQuorum, Send
  <2>3. Quiet(n, StepDown(s, s.term))
    BY <1>s, StepDownAdvances DEF Quiet
  <2> QED
    BY <2>1, <2>2, <2>3, <1>p, QuietStep
<1>4. CASE AppendCommand(n)
  <2> DEFINE a == [s EXCEPT !.log = Append(@, s.term)]
  <2>1. spent' \in [Events -> Nat]
    BY <1>4, SpendKeepsType DEF AppendCommand, Events
  <2>2. Update(n, CommitAlone(a)) /\ Send({})
    BY <1>4 DEF AppendCommand, Send
  <2>3. Same(s, a)
    BY <1>s, ProgressKeeps
  <2>4. Same(s, CommitAlone(a))
    <3> HIDE DEF a
    <3> QED
      BY <1>s, <2>3, SameShape, CommitKeeps, SameTransitive
  <2>5. Quiet(n, CommitAlone(a))
    <3> HIDE DEF a
    <3> QED
      BY <2>4, SameIsQuiet
  <2> HIDE DEF a
  <2> QED
    BY <2>1, <2>2, <2>5, <1>p, QuietStep
<1>5. CASE Restart(n)
  <2> DEFINE s1 == RestoredFrom(s, disk[n], s.log)
  <2>1. spent' \in [Events -> Nat]
    BY <1>5, SpendKeepsType DEF Restart, Events
  <2>2. Update(n, s1) /\ Send({})
    BY <1>5 DEF Restart, Send
  <2>3. disk[n].term = s.term /\ disk[n].vote = s.vote
    BY DEF IInv, Typed, HardState
  <2>4. Quiet(n, s1)
    BY <1>s, <2>3 DEF RestoredFrom, Restored, Quiet, Shape, Fields, Roles, Advances
  <2> HIDE DEF s1
  <2> QED
    BY <2>1, <2>2, <2>4, <1>p, QuietStep
<1>6. CASE HeartbeatAwait(n)
  <2> DEFINE a == [s EXCEPT !.awaiting = TRUE]
  <2>1. spent' \in [Events -> Nat]
    BY <1>6, SpendKeepsType DEF HeartbeatAwait, Events
  <2>2. Update(n, a) /\ Send({})
    BY <1>6 DEF HeartbeatAwait, Send
  <2>3. Quiet(n, a)
    BY <1>s, ProgressKeeps, SameIsQuiet
  <2> HIDE DEF a
  <2> QED
    BY <2>1, <2>2, <2>3, <1>p, QuietStep
<1>7. CASE HeartbeatResume(n)
  <2> DEFINE a == [s EXCEPT !.awaiting = FALSE]
  <2>1. spent' \in [Events -> Nat] /\ UNCHANGED <<disk, leaders>>
    BY <1>7 DEF HeartbeatResume, IInv, Typed
  <2>2. PICK full \in FullWindows(a) :
           /\ node' = [node EXCEPT ![n] = MarkSent(n, a, full)]
           /\ Send(AppendRequests(n, a, full))
    BY <1>7 DEF HeartbeatResume
  <2>3. Same(s, a) /\ Shape(a)
    BY <1>s, ProgressKeeps, SameShape
  <2> HIDE DEF a
  <2>4. Same(s, MarkSent(n, a, full))
    BY <2>3, ProgressKeeps, SameTransitive
  <2> DEFINE b == MarkSent(n, a, full)
             ms == AppendRequests(n, a, full)
  <2>5. Quiet(n, b) /\ Plain(ms)
    BY <2>3, <2>4, SameIsQuiet, RequestsArePlain
  <2>6. node' = [node EXCEPT ![n] = b] /\ Send(ms)
    BY <2>2
  <2> HIDE DEF b, ms
  <2>7. disk' = [disk EXCEPT ![n] = HardState(b)]
    BY <2>1, <2>4 DEF b, Same, HardState, IInv, Typed
  <2>8. leaders' = IF b.role = "leader" THEN leaders \cup {<<b.term, n>>} ELSE leaders
    BY <2>1, <2>4 DEF b, Same, IInv, LeadersRecorded
  <2> QED
    BY <2>1, <2>5, <2>6, <2>7, <2>8, QuietStep DEF Update
<1> QED
  BY <1>1, <1>2, <1>3, <1>4, <1>5, <1>6, <1>7

-----------------------------------------------------------------------------
(* Votes.                                                                   *)
LEMMA MessageHere ==
    ASSUME IInv, NEW m \in msgs
    PROVE  MessageOK(m) /\ m.from \in Server /\ m.to \in Server /\ m.term \in Nat
BY DEF IInv, Typed, MessageOK

(* A vote is given only by a node that has none to give to another, and is  *)
(* saved with the answer.                                                   *)
LEMMA RequestVoteStep ==
    ASSUME IInv, UNCHANGED setup, NEW m \in msgs, HandlePreVote(m) \/ HandleRequestVote(m)
    PROVE  IInv'
<1> DEFINE n == m.to
           s == node[n]
           d == IF m.term > s.term THEN StepDown(s, m.term) ELSE s
           g == MayGrant(d, m)
<1>m. MessageOK(m) /\ n \in Server /\ m.from \in Server /\ m.term \in Nat /\ m.type = "RequestVote"
  BY MessageHere DEF HandlePreVote, HandleRequestVote
<1>s. Shape(s) /\ Advances(s, s) /\ s.term \in Nat
  BY <1>m, ShapeHere
<1>t. spent' \in [Events -> Nat]
  BY DEF HandlePreVote, HandleRequestVote, IInv, Typed
<1>1. CASE HandlePreVote(m)
  <2> DEFINE grant == ~s.stopped /\ m.term >= s.term /\ UpToDate(s.log, m.lastIndex, m.lastTerm)
  <2>1. m.pre /\ Send({VoteResponse(m, s.term, grant)}) /\ UNCHANGED <<node, disk, leaders>>
    BY <1>1 DEF HandlePreVote
  <2>2. grant \in BOOLEAN
    OBVIOUS
  <2>3. Plain({VoteResponse(m, s.term, grant)})
    <3> HIDE DEF grant
    <3> QED
      BY <1>m, <1>s, <2>1, <2>2, AnswersArePlain
  <2> HIDE DEF grant, n
  <2> QED
    BY <1>m, <1>t, <2>1, <2>3, AnswerStep
<1>2. CASE HandleRequestVote(m) /\ (s.stopped \/ m.term < s.term)
  <2>1. Send({VoteResponse(m, s.term, FALSE)}) /\ UNCHANGED <<node, disk, leaders>>
    BY <1>2 DEF HandleRequestVote
  <2>2. Plain({VoteResponse(m, s.term, FALSE)})
    BY <1>m, <1>s, AnswersArePlain
  <2> HIDE DEF n
  <2> QED
    BY <1>m, <1>t, <2>1, <2>2, AnswerStep
<1>3. CASE HandleRequestVote(m) /\ ~(s.stopped \/ m.term < s.term)
  <2> DEFINE s1 == Voted(s, m)
             ms == {VoteResponse(m, m.term, g)}
  <2>1. Update(n, s1) /\ Send(ms) /\ m.term >= s.term
    BY <1>3, <1>m, <1>s DEF HandleRequestVote
  <2>2. /\ Shape(d) /\ Advances(s, d) /\ d.term = m.term
        /\ d.role = "follower" \/ Same(s, d)
    BY <1>m, <1>s, <2>1, StepDownAdvances DEF Same
  <2>3. g \in BOOLEAN /\ (g => d.vote \in {Nil, m.from})
    BY DEF MayGrant
  <2>4. s1 = IF g THEN [d EXCEPT !.vote = m.from, !.leader = Nil] ELSE d
    BY DEF Voted
  <2> HIDE DEF d, g, s, s1, n
  <2>5. /\ Shape(s1) /\ s1.term = m.term /\ s1.role = d.role /\ s1.votes = d.votes
        /\ g => s1.vote = m.from
        /\ d.vote # Nil => s1.vote = d.vote
        /\ ~g => s1 = d
    BY <1>m, <2>2, <2>3, <2>4 DEF Shape, Fields
  <2>6. Advances(s, s1)
    BY <1>s, <2>2, <2>5 DEF Advances, Shape
  <2>7. \A r \in ms : MessageOK(r)
    BY <1>m, <2>3 DEF MessageOK, VoteResponse, VoteResponses, n
  <2>8. \A v, c \in Server, t \in Nat :
           Grant(v, t, c) \in ms => v = n /\ t = s1.term /\ c = s1.vote
    BY <2>3, <2>5 DEF Grant, VoteResponse, n
  <2>9. s1.role = "candidate" => s1.vote = n /\ Supports(msgs, s1.votes, s1.term, n)
    <3> SUFFICES ASSUME s1.role = "candidate" PROVE s1.vote = n /\ Supports(msgs, s1.votes, s1.term, n)
      OBVIOUS
    <3>1. Same(s, d)
      BY <2>2, <2>5
    <3>2. s.vote = n /\ Supports(msgs, s.votes, s.term, n)
      BY <3>1, <2>5, <1>m DEF Same, IInv, CandidatesCount, s
    <3>3. n # Nil
      BY <1>m, RaftAssumption
    <3> QED
      BY <3>1, <3>2, <3>3, <2>2, <2>5 DEF Same
  <2>10. s1.role = "leader" => <<s1.term, n>> \in leaders
    BY <2>2, <2>5, <1>m DEF Same, IInv, LeadersRecorded, s
  <2>11. Sound(n, s1, ms)
    BY <2>5, <2>6, <2>7, <2>8, <2>9, <2>10 DEF Sound, s
  <2> HIDE DEF ms
  <2> QED
    BY <1>m, <1>t, <2>1, <2>11, SoundStep
<1> QED
  BY <1>1, <1>2, <1>3

(* A candidate counts the answers that were given to it in its own term.    *)
LEMMA VoteResponseStep ==
    ASSUME IInv, UNCHANGED setup, NEW m \in msgs, HandleVoteResponse(m)
    PROVE  IInv'
<1> DEFINE n == m.to
           s == node[n]
           s1 == [s EXCEPT !.votes = @ \cup {m.from}]
<1>m. /\ MessageOK(m) /\ n \in Server /\ m.from \in Server /\ m.term \in Nat
      /\ m.type = "VoteResponse" /\ m \in VoteResponses
  BY MessageHere DEF HandleVoteResponse, MessageOK
<1>s. Shape(s) /\ Advances(s, s) /\ s.term \in Nat
  BY <1>m, ShapeHere
<1>t. spent' \in [Events -> Nat]
  BY DEF HandleVoteResponse, IInv, Typed
<1>p. Plain({})
  BY <1>m, <1>s, RequestsArePlain
<1>v. /\ Shape(s1) /\ s1.role = s.role /\ s1.term = s.term /\ s1.vote = s.vote
      /\ s1.votes = s.votes \cup {m.from}
  BY <1>m, <1>s DEF Shape, Fields
<1>1. CASE m.term > s.term /\ Update(n, StepDown(s, m.term)) /\ UNCHANGED msgs
  <2>1. Quiet(n, StepDown(s, m.term))
    BY <1>1, <1>m, <1>s, StepDownAdvances DEF Quiet
  <2>2. Send({})
    BY <1>1 DEF Send
  <2> HIDE DEF n
  <2> QED
    BY <1>1, <1>m, <1>t, <1>p, <2>1, <2>2, QuietStep
<1>2. CASE /\ s.role = "pre_candidate" /\ HasQuorum(s1.votes)
           /\ Update(n, BeginElection(n, s1)) /\ Send(VoteRequests(n, Candidate(n, s1), FALSE))
  <2>1. s1.term >= node[n].term
    BY <1>s, <1>v
  <2> HIDE DEF s1, n
  <2> QED
    BY <1>2, <1>m, <1>t, <1>v, <2>1, ElectionStep
<1>3. CASE s.role = "pre_candidate" /\ Update(n, s1) /\ UNCHANGED msgs
  <2>1. Quiet(n, s1)
    <3> HIDE DEF s1
    <3> QED
      BY <1>3, <1>v DEF Quiet, Advances
  <2>2. Send({})
    BY <1>3 DEF Send
  <2> HIDE DEF s1, n
  <2> QED
    BY <1>3, <1>m, <1>t, <1>p, <2>1, <2>2, QuietStep
<1>4. CASE m.term = s.term /\ ~m.pre /\ s.role = "candidate" /\ m.granted
  <2>1. m = Grant(m.from, s.term, n)
    BY <1>m, <1>4 DEF VoteResponses, Grant
  <2>2. s.vote = n /\ Supports(msgs, s.votes, s.term, n)
    BY <1>m, <1>4 DEF IInv, CandidatesCount
  <2>3. Supports(msgs, s1.votes, s1.term, n)
    <3>1. Grant(m.from, s.term, n) \in msgs
      BY <2>1
    <3> HIDE DEF s1, n
    <3> QED
      BY <3>1, <2>2, <1>v DEF Supports
  <2>4. CASE HasQuorum(s1.votes) /\ ReplicateToAll(n, BecomeLeader(n, s1))
    <3> DEFINE l == BecomeLeader(n, s1)
    <3>1. Shape(l) /\ l.role = "leader" /\ l.term = s.term /\ l.vote = n
      <4> HIDE DEF s1, n
      <4> QED
        BY <1>m, <1>v, <2>2, BecomeLeaderKeeps
    <3>2. s1.votes \in SUBSET Server
      BY <1>v DEF Shape
    <3>3. Advances(s, l)
      <4> HIDE DEF l, s1
      <4> QED
        BY <3>1, <2>2 DEF Advances
    <3>4. Sound(n, l, {})
      <4> HIDE DEF l, s1, n
      <4> QED
        BY <3>1, <3>2, <3>3, <2>3, <2>4, <1>v, <1>p DEF Sound, Plain
    <3> HIDE DEF s1, n
    <3> QED
      BY <1>m, <1>t, <2>4, <3>4, ReplicateStep
  <2>5. CASE Update(n, s1) /\ UNCHANGED msgs
    <3>1. Sound(n, s1, {})
      <4> HIDE DEF s1, n
      <4> QED
        BY <1>4, <1>v, <1>p, <1>s, <2>2, <2>3 DEF Sound, Plain, Advances
    <3>2. Send({})
      BY <2>5 DEF Send
    <3> HIDE DEF s1, n
    <3> QED
      BY <1>m, <1>t, <2>5, <3>1, <3>2, SoundStep
  <2> QED
    BY <1>4, <1>m, <2>4, <2>5 DEF HandleVoteResponse
<1> QED
  BY <1>1, <1>2, <1>3, <1>4 DEF HandleVoteResponse

-----------------------------------------------------------------------------
(* Replication and leader transfer.                                         *)
LEMMA FollowIsQuiet ==
    ASSUME IInv, NEW n \in Server, NEW m, m.term \in Nat, m.term >= node[n].term
    PROVE  Quiet(n, Follow(node[n], m))
<1> DEFINE s == node[n]
           d == IF m.term > s.term \/ s.role # "follower" THEN StepDown(s, m.term) ELSE s
           f == [d EXCEPT !.leader = m.from]
<1>s. Shape(s) /\ Advances(s, s) /\ s.term \in Nat
  BY ShapeHere
<1>1. Shape(d) /\ Advances(s, d) /\ d.role = "follower"
  BY <1>s, StepDownAdvances
<1>2. Follow(s, m) = f
  BY DEF Follow
<1> HIDE DEF d
<1>3. Same(d, f)
  BY <1>1 DEF Same, Shape, Fields
<1>4. Shape(f)
  BY <1>1, <1>3, SameShape
<1> HIDE DEF f
<1> QED
  BY <1>1, <1>2, <1>3, <1>4 DEF Quiet, Same, Advances

(* A quiet step followed by changes elsewhere is quiet.                     *)
LEMMA QuietThenSame ==
    ASSUME NEW n, NEW s, NEW s1, Quiet(n, s), Same(s, s1)
    PROVE  Quiet(n, s1)
<1>1. Shape(s1)
  BY SameShape DEF Quiet
<1> QED
  BY <1>1 DEF Quiet, Same, Advances

(* handle_append_entries() keeps the invariant, also when it is cut short   *)
(* by a crash.                                                              *)
LEMMA AppendSteps ==
    ASSUME IInv, UNCHANGED setup, NEW m \in msgs, HandleAppendEntries(m) \/ CrashInAppend(m)
    PROVE  IInv'
<1> DEFINE n == m.to
           s == node[n]
           s1 == Follow(s, m)
           s2 == [s1 EXCEPT !.log = Spliced(s1.log, m.prev, m.entries)]
<1>m. MessageOK(m) /\ n \in Server /\ m.from \in Server /\ m.term \in Nat
  BY MessageHere
<1>s. Shape(s) /\ Advances(s, s) /\ s.term \in Nat
  BY <1>m, ShapeHere
<1>p. Plain({})
  BY <1>m, <1>s, RequestsArePlain
<1>f. m.term >= s.term => Quiet(n, s1) /\ Shape(s1)
  BY <1>m, FollowIsQuiet DEF Quiet
<1>a. \A t \in Nat : \A b, i, j : Plain({AppendResponse(m, t, b, i, j)})
  BY <1>m, AnswersArePlain
<1>1. CASE HandleAppendEntries(m)
  <2>t. spent' \in [Events -> Nat]
    BY <1>1 DEF HandleAppendEntries, IInv, Typed
  <2>1. CASE Send({AppendResponse(m, s.term, FALSE, Len(s.log), 0)}) /\ UNCHANGED <<node, disk, leaders>>
    <3>1. Plain({AppendResponse(m, s.term, FALSE, Len(s.log), 0)})
      BY <1>a, <1>s
    <3> HIDE DEF n
    <3> QED
      BY <1>m, <2>t, <2>1, <3>1, AnswerStep
  <2>2. CASE /\ m.term >= s.term /\ Update(n, s1)
             /\ Send({AppendResponse(m, m.term, FALSE, IF m.prev > 0 THEN m.prev - 1 ELSE 0,
                                     ConflictIndex(s.log, m.prev))})
    <3> DEFINE ms == {AppendResponse(m, m.term, FALSE, IF m.prev > 0 THEN m.prev - 1 ELSE 0,
                                     ConflictIndex(s.log, m.prev))}
    <3>1. Plain(ms)
      BY <1>a, <1>m
    <3>2. Send(ms)
      BY <2>2
    <3> HIDE DEF n, s1, ms
    <3> QED
      BY <1>m, <1>f, <2>t, <2>2, <3>1, <3>2, QuietStep
  <2>3. CASE /\ m.term >= s.term /\ Update(n, FollowCommit(s2, m))
             /\ Send({AppendResponse(m, m.term, TRUE, m.prev + Len(m.entries), 0)})
    <3>1. Plain({AppendResponse(m, m.term, TRUE, m.prev + Len(m.entries), 0)})
      BY <1>a, <1>m
    <3>2. Quiet(n, s1) /\ Shape(s1)
      BY <1>f, <2>3
    <3>3. Same(s1, s2)
      <4> HIDE DEF s1
      <4> QED
        BY <3>2, ProgressKeeps
    <3>4. Quiet(n, FollowCommit(s2, m))
      <4> HIDE DEF s1, s2, n
      <4>1. Same(s2, FollowCommit(s2, m))
        BY <3>2, <3>3, SameShape, CommitKeeps
      <4> QED
        BY <3>2, <3>3, <4>1, QuietThenSame
    <3> HIDE DEF n, s2
    <3> QED
      BY <1>m, <2>t, <2>3, <3>1, <3>4, QuietStep
  <2> QED
    BY <1>1, <2>1, <2>2, <2>3 DEF HandleAppendEntries
<1>2. CASE CrashInAppend(m)
  <2> DEFINE r == RestoredFrom(s1, HardState(s1), Truncated(s1.log, m))
  <2>1. m.term >= s.term /\ Update(n, r) /\ Send({})
    BY <1>2 DEF CrashInAppend, Accepts, Send
  <2>2. spent' \in [Events -> Nat]
    BY <1>2, SpendKeepsType DEF CrashInAppend, Events
  <2>3. Quiet(n, r)
    <3>1. Quiet(n, s1)
      BY <2>1, <1>f
    <3> HIDE DEF s1, n
    <3> QED
      BY <3>1 DEF RestoredFrom, Restored, HardState, Quiet, Shape, Fields, Roles, Advances
  <2> HIDE DEF n, r
  <2> QED
    BY <1>m, <1>p, <2>1, <2>2, <2>3, QuietStep
<1> QED
  BY <1>1, <1>2

(* What a leader does on an acknowledgement or for a transfer is quiet.     *)
LEMMA AppendResponseStep ==
    ASSUME IInv, UNCHANGED setup, NEW m \in msgs, HandleAppendResponse(m)
    PROVE  IInv'
<1> DEFINE n == m.to
           s == node[n]
           s1 == IF m.success THEN AdvanceCommit(n, MarkReplicated(s, m.from, m.match))
                 ELSE MarkRejected(s, m)
           s2 == [s1 EXCEPT !.transfer = Nil]
<1>m. MessageOK(m) /\ n \in Server /\ m.from \in Server /\ m.term \in Nat
  BY MessageHere
<1>s. Shape(s) /\ Advances(s, s) /\ s.term \in Nat
  BY <1>m, ShapeHere
<1>p. Plain({})
  BY <1>m, <1>s, RequestsArePlain
<1>t. spent' \in [Events -> Nat]
  BY DEF HandleAppendResponse, IInv, Typed
<1>1. Same(s, s1)
  <2> DEFINE a == MarkReplicated(s, m.from, m.match)
  <2>1. Same(s, a) /\ Same(s, MarkRejected(s, m))
    BY <1>s, ProgressKeeps
  <2>2. Same(a, AdvanceCommit(n, a))
    <3> HIDE DEF a, n
    <3> QED
      BY <1>s, <2>1, SameShape, CommitKeeps
  <2> HIDE DEF a, n
  <2>3. Same(s, AdvanceCommit(n, a))
    BY <2>1, <2>2, SameTransitive
  <2> QED
    BY <2>1, <2>3 DEF a
<1>2. Shape(s1) /\ Quiet(n, s1)
  <2> HIDE DEF s1, n
  <2> QED
    BY <1>m, <1>s, <1>1, SameShape, SameIsQuiet
<1>3. CASE m.term > s.term /\ Update(n, StepDown(s, m.term)) /\ UNCHANGED msgs
  <2>1. Quiet(n, StepDown(s, m.term))
    BY <1>3, <1>m, <1>s, StepDownAdvances DEF Quiet
  <2>2. Send({})
    BY <1>3 DEF Send
  <2> HIDE DEF n
  <2> QED
    BY <1>3, <1>m, <1>t, <1>p, <2>1, <2>2, QuietStep
<1>4. CASE Update(n, s2) /\ Send({TimeoutNow(n, s1, m.from)})
  <2> HIDE DEF s1, n
  <2>1. Same(s1, s2)
    BY <1>2, ProgressKeeps
  <2>2. Quiet(n, s2)
    BY <1>2, <2>1, QuietThenSame
  <2>3. Plain({TimeoutNow(n, s1, m.from)})
    BY <1>m, <1>2, RequestsArePlain
  <2> HIDE DEF s2
  <2> QED
    BY <1>4, <1>m, <1>t, <2>2, <2>3, QuietStep
<1>5. CASE ReplicateToAll(n, s1)
  <2> HIDE DEF s1, n
  <2>1. Sound(n, s1, {})
    BY <1>m, <1>p, <1>2, QuietIsSound
  <2> QED
    BY <1>5, <1>m, <1>t, <2>1, ReplicateStep
<1>6. CASE Update(n, s1) /\ UNCHANGED msgs
  <2> HIDE DEF s1, n
  <2>1. Send({})
    BY <1>6 DEF Send
  <2> QED
    BY <1>6, <1>m, <1>t, <1>p, <1>2, <2>1, QuietStep
<1> QED
  BY <1>3, <1>4, <1>5, <1>6 DEF HandleAppendResponse

(* transfer_leader() keeps the invariant.                                   *)
LEMMA TransferLeaderStep ==
    ASSUME IInv, UNCHANGED setup, NEW n \in Server, NEW p \in Server, TransferLeader(n, p)
    PROVE  IInv'
<1> DEFINE s == [node[n] EXCEPT !.transfer = p]
           s1 == [s EXCEPT !.transfer = Nil]
<1>t. spent' \in [Events -> Nat]
  BY SpendKeepsType DEF TransferLeader, Events
<1>1. Same(node[n], s) /\ Shape(s) /\ Quiet(n, s)
  BY ShapeHere, ProgressKeeps, SameShape, SameIsQuiet
<1>2. CASE Update(n, s1) /\ Send({TimeoutNow(n, s, p)})
  <2> HIDE DEF s
  <2>1. Same(s, s1)
    BY <1>1, ProgressKeeps
  <2>2. Quiet(n, s1)
    BY <1>1, <2>1, QuietThenSame
  <2>3. Plain({TimeoutNow(n, s, p)})
    BY <1>1, RequestsArePlain
  <2> HIDE DEF s1
  <2> QED
    BY <1>2, <1>t, <2>2, <2>3, QuietStep
<1>3. CASE ReplicateToAll(n, s)
  <2> HIDE DEF s
  <2>1. Plain({})
    BY <1>1, RequestsArePlain
  <2>2. Sound(n, s, {})
    BY <1>1, <2>1, QuietIsSound
  <2> QED
    BY <1>3, <1>t, <2>2, ReplicateStep
<1> QED
  BY <1>2, <1>3 DEF TransferLeader

(* handle_timeout_now() keeps the invariant.                                *)
LEMMA TimeoutNowStep ==
    ASSUME IInv, UNCHANGED setup, NEW m \in msgs, HandleTimeoutNow(m)
    PROVE  IInv'
<1> DEFINE n == m.to
           s == node[n]
           d == IF m.term > s.term THEN StepDown(s, m.term) ELSE s
<1>m. MessageOK(m) /\ n \in Server /\ m.from \in Server /\ m.term \in Nat
  BY MessageHere
<1>s. Shape(s) /\ Advances(s, s) /\ s.term \in Nat
  BY <1>m, ShapeHere
<1>t. spent' \in [Events -> Nat]
  BY DEF HandleTimeoutNow, IInv, Typed
<1>1. Shape(d) /\ d.term >= node[n].term /\ Quiet(n, d)
  BY <1>m, <1>s, StepDownAdvances DEF Quiet, Same
<1>2. CASE Update(n, d) /\ UNCHANGED msgs
  <2> HIDE DEF n, d
  <2>1. Send({}) /\ Plain({})
    BY <1>m, <1>1, <1>2, RequestsArePlain DEF Send
  <2> QED
    BY <1>m, <1>t, <1>1, <1>2, <2>1, QuietStep
<1>3. CASE Update(n, BeginElection(n, d)) /\ Send(VoteRequests(n, Candidate(n, d), FALSE))
  <2> HIDE DEF n, d
  <2> QED
    BY <1>m, <1>t, <1>1, <1>3, ElectionStep
<1> QED
  BY <1>2, <1>3 DEF HandleTimeoutNow

-----------------------------------------------------------------------------
(* Every step leaves the counts of the bounded events alone or counts one.  *)
LEMMA CountsEvents ==
    ASSUME [Next]_vars
    PROVE  UNCHANGED spent \/ \E e \in Events : Spend(e)
<1>1. CASE UNCHANGED vars
  BY <1>1 DEF vars
<1>2. ASSUME NEW n \in Server,
             \/ ElectionTimeout(n) \/ CheckQuorum(n)
             \/ Heartbeat(n) \/ HeartbeatAwait(n) \/ HeartbeatResume(n)
             \/ AppendCommand(n) \/ Restart(n) \/ FailElection(n) \/ FailHeartbeat(n)
             \/ \E p \in Server : TransferLeader(n, p)
      PROVE  UNCHANGED spent \/ \E e \in Events : Spend(e)
  BY <1>2 DEF ElectionTimeout, CheckQuorum, Heartbeat, HeartbeatAwait, HeartbeatResume,
              AppendCommand, Restart, FailElection, FailHeartbeat, TransferLeader, Fail, Events
<1>3. ASSUME NEW m \in msgs,
             \/ HandlePreVote(m) \/ HandleRequestVote(m) \/ HandleVoteResponse(m)
             \/ HandleAppendEntries(m) \/ HandleAppendResponse(m)
             \/ HandleTimeoutNow(m)
             \/ CrashInAppend(m) \/ FailVote(m) \/ FailAppend(m)
      PROVE  UNCHANGED spent \/ \E e \in Events : Spend(e)
  BY <1>3 DEF HandlePreVote, HandleRequestVote, HandleVoteResponse, HandleAppendEntries,
              HandleAppendResponse, HandleTimeoutNow, CrashInAppend, FailVote, FailAppend, Fail,
              Events
<1> QED
  BY <1>1, <1>2, <1>3 DEF Next, Step

(* The counts are numbers, and none goes down: what has not happened after  *)
(* a step had not happened before it, and the step is not one.              *)
Counted == spent \in [Events -> Nat]

LEMMA CountsGrow ==
    ASSUME Counted, [Next]_vars
    PROVE  /\ Counted'
           /\ \A e \in Events : spent'[e] = 0 => spent[e] = 0 /\ ~Spend(e)
<1>1. CASE UNCHANGED spent
  BY <1>1 DEF Counted, Spend
<1>2. ASSUME NEW e \in Events, Spend(e)
      PROVE  /\ Counted'
             /\ \A f \in Events : spent'[f] = 0 => spent[f] = 0 /\ ~Spend(f)
  <2>1. spent' = [spent EXCEPT ![e] = @ + 1]
    BY <1>2 DEF Spend
  <2>2. \A f \in Events : Spend(f) => spent'[f] = spent[f] + 1
    BY DEF Spend, Counted
  <2>3. Counted'
    BY <2>1 DEF Counted
  <2> QED
    BY <2>1, <2>2, <2>3 DEF Counted
<1> QED
  BY <1>1, <1>2, CountsEvents

(* Nodes on empty disks satisfy the invariant.                              *)
LEMMA InitEstablishes == Init => IInv
<1> SUFFICES ASSUME Init PROVE IInv
  OBVIOUS
<1> DEFINE r == Restored(0, Nil, << >>, 0, << >>)
<1>1. Shape(r) /\ r.role = "follower" /\ HardState(r) = [term |-> 0, vote |-> Nil]
  BY DEF Restored, Shape, Fields, Roles, HardState
<1>2. node = [n \in Server |-> r]
  BY DEF Init
<1> HIDE DEF r
<1>3. \A n \in Server : node[n] = r
  BY <1>2
<1>4. Typed
  BY <1>1, <1>2, <1>3 DEF Init, Typed
<1>5. GrantsKept /\ GrantsUnique
  BY DEF Init, GrantsKept, GrantsUnique
<1>6. CandidatesCount /\ LeadersRecorded /\ LeadersElected
  BY <1>1, <1>3 DEF Init, CandidatesCount, LeadersRecorded, LeadersElected
<1> QED
  BY <1>4, <1>5, <1>6 DEF IInv

(* Every step keeps the invariant.                                          *)
LEMMA NextPreserves ==
    ASSUME IInv, [Next]_vars, StorageWorked'
    PROVE  IInv'
<1>1. CASE UNCHANGED vars
  <2>1. UNCHANGED <<node, disk, msgs, leaders, spent, setup>>
    BY <1>1 DEF vars
  <2>2. Typed' /\ GrantsUnique'
    BY <2>1 DEF IInv, Typed, GrantsUnique, HardState
  <2>3. GrantsKept'
    BY <2>1 DEF IInv, GrantsKept, VotedFor
  <2>4. CandidatesCount' /\ LeadersRecorded'
    BY <2>1 DEF IInv, CandidatesCount, LeadersRecorded, Supports
  <2>5. LeadersElected'
    BY <2>1 DEF IInv, LeadersElected, VotedFor, Supports
  <2> QED
    BY <2>2, <2>3, <2>4, <2>5 DEF IInv
<1>2. CASE Next
  <2>1. UNCHANGED setup
    BY <1>2 DEF Next
  <2>2. ASSUME NEW n \in Server,
               \/ ElectionTimeout(n) \/ CheckQuorum(n) \/ AppendCommand(n) \/ Restart(n)
               \/ Heartbeat(n) \/ HeartbeatAwait(n) \/ HeartbeatResume(n)
        PROVE  IInv'
    BY <2>1, <2>2, TimerSteps
  <2>3. ASSUME NEW n \in Server, NEW p \in Server, TransferLeader(n, p) PROVE IInv'
    BY <2>1, <2>3, TransferLeaderStep
  <2>4. ASSUME NEW m \in msgs, HandlePreVote(m) \/ HandleRequestVote(m) PROVE IInv'
    BY <2>1, <2>4, RequestVoteStep
  <2>5. ASSUME NEW m \in msgs, HandleVoteResponse(m) PROVE IInv'
    BY <2>1, <2>5, VoteResponseStep
  <2>6. ASSUME NEW m \in msgs, HandleAppendEntries(m) \/ CrashInAppend(m) PROVE IInv'
    BY <2>1, <2>6, AppendSteps
  <2>7. ASSUME NEW m \in msgs, HandleAppendResponse(m) PROVE IInv'
    BY <2>1, <2>7, AppendResponseStep
  <2>8. ASSUME NEW m \in msgs, HandleTimeoutNow(m) PROVE IInv'
    BY <2>1, <2>8, TimeoutNowStep
  <2>f. ~Spend("failure")
    BY CountsGrow DEF IInv, Typed, Counted, StorageWorked, Events
  <2>9. \A n \in Server : ~FailElection(n) /\ ~FailHeartbeat(n)
    BY <2>f DEF FailElection, FailHeartbeat, Fail
  <2>10. \A m \in msgs : ~FailVote(m) /\ ~FailAppend(m)
    BY <2>f DEF FailVote, FailAppend, Fail
  <2> QED
    BY <1>2, <2>2, <2>3, <2>4, <2>5, <2>6, <2>7, <2>8, <2>9, <2>10 DEF Next, Step
<1> QED
  BY <1>1, <1>2

-----------------------------------------------------------------------------
(* Two majorities of the voters have a member in common (group_has_quorum). *)
LEMMA QuorumsMeet ==
    ASSUME NEW P \in SUBSET Server, NEW Q \in SUBSET Server, HasQuorum(P), HasQuorum(Q)
    PROVE  P \cap Q # {}
<1>1. /\ IsFiniteSet(Server) /\ IsFiniteSet(P) /\ IsFiniteSet(Q)
      /\ IsFiniteSet(P \cup Q) /\ IsFiniteSet(P \cap Q)
  BY RaftAssumption, FS_Subset
<1>2. /\ Cardinality(Server) \in Nat /\ Cardinality(P) \in Nat /\ Cardinality(Q) \in Nat
      /\ Cardinality(P \cup Q) \in Nat /\ Cardinality(P \cap Q) \in Nat
  BY <1>1, FS_CardinalityType
<1>3. Cardinality(P \cup Q) = Cardinality(P) + Cardinality(Q) - Cardinality(P \cap Q)
  BY <1>1, FS_Union
<1>4. Cardinality(P \cup Q) <= Cardinality(Server)
  BY <1>1, FS_Subset
<1>5. Cardinality(P \cap Q) > 0
  BY <1>2, <1>3, <1>4 DEF HasQuorum
<1> QED
  BY <1>1, <1>5, FS_EmptySet

(* The invariant implies that a term has one winner: two majorities share a *)
(* voter, which has given its vote once.                                    *)
LEMMA InvariantElectsOne == IInv => ElectionSafety
<1> SUFFICES ASSUME IInv, NEW e \in leaders, NEW f \in leaders, e[1] = f[1] PROVE e = f
  BY DEF ElectionSafety
<1> DEFINE t == e[1]
           a == e[2]
           b == f[2]
<1>1. e = <<t, a>> /\ f = <<t, b>> /\ t \in Nat /\ a \in Server /\ b \in Server
  BY DEF IInv, Typed
<1> HIDE DEF t, a, b
<1>2. PICK P \in SUBSET Server : HasQuorum(P) /\ Supports(msgs, P, t, a)
  BY <1>1 DEF IInv, LeadersElected
<1>3. PICK Q \in SUBSET Server : HasQuorum(Q) /\ Supports(msgs, Q, t, b)
  BY <1>1 DEF IInv, LeadersElected
<1>4. PICK v \in Server : v \in P /\ v \in Q
  BY <1>2, <1>3, QuorumsMeet
<1>5. (v = a \/ Grant(v, t, a) \in msgs) /\ (v = b \/ Grant(v, t, b) \in msgs)
  BY <1>2, <1>3, <1>4 DEF Supports
<1>6. a = b
  <2>1. CASE Grant(v, t, a) \in msgs /\ Grant(v, t, b) \in msgs
    BY <2>1, <1>1, <1>4 DEF IInv, GrantsUnique
  <2>2. CASE v = a /\ Grant(v, t, b) \in msgs
    BY <2>2, <1>1 DEF IInv, LeadersElected
  <2>3. CASE v = b /\ Grant(v, t, a) \in msgs
    BY <2>3, <1>1 DEF IInv, LeadersElected
  <2> QED
    BY <2>1, <2>2, <2>3, <1>5
<1> QED
  BY <1>1, <1>6

(* The invariant implies that votes are on disk: the disk has what the node *)
(* has, and the node has the vote.                                          *)
LEMMA InvariantKeepsVotes == IInv => VotesAreDurable
<1> SUFFICES ASSUME IInv, NEW m \in msgs, m.type = "VoteResponse" /\ ~m.pre /\ m.granted
             PROVE  \/ disk[m.from].term > m.term
                    \/ disk[m.from] = [term |-> m.term, vote |-> m.to]
  BY DEF VotesAreDurable
<1>1. m \in VoteResponses /\ m.from \in Server /\ m.to \in Server /\ m.term \in Nat
  BY MessageHere DEF MessageOK
<1>2. m = Grant(m.from, m.term, m.to)
  BY <1>1 DEF VoteResponses, Grant
<1>3. VotedFor(m.from, m.term, m.to)
  BY <1>1, <1>2 DEF IInv, GrantsKept
<1>4. disk[m.from] = HardState(node[m.from])
  BY <1>1 DEF IInv, Typed
<1> QED
  BY <1>3, <1>4 DEF VotedFor, HardState

(* The invariant holds in every behaviour until a storage call fails.       *)
LEMMA RaftInvariant == Spec => [](Counted /\ (StorageWorked => IInv))
<1> DEFINE Inv == Counted /\ (StorageWorked => IInv)
<1>1. Init => Inv
  BY InitEstablishes DEF Init, Counted
<1>2. Inv /\ [Next]_vars => Inv'
  <2> SUFFICES ASSUME Inv, [Next]_vars PROVE Inv'
    OBVIOUS
  <2>1. Counted' /\ (StorageWorked' => StorageWorked)
    BY CountsGrow DEF StorageWorked, Events
  <2> QED
    BY <2>1, NextPreserves
<1> QED
  BY <1>1, <1>2, PTL DEF Spec

(* Whatever is lost, repeated, reordered or restarted, a term has at most   *)
(* one winner (node.cpp:278-366), as long as storage works.                 *)
THEOREM RaftElectsOne == Spec => [](StorageWorked => ElectionSafety)
<1>1. Counted /\ (StorageWorked => IInv) => (StorageWorked => ElectionSafety)
  BY InvariantElectsOne
<1> QED
  BY <1>1, RaftInvariant, PTL

(* As long as storage works, a vote that was given is in the saved hard     *)
(* state until the node is past the term (node.cpp:313-325).                *)
THEOREM RaftKeepsVotes == Spec => []VotesAreDurable
<1>1. Counted /\ (StorageWorked => IInv) => VotesAreDurable
  BY InvariantKeepsVotes DEF VotesAreDurable
<1> QED
  BY <1>1, RaftInvariant, PTL

-----------------------------------------------------------------------------
(***************************************************************************)
(* Logs.  Every term t has a canonical log E[t]: what its leader's log is,  *)
(* or was when it stopped leading.  All logs, and all entries under way,    *)
(* are pieces of canonical logs.                                            *)
(***************************************************************************)

(* The sequences l and e are the same up to i.                              *)
SameTo(l, e, i) == i <= Len(l) /\ i <= Len(e) /\ \A j \in 1 .. i : l[j] = e[j]

(* Up to each of its entries, l is the canonical log of the entry's term.   *)
Follows(E, l) == l \in Seq(Nat) /\ \A i \in 1 .. Len(l) : SameTo(l, E[l[i]], i)

(* The entries of an AppendEntries are a piece of e, after prevTerm.        *)
PieceOf(e, m) ==
    /\ m.prev \in Nat /\ m.entries \in Seq(Nat)
    /\ m.entries # << >> =>
          /\ m.prev + Len(m.entries) <= Len(e)
          /\ m.prevTerm = TermAt(e, m.prev)
          /\ \A i \in 1 .. Len(m.entries) : m.entries[i] = e[m.prev + i]

AppendOK(E, m) ==
    /\ m.type = "AppendEntries" => PieceOf(E[m.term], m)
    /\ m.type = "AppendResponse" => m.match \in Nat /\ m.conflict \in Nat

(* A node's log follows the canonical ones; a leader's is the one of its    *)
(* term.  Nobody is in the middle of a heartbeat.                           *)
ProgressOK(s) == s.next \in [Server -> Nat] /\ s.match \in [Server -> Nat]

NodeOK(E, s) ==
    /\ ProgressOK(s) /\ s.awaiting = FALSE
    /\ Follows(E, s.log)
    /\ s.role = "leader" => s.log = E[s.term]

(* Canonical logs follow each other, and a term without a leader has none.  *)
LogTable == [Nat -> Seq(Nat)]

Canonical(E) ==
    /\ \A t \in Nat : Follows(E, E[t])
    /\ \A t \in Nat : (\A n \in Server : <<t, n>> \notin leaders) => E[t] = << >>
    /\ \A n \in Server : NodeOK(E, node[n])
    /\ \A m \in msgs : AppendOK(E, m)

(* A candidate has not led its term yet, and nobody leads term 0.           *)
FreshTerms ==
    /\ \A n \in Server : node[n].role = "candidate" =>
          node[n].term >= 1 /\ <<node[n].term, n>> \notin leaders
    /\ \A n \in Server : <<0, n>> \notin leaders

LInv == FreshTerms /\ \E E \in LogTable : Canonical(E)

-----------------------------------------------------------------------------
(* Logs.                                                                    *)

(* A log that grows canonically carries everything that followed it.        *)
LEMMA GrowthKeeps ==
    ASSUME NEW E \in LogTable, NEW F \in LogTable,
           \A t \in Nat : SameTo(E[t], F[t], Len(E[t]))
    PROVE  /\ \A l : Follows(E, l) => Follows(F, l)
           /\ \A m : m.term \in Nat /\ AppendOK(E, m) => AppendOK(F, m)
<1>1. \A t \in Nat : E[t] \in Seq(Nat) /\ F[t] \in Seq(Nat)
  BY DEF LogTable
<1>2. ASSUME NEW l, Follows(E, l) PROVE Follows(F, l)
  <2>1. l \in Seq(Nat)
    BY <1>2 DEF Follows
  <2>2. ASSUME NEW i \in 1 .. Len(l) PROVE SameTo(l, F[l[i]], i)
    <3>1. l[i] \in Nat /\ SameTo(l, E[l[i]], i)
      BY <1>2, <2>1 DEF Follows
    <3>2. SameTo(E[l[i]], F[l[i]], Len(E[l[i]])) /\ E[l[i]] \in Seq(Nat)
      BY <3>1, <1>1
    <3> QED
      BY <3>1, <3>2 DEF SameTo
  <2> QED
    BY <2>1, <2>2 DEF Follows
<1>3. ASSUME NEW m, m.term \in Nat, AppendOK(E, m) PROVE AppendOK(F, m)
  <2> DEFINE e == E[m.term]
             f == F[m.term]
  <2>1. e \in Seq(Nat) /\ f \in Seq(Nat) /\ SameTo(e, f, Len(e))
    BY <1>1, <1>3
  <2>2. ASSUME PieceOf(e, m) PROVE PieceOf(f, m)
    <3>1. m.prev \in Nat /\ m.entries \in Seq(Nat)
      BY <2>2 DEF PieceOf
    <3>2. CASE m.entries # << >>
      <4>1. /\ m.prev + Len(m.entries) <= Len(e)
            /\ m.prevTerm = TermAt(e, m.prev)
            /\ \A i \in 1 .. Len(m.entries) : m.entries[i] = e[m.prev + i]
        BY <2>2, <3>2 DEF PieceOf
      <4> HIDE DEF e, f
      <4>2. m.prev <= Len(e) /\ Len(e) <= Len(f)
        BY <2>1, <3>1, <4>1 DEF SameTo
      <4>3. TermAt(e, m.prev) = TermAt(f, m.prev)
        BY <2>1, <3>1, <4>2 DEF SameTo, TermAt
      <4>4. \A i \in 1 .. Len(m.entries) : m.prev + i \in 1 .. Len(e)
        <5>1. PICK p \in Nat : p = m.prev
          BY <3>1
        <5>2. PICK c \in Nat : c = Len(m.entries)
          BY <3>1
        <5>3. PICK d \in Nat : d = Len(e)
          BY <2>1
        <5>4. p + c <= d
          BY <4>1, <5>1, <5>2, <5>3
        <5>5. \A i \in 1 .. c : p + i \in 1 .. d
          BY ONLY <5>4, p \in Nat, c \in Nat, d \in Nat
        <5> QED
          BY <5>1, <5>2, <5>3, <5>5
      <4>5. \A i \in 1 .. Len(m.entries) : e[m.prev + i] = f[m.prev + i]
        BY <2>1, <4>4 DEF SameTo
      <4>6. m.prev + Len(m.entries) <= Len(f)
        BY <2>1, <3>1, <4>1, <4>2
      <4> QED
        BY <3>1, <4>1, <4>3, <4>5, <4>6 DEF PieceOf
    <3> QED
      BY <3>1, <3>2 DEF PieceOf
  <2> QED
    BY <1>3, <2>2 DEF AppendOK
<1> QED
  BY <1>2, <1>3

(* A piece from the start of a log that follows, follows.                   *)
LEMMA PrefixFollows ==
    ASSUME NEW E \in LogTable, NEW l, Follows(E, l), NEW k \in Seq(Nat), SameTo(k, l, Len(k))
    PROVE  Follows(E, k)
<1>1. l \in Seq(Nat)
  BY DEF Follows
<1>2. ASSUME NEW i \in 1 .. Len(k) PROVE SameTo(k, E[k[i]], i)
  <2>1. i \in 1 .. Len(l) /\ k[i] = l[i] /\ l[i] \in Nat
    BY <1>1 DEF SameTo
  <2>2. SameTo(l, E[l[i]], i)
    BY <2>1 DEF Follows
  <2> QED
    BY <1>1, <2>1, <2>2 DEF SameTo
<1> QED
  BY <1>2 DEF Follows

(* No entry of a log that follows is of a term without a canonical log; in  *)
(* particular none is of term 0, which stands for no entry.                 *)
LEMMA EntryHasTerm ==
    ASSUME NEW E \in LogTable, NEW l, Follows(E, l), NEW i \in 1 .. Len(l)
    PROVE  l[i] \in Nat /\ E[l[i]] # << >>
<1>1. l \in Seq(Nat) /\ l[i] \in Nat /\ SameTo(l, E[l[i]], i)
  BY DEF Follows
<1>2. E[l[i]] \in Seq(Nat)
  BY <1>1 DEF LogTable
<1>3. Len(E[l[i]]) >= 1
  BY <1>1, <1>2 DEF SameTo
<1> QED
  BY <1>1, <1>2, <1>3

(* What SubSeq and concatenation give, entry by entry.                      *)
LEMMA FrontOf ==
    ASSUME NEW l \in Seq(Nat), NEW c \in Nat, c <= Len(l)
    PROVE  /\ SubSeq(l, 1, c) \in Seq(Nat) /\ Len(SubSeq(l, 1, c)) = c
           /\ \A j \in 1 .. c : SubSeq(l, 1, c)[j] = l[j]
OBVIOUS

(* The same for a piece from the middle.                                    *)
LEMMA RestOf ==
    ASSUME NEW l \in Seq(Nat), NEW i \in 1 .. Len(l), NEW k \in Nat, i <= k, k <= Len(l)
    PROVE  /\ SubSeq(l, i, k) \in Seq(Nat) /\ Len(SubSeq(l, i, k)) = k - i + 1
           /\ \A j \in 1 .. k - i + 1 : SubSeq(l, i, k)[j] = l[i + j - 1]
OBVIOUS

(* The same for one sequence after another.                                 *)
LEMMA Joined ==
    ASSUME NEW h \in Seq(Nat), NEW b \in Seq(Nat)
    PROVE  /\ h \o b \in Seq(Nat) /\ Len(h \o b) = Len(h) + Len(b)
           /\ \A j \in 1 .. Len(h \o b) : (h \o b)[j] = IF j <= Len(h) THEN h[j] ELSE b[j - Len(h)]
OBVIOUS

(* What is left of l up to entry i of es, and with the rest of es appended, *)
(* is the beginning of e.                                                   *)
SplicesAt(l, e, es, p, i) ==
    LET h == SubSeq(l, 1, p + i - 1)
        k == SubSeq(l, 1, p + i - 1) \o SubSeq(es, i, Len(es))
    IN /\ p + i - 1 <= Len(l)
       /\ h \in Seq(Nat) /\ SameTo(h, e, Len(h)) /\ Len(h) = p + i - 1
       /\ k \in Seq(Nat) /\ SameTo(k, e, Len(k)) /\ Len(k) = p + Len(es)

(* The log l agrees with e up to p and so do the first i - 1 of the entries *)
(* es that follow p in e: cut there, l is a piece of e, and so it is with   *)
(* the rest of es added.                                                    *)
LEMMA SplicedPiece ==
    ASSUME NEW l \in Seq(Nat), NEW e \in Seq(Nat), NEW es \in Seq(Nat), NEW p \in Nat,
           NEW i \in 1 .. Len(es), p + Len(es) <= Len(e), SameTo(l, e, p),
           \A j \in 1 .. Len(es) : es[j] = e[p + j],
           \A j \in 1 .. Len(e) : e[j] # 0,
           \A j \in 1 .. i - 1 : TermAt(l, p + j) = es[j]
    PROVE  SplicesAt(l, e, es, p, i)
<1> DEFINE c == p + i - 1
           h == SubSeq(l, 1, c)
           b == SubSeq(es, i, Len(es))
           k == h \o b
<1>0. Len(l) \in Nat /\ Len(e) \in Nat /\ Len(es) \in Nat /\ c \in Nat /\ c <= Len(e)
  OBVIOUS
<1>1. ASSUME NEW j \in 1 .. i - 1
      PROVE  p + j \in 1 .. Len(l) /\ l[p + j] = e[p + j]
  <2>0. /\ p \in Nat /\ Len(e) \in Nat /\ Len(es) \in Nat /\ p + Len(es) <= Len(e)
        /\ i \in 1 .. Len(es) /\ j \in 1 .. i - 1
    BY <1>0
  <2>1. j \in 1 .. Len(es) /\ p + j \in 1 .. Len(e)
    BY ONLY <2>0
  <2>2. TermAt(l, p + j) = e[p + j] /\ e[p + j] # 0
    BY <2>1
  <2> QED
    BY <2>1, <2>2 DEF TermAt
<1>2. c <= Len(l)
  <2>1. CASE i = 1
    BY <2>1, <1>0 DEF SameTo
  <2>2. CASE i # 1
    <3>1. i - 1 \in 1 .. i - 1 /\ p + (i - 1) = c
      BY <2>2
    <3>2. p + (i - 1) \in 1 .. Len(l)
      BY <3>1, <1>1
    <3> QED
      BY <3>1, <3>2, <1>0
  <2> QED
    BY <2>1, <2>2
<1>3. ASSUME NEW j \in 1 .. c PROVE l[j] = e[j]
  <2>1. CASE j <= p
    BY <2>1 DEF SameTo
  <2>2. CASE j > p
    <3>1. j - p \in 1 .. i - 1 /\ p + (j - p) = j
      BY <2>2
    <3> QED
      BY <3>1, <1>1
  <2> QED
    BY <2>1, <2>2
<1> HIDE DEF c
<1>4. h \in Seq(Nat) /\ Len(h) = c /\ \A j \in 1 .. c : h[j] = l[j]
  BY <1>0, <1>2, FrontOf
<1>5. b \in Seq(Nat) /\ Len(b) = Len(es) - i + 1 /\ \A j \in 1 .. Len(b) : b[j] = es[i + j - 1]
  <2>1. i <= Len(es) /\ Len(es) \in Nat
    OBVIOUS
  <2>2. /\ b \in Seq(Nat) /\ Len(b) = Len(es) - i + 1
        /\ \A j \in 1 .. Len(es) - i + 1 : b[j] = es[i + j - 1]
    BY ONLY <2>1, es \in Seq(Nat), i \in 1 .. Len(es), RestOf
  <2> HIDE DEF b
  <2> QED
    BY <2>2
<1> HIDE DEF h, b
<1>6. /\ k \in Seq(Nat) /\ Len(k) = c + Len(b)
      /\ \A j \in 1 .. Len(k) : k[j] = IF j <= c THEN h[j] ELSE b[j - c]
  BY <1>4, <1>5, Joined
<1>7. Len(k) = p + Len(es)
  BY <1>0, <1>5, <1>6 DEF c
<1> HIDE DEF k
<1>h. Len(h) <= Len(e) /\ Len(k) <= Len(e) /\ Len(h) \in Nat /\ Len(k) \in Nat
  BY <1>0, <1>4, <1>7
<1>8. ASSUME NEW j \in 1 .. Len(k) PROVE k[j] = e[j]
  <2>1. CASE j <= c
    <3>1. j \in 1 .. c /\ k[j] = h[j]
      BY <2>1, <1>0, <1>6
    <3> QED
      BY <3>1, <1>3, <1>4
  <2>2. CASE j > c
    <3>1. j - c \in 1 .. Len(b) /\ k[j] = b[j - c]
      BY <2>2, <1>0, <1>5, <1>6
    <3>2. i + (j - c) - 1 \in 1 .. Len(es) /\ p + (i + (j - c) - 1) = j
      BY <3>1, <1>0, <1>5 DEF c
    <3> QED
      BY <3>1, <3>2, <1>5
  <2> QED
    BY <2>1, <2>2, <1>0, <1>6, <1>7
<1>9. SameTo(h, e, Len(h)) /\ SameTo(k, e, Len(k))
  <2>1. \A j \in 1 .. Len(h) : h[j] = e[j]
    BY <1>3, <1>4
  <2> QED
    BY <2>1, <1>h, <1>8 DEF SameTo
<1> QED
  BY <1>2, <1>4, <1>6, <1>7, <1>9 DEF SplicesAt, h, k, b, c

(* append_from_leader(): where the log agrees with the leader's at prev it  *)
(* agrees up to there, and with the entries in place it is the leader's up  *)
(* to the last of them.                                                     *)
LEMMA SplicePoint ==
    ASSUME NEW E \in LogTable, E[0] = << >>, NEW l, Follows(E, l),
           NEW e, Follows(E, e), NEW m, PieceOf(e, m), TermAt(l, m.prev) = m.prevTerm,
           Conflicts(l, m.prev, m.entries) # {}
    PROVE  \E i \in 1 .. Len(m.entries) :
              LET h == Truncated(l, m)
                  k == Spliced(l, m.prev, m.entries)
              IN /\ TermAt(l, m.prev + i) # e[m.prev + i]
                 /\ h \in Seq(Nat) /\ SameTo(h, e, Len(h)) /\ Len(h) = m.prev + i - 1
                 /\ SameTo(h, l, Len(h))
                 /\ k \in Seq(Nat) /\ SameTo(k, e, Len(k)) /\ Len(k) = m.prev + Len(m.entries)
<1> DEFINE p == m.prev
           es == m.entries
           C == Conflicts(l, p, es)
           i == Min(C)
           h == SubSeq(l, 1, p + i - 1)
           k == h \o SubSeq(es, i, Len(es))
<1>1. l \in Seq(Nat) /\ e \in Seq(Nat) /\ p \in Nat /\ es \in Seq(Nat)
  BY DEF Follows, PieceOf
<1>a. Spliced(l, p, es) = k
  BY DEF Spliced
<1>b. Truncated(l, m) = SubSeq(l, 1, Min2(p + i - 1, Len(l)))
  BY DEF Truncated
<1>p. es # << >> => /\ p + Len(es) <= Len(e) /\ TermAt(l, p) = TermAt(e, p)
                    /\ \A j \in 1 .. Len(es) : es[j] = e[p + j]
  BY DEF PieceOf
<1> HIDE DEF p, es
<1>0. C \in SUBSET Nat /\ C # {}
  BY <1>1 DEF Conflicts, p, es
<1>2. i \in C /\ \A y \in C : i <= y
  <2> HIDE DEF C
  <2> QED
    BY <1>0, LeastNat
<1> HIDE DEF i
<1>3. /\ i \in 1 .. Len(es) /\ TermAt(l, p + i) # es[i]
      /\ \A j \in 1 .. i - 1 : TermAt(l, p + j) = es[j]
  <2>1. i \in 1 .. Len(es) /\ \A j \in 1 .. i - 1 : j \notin C
    BY <1>0, <1>1, <1>2 DEF Conflicts
  <2> QED
    BY <1>1, <1>2, <2>1 DEF Conflicts
<1>4. es # << >>
  BY <1>1, <1>3
<1>5. \A j \in 1 .. Len(e) : e[j] \in Nat /\ e[j] # 0
  BY <1>1, EntryHasTerm
<1>6. SameTo(l, e, p)
  <2>1. CASE p = 0
    BY <2>1, <1>1 DEF SameTo
  <2>2. CASE p # 0
    <3>1. p \in 1 .. Len(e)
      BY <2>2, <1>1, <1>4, <1>p
    <3>2. p \in 1 .. Len(l) /\ l[p] = e[p]
      BY <3>1, <1>1, <1>4, <1>5, <1>p DEF TermAt
    <3>3. SameTo(l, E[e[p]], p) /\ SameTo(e, E[e[p]], p)
      BY <3>1, <3>2 DEF Follows
    <3> QED
      BY <3>1, <3>2, <3>3, <1>1 DEF SameTo
  <2> QED
    BY <2>1, <2>2
<1> HIDE DEF C
<1>7. /\ p + i - 1 <= Len(l)
      /\ h \in Seq(Nat) /\ SameTo(h, e, Len(h)) /\ Len(h) = p + i - 1
      /\ k \in Seq(Nat) /\ SameTo(k, e, Len(k)) /\ Len(k) = p + Len(es)
  <2>1. p + Len(es) <= Len(e) /\ \A j \in 1 .. Len(es) : es[j] = e[p + j]
    BY <1>4, <1>p
  <2>2. \A j \in 1 .. Len(e) : e[j] # 0
    BY <1>5
  <2>3. i \in 1 .. Len(es) /\ \A j \in 1 .. i - 1 : TermAt(l, p + j) = es[j]
    BY <1>3
  <2>4. SplicesAt(l, e, es, p, i)
    <3> HIDE DEF h, k
    <3> QED
      BY ONLY <1>1, <1>6, <2>1, <2>2, <2>3, SplicedPiece
  <2> QED
    BY ONLY <2>4 DEF SplicesAt
<1>8. Truncated(l, m) = h
  BY <1>1, <1>3, <1>7, <1>b DEF Min2
<1>9. SameTo(h, l, Len(h))
  <2>1. PICK c \in Nat : c = p + i - 1 /\ c <= Len(l)
    BY <1>1, <1>3, <1>7
  <2>2. \A j \in 1 .. c : h[j] = l[j]
    BY <1>1, <2>1, FrontOf
  <2> QED
    BY <1>1, <1>7, <2>1, <2>2 DEF SameTo
<1>10. TermAt(l, p + i) # e[p + i]
  BY <1>3, <1>4, <1>p
<1> HIDE DEF h, k
<1> QED
  BY <1>3, <1>7, <1>8, <1>9, <1>10, <1>a DEF p, es

LEMMA SpliceFollows ==
    ASSUME NEW E \in LogTable, E[0] = << >>, NEW l, Follows(E, l),
           NEW e, Follows(E, e), NEW m, PieceOf(e, m), TermAt(l, m.prev) = m.prevTerm
    PROVE  Follows(E, Spliced(l, m.prev, m.entries)) /\ Follows(E, Truncated(l, m))
<1>1. CASE Conflicts(l, m.prev, m.entries) = {}
  BY <1>1 DEF Spliced, Truncated
<1>2. CASE Conflicts(l, m.prev, m.entries) # {}
  BY <1>2, SplicePoint, PrefixFollows
<1> QED
  BY <1>1, <1>2

-----------------------------------------------------------------------------
(* What the node's methods do to the log and to the progress of the peers.  *)
LogSame(s, s1) ==
    /\ s1.log = s.log /\ s1.role = s.role /\ s1.term = s.term
    /\ s1.awaiting = s.awaiting /\ ProgressOK(s1)

(* Committing and applying leave both alone.                                *)
LEMMA CommitKeepsLog ==
    ASSUME NEW s, Shape(s), ProgressOK(s), NEW c, NEW n, NEW m
    PROVE  /\ LogSame(s, Commit(s, c)) /\ LogSame(s, CommitAlone(s))
           /\ LogSame(s, AdvanceCommit(n, s)) /\ LogSame(s, FollowCommit(s, m))
<1>1. \A d : LogSame(s, Commit(s, d))
  BY DEF Commit, LogSame, ProgressOK, Shape, Fields
<1>2. LogSame(s, s)
  BY DEF LogSame
<1> QED
  BY <1>1, <1>2 DEF CommitAlone, AdvanceCommit, FollowCommit

(* Answers move next and match, which stay numbers.                         *)
LEMMA MarksKeepLog ==
    ASSUME NEW s, Shape(s), ProgressOK(s), NEW p \in Server, NEW i \in Nat, NEW q
    PROVE  LogSame(s, MarkReplicated(s, p, i)) /\ LogSame(s, [s EXCEPT !.transfer = q])
<1>1. s.next[p] \in Nat /\ s.match[p] \in Nat
  BY DEF ProgressOK
<1> DEFINE k == Max2(s.match[p], i)
           d == Max2(s.next[p], k + 1)
<1>2. k \in Nat /\ d \in Nat
  BY <1>1 DEF Max2
<1>3. MarkReplicated(s, p, i) =
        [s EXCEPT !.match = [s.match EXCEPT ![p] = k], !.next = [s.next EXCEPT ![p] = d],
                  !.mode = [s.mode EXCEPT ![p] = "replicate"]]
  BY DEF MarkReplicated, Shape, Fields
<1> HIDE DEF k, d
<1>4. LogSame(s, MarkReplicated(s, p, i))
  <2>1. [s.match EXCEPT ![p] = k] \in [Server -> Nat] /\ [s.next EXCEPT ![p] = d] \in [Server -> Nat]
    BY <1>2 DEF ProgressOK
  <2> QED
    BY <1>3, <2>1 DEF LogSame, ProgressOK, Shape, Fields
<1>5. LogSame(s, [s EXCEPT !.transfer = q])
  BY DEF LogSame, ProgressOK, Shape, Fields
<1> QED
  BY <1>4, <1>5

(* The same for a rejection.                                                *)
LEMMA RejectKeepsLog ==
    ASSUME NEW s, Shape(s), ProgressOK(s),
           NEW m, m.from \in Server, m.match \in Nat, m.conflict \in Nat
    PROVE  LogSame(s, MarkRejected(s, m))
<1> DEFINE p == m.from
           d == IF m.conflict # 0 THEN m.conflict ELSE Max2(m.match, 1)
<1>1. d \in Nat
  BY DEF Max2
<1>2. MarkRejected(s, m) = [s EXCEPT !.mode = [s.mode EXCEPT ![p] = "probe"],
                                     !.next = [s.next EXCEPT ![p] = d]]
  BY DEF MarkRejected, Shape, Fields
<1> HIDE DEF p, d
<1>3. [s.next EXCEPT ![p] = d] \in [Server -> Nat]
  BY <1>1 DEF ProgressOK, p
<1> QED
  BY <1>2, <1>3 DEF LogSame, ProgressOK, Shape, Fields

(* What a leader whose log is canonical sends is a piece of it.             *)
LEMMA RequestIsPiece ==
    ASSUME NEW n \in Server, NEW s, Shape(s), ProgressOK(s), s.log \in Seq(Nat),
           NEW p \in Server, NEW full \in BOOLEAN
    PROVE  LET m == AppendRequest(n, s, p, full)
           IN /\ m.type = "AppendEntries" /\ m.term = s.term
              /\ PieceOf(s.log, m)
              /\ m.prev + Len(m.entries) \in Nat
<1> DEFINE l == s.log
           next == Max2(s.next[p], 1)
           last == Min2(next + MaxEntriesPerAppend - 1, Len(l))
           m == AppendRequest(n, s, p, full)
<1>1. next \in Nat /\ next >= 1 /\ last \in Nat /\ last <= Len(l)
  BY RaftAssumption DEF ProgressOK, Max2, Min2
<1>2. /\ m.type = "AppendEntries" /\ m.term = s.term /\ m.prev = next - 1
      /\ m.prevTerm = TermAt(l, next - 1)
      /\ m.entries = IF full THEN << >> ELSE SubSeq(l, next, last)
  BY DEF AppendRequest
<1> HIDE DEF next, last, m
<1>3. m.prev \in Nat
  BY <1>1, <1>2
<1>4. CASE full \/ last < next
  <2>1. m.entries = << >>
    BY <1>1, <1>2, <1>4
  <2>2. PieceOf(l, m) /\ m.prev + Len(m.entries) \in Nat
    BY <1>3, <2>1 DEF PieceOf
  <2> QED
    BY <1>2, <2>2 DEF m
<1>5. CASE ~full /\ next <= last
  <2> DEFINE es == SubSeq(l, next, last)
  <2>1. next \in 1 .. Len(l)
    BY <1>1, <1>5
  <2>2. /\ es \in Seq(Nat) /\ Len(es) = last - next + 1
        /\ \A j \in 1 .. last - next + 1 : es[j] = l[next + j - 1]
    BY ONLY <1>1, <1>5, <2>1, l \in Seq(Nat), RestOf
  <2>3. m.entries = es
    BY <1>2, <1>5
  <2> HIDE DEF es
  <2>4. \A j \in 1 .. Len(es) : es[j] = l[m.prev + j]
    <3>1. \A j \in 1 .. last - next + 1 : next + j - 1 = m.prev + j
      BY <1>1, <1>2
    <3> QED
      BY <2>2, <3>1
  <2>5. m.prev + Len(es) = last /\ m.prev + Len(es) <= Len(l)
    BY <1>1, <1>2, <2>2
  <2> QED
    BY <1>1, <1>2, <1>3, <2>2, <2>3, <2>4, <2>5 DEF m, PieceOf
<1> QED
  BY <1>1, <1>4, <1>5

(* Sending moves next, which stays a number.                                *)
LEMMA SendKeepsLog ==
    ASSUME NEW n \in Server, NEW s, Shape(s), ProgressOK(s), s.log \in Seq(Nat), NEW full
    PROVE  LogSame(s, MarkSent(n, s, full))
<1> DEFINE LastSent(p) == LET m == AppendRequest(n, s, p, p \in full)
                          IN m.prev + Len(m.entries)
           next == [p \in Server |-> IF p # n /\ s.mode[p] = "replicate"
                                     THEN Max2(s.next[p], LastSent(p) + 1) ELSE s.next[p]]
<1>1. ASSUME NEW p \in Server PROVE LastSent(p) \in Nat
  <2>1. (p \in full) \in BOOLEAN
    OBVIOUS
  <2> QED
    BY <2>1, RequestIsPiece
<1>2. \A p \in Server : s.next[p] \in Nat
  BY DEF ProgressOK
<1>3. MarkSent(n, s, full) = [s EXCEPT !.next = next]
  BY DEF MarkSent
<1> HIDE DEF LastSent
<1>4. next \in [Server -> Nat]
  BY <1>1, <1>2 DEF Max2
<1> HIDE DEF next
<1> QED
  BY <1>3, <1>4 DEF LogSame, ProgressOK, Shape, Fields

(* All that a leader sends are pieces of the canonical log.                 *)
LEMMA RequestsFollow ==
    ASSUME NEW E, NEW n \in Server, NEW s, Shape(s), ProgressOK(s), s.log \in Seq(Nat),
           s.log = E[s.term], NEW full
    PROVE  \A r \in AppendRequests(n, s, full) : AppendOK(E, r)
<1> SUFFICES ASSUME NEW p \in Server
             PROVE  AppendOK(E, AppendRequest(n, s, p, p \in full))
  BY DEF AppendRequests
<1> DEFINE m == AppendRequest(n, s, p, p \in full)
<1>0. (p \in full) \in BOOLEAN
  OBVIOUS
<1>1. m.type = "AppendEntries" /\ m.term = s.term /\ PieceOf(s.log, m)
  BY <1>0, RequestIsPiece
<1> HIDE DEF m
<1>2. AppendOK(E, m)
  BY <1>1 DEF AppendOK
<1> QED
  BY <1>2 DEF m

-----------------------------------------------------------------------------
(* The canonical logs after a step: the same, or one with what its leader   *)
(* has added.                                                               *)
Extends(E, F) ==
    \/ F = E
    \/ \E n \in Server : node'[n].role = "leader" /\ F = [E EXCEPT ![node'[n].term] = node'[n].log]

Advanced(E) == FreshTerms' /\ \E F \in LogTable : Canonical(F)' /\ Extends(E, F)

(* Steps.  A step of n that leaves it as s1, having sent ms, keeps the      *)
(* invariant when canonical logs only grow, none but in a term n leads, and *)
(* s1 and ms suit the new ones.                                             *)
LEMMA TableStep ==
    ASSUME IInv, FreshTerms, NEW E \in LogTable, Canonical(E), NEW F \in LogTable,
           NEW n \in Server, NEW s1, NEW ms, Update(n, s1), Send(ms),
           \A t \in Nat : SameTo(E[t], F[t], Len(E[t])),
           \A t \in Nat : Follows(F, F[t]),
           \A t \in Nat : F[t] # E[t] => <<t, n>> \in leaders',
           \A p \in Server : p # n /\ node[p].role = "leader" => F[node[p].term] = E[node[p].term],
           NodeOK(F, s1), \A m \in ms : AppendOK(F, m),
           s1.role \in {"candidate", "leader"} => s1.term >= 1,
           s1.role = "candidate" => <<s1.term, n>> \notin leaders,
           F = E \/ (s1.role = "leader" /\ F = [E EXCEPT ![s1.term] = s1.log])
    PROVE  Advanced(E)
<1>n. node'[n] = s1 /\ \A p \in Server : p # n => node'[p] = node[p]
  BY DEF IInv, Typed, Update
<1>l. leaders' = IF s1.role = "leader" THEN leaders \cup {<<s1.term, n>>} ELSE leaders
  BY DEF Update
<1>k. /\ \A l : Follows(E, l) => Follows(F, l)
      /\ \A m : m.term \in Nat /\ AppendOK(E, m) => AppendOK(F, m)
  BY GrowthKeeps
<1>1. FreshTerms'
  <2>1. ASSUME NEW p \in Server, node'[p].role = "candidate"
        PROVE  node'[p].term >= 1 /\ <<node'[p].term, p>> \notin leaders'
    BY <2>1, <1>n, <1>l DEF FreshTerms
  <2>2. ASSUME NEW p \in Server PROVE <<0, p>> \notin leaders'
    <3>1. s1.role = "leader" => s1.term # 0
      OBVIOUS
    <3>2. <<0, p>> \notin leaders
      BY DEF FreshTerms
    <3> QED
      BY <3>1, <3>2, <1>l
  <2> QED
    BY <2>1, <2>2 DEF FreshTerms
<1>2. ASSUME NEW t \in Nat, \A p \in Server : <<t, p>> \notin leaders'
      PROVE  F[t] = << >>
  <2>1. \A p \in Server : <<t, p>> \notin leaders
    BY <1>2, <1>l
  <2>2. E[t] = << >>
    BY <2>1 DEF Canonical
  <2>3. <<t, n>> \notin leaders'
    BY <1>2
  <2> QED
    BY <2>2, <2>3
<1>3. ASSUME NEW p \in Server PROVE NodeOK(F, node'[p])
  <2>1. CASE p = n
    BY <2>1, <1>n
  <2>2. CASE p # n
    <3>1. NodeOK(E, node[p])
      BY DEF Canonical
    <3> QED
      BY <2>2, <3>1, <1>n, <1>k DEF NodeOK
  <2> QED
    BY <2>1, <2>2
<1>4. ASSUME NEW m \in msgs' PROVE AppendOK(F, m)
  <2>1. CASE m \in ms
    BY <2>1
  <2>2. CASE m \in msgs
    <3>1. m.term \in Nat /\ AppendOK(E, m)
      BY <2>2, MessageHere DEF Canonical, MessageOK
    <3> QED
      BY <3>1, <1>k
  <2> QED
    BY <2>1, <2>2 DEF Send
<1>5. Canonical(F)'
  BY <1>2, <1>3, <1>4 DEF Canonical
<1>6. Extends(E, F)
  BY <1>n DEF Extends
<1> QED
  BY <1>1, <1>5, <1>6 DEF Advanced

(* A step that adds nothing to the canonical logs: s1's log follows them,   *)
(* only a leader goes on leading, with the log it has, and a candidacy is   *)
(* an old one or for a later term.                                          *)
Tracks(E, s, s1) ==
    /\ s1.term \in Nat /\ ProgressOK(s1) /\ s1.awaiting = FALSE
    /\ Follows(E, s1.log)
    /\ s1.role = "leader" => s.role = "leader" /\ s1.term = s.term /\ s1.log = s.log
    /\ s1.role = "candidate" =>
          s1.term > s.term \/ (s.role = "candidate" /\ s1.term = s.term)

LEMMA TrackStep ==
    ASSUME IInv, FreshTerms, NEW E \in LogTable, Canonical(E), NEW n \in Server, NEW s1, NEW ms,
           Update(n, s1), Send(ms), Tracks(E, node[n], s1), \A m \in ms : AppendOK(E, m)
    PROVE  Advanced(E)
<1>s. node[n].term \in Nat
  BY ShapeHere DEF Shape
<1>1. \A t \in Nat : E[t] \in Seq(Nat) /\ Follows(E, E[t])
  BY DEF LogTable, Canonical
<1>2. \A t \in Nat : SameTo(E[t], E[t], Len(E[t]))
  BY <1>1 DEF SameTo
<1>3. NodeOK(E, s1)
  BY DEF NodeOK, Tracks, Canonical
<1>4. s1.role \in {"candidate", "leader"} => s1.term >= 1
  <2>1. CASE s1.role = "leader"
    <3>1. <<node[n].term, n>> \in leaders
      BY <2>1 DEF Tracks, IInv, LeadersRecorded
    <3> QED
      BY <2>1, <3>1, <1>s DEF Tracks, FreshTerms
  <2>2. CASE s1.role = "candidate"
    <3>1. /\ s1.term \in Nat
          /\ s1.term > node[n].term \/ (node[n].role = "candidate" /\ s1.term = node[n].term)
      BY <2>2 DEF Tracks
    <3>2. node[n].role = "candidate" => node[n].term >= 1
      BY DEF FreshTerms
    <3> QED
      BY <3>1, <3>2, <1>s
  <2> QED
    BY <2>1, <2>2
<1>5. ASSUME s1.role = "candidate" PROVE <<s1.term, n>> \notin leaders
  <2>1. CASE s1.term > node[n].term
    <3>1. ~VotedFor(n, s1.term, n)
      BY <2>1, <1>s DEF VotedFor, Tracks
    <3> QED
      BY <3>1 DEF IInv, LeadersElected, Tracks
  <2>2. CASE ~(s1.term > node[n].term)
    <3>1. node[n].role = "candidate" /\ s1.term = node[n].term
      BY <1>5, <2>2 DEF Tracks
    <3>2. <<node[n].term, n>> \notin leaders
      BY <3>1 DEF FreshTerms
    <3> QED
      BY <3>1, <3>2
  <2> QED
    BY <2>1, <2>2
<1> QED
  BY <1>1, <1>2, <1>3, <1>4, <1>5, TableStep

(* Nobody has led a term that n has only now won.                           *)
LEMMA NewTerm ==
    ASSUME IInv', NEW E \in LogTable, Canonical(E), NEW t \in Nat, NEW n \in Server,
           leaders \subseteq leaders', <<t, n>> \notin leaders, <<t, n>> \in leaders'
    PROVE  E[t] = << >>
<1>1. ElectionSafety'
  BY InvariantElectsOne, PTL
<1>2. ASSUME NEW q \in Server, <<t, q>> \in leaders PROVE FALSE
  <2>1. <<t, q>> \in leaders' /\ <<t, q>>[1] = <<t, n>>[1]
    BY <1>2
  <2>2. <<t, q>> = <<t, n>>
    BY <1>1, <2>1 DEF ElectionSafety
  <2> QED
    BY <1>2, <2>2
<1> QED
  BY <1>2 DEF Canonical

(* The leader of term t adds an entry to its log: the canonical log of t    *)
(* was that log, or there was none and n has just won.                      *)
LEMMA LeadStep ==
    ASSUME IInv, IInv', FreshTerms, NEW E \in LogTable, Canonical(E),
           NEW n \in Server, NEW s1, NEW ms, Update(n, s1), Send(ms),
           s1.role = "leader", s1.term \in Nat, s1.term >= 1,
           s1.log = Append(node[n].log, s1.term), ProgressOK(s1), s1.awaiting = FALSE,
           E[s1.term] \in {<< >>, node[n].log},
           \A F : F[s1.term] = s1.log => \A m \in ms : AppendOK(F, m)
    PROVE  Advanced(E)
<1> DEFINE t == s1.term
           l == node[n].log
           k == s1.log
           F == [E EXCEPT ![t] = k]
<1>1. l \in Seq(Nat) /\ Follows(E, l) /\ t \in Nat
  BY DEF Canonical, NodeOK, Follows
<1>2. /\ k \in Seq(Nat) /\ Len(k) = Len(l) + 1 /\ k[Len(k)] = t
      /\ \A j \in 1 .. Len(l) : k[j] = l[j]
  BY <1>1
<1>3. F \in LogTable /\ F[t] = k /\ \A u \in Nat : u # t => F[u] = E[u]
  BY <1>1, <1>2 DEF LogTable
<1> HIDE DEF F
<1>e. \A u \in Nat : E[u] \in Seq(Nat) /\ Follows(E, E[u])
  BY DEF LogTable, Canonical
<1>4. ASSUME NEW u \in Nat PROVE SameTo(E[u], F[u], Len(E[u]))
  <2>1. CASE u # t
    <3>1. PICK e \in Seq(Nat) : e = E[u] /\ e = F[u]
      BY <2>1, <1>3, <1>e
    <3>2. SameTo(e, e, Len(e))
      BY ONLY e \in Seq(Nat) DEF SameTo
    <3> QED
      BY <3>1, <3>2
  <2>2. CASE u = t /\ E[t] = << >>
    BY <2>2, <1>2, <1>3 DEF SameTo
  <2>3. CASE u = t /\ E[t] = l
    <3> HIDE DEF l, k
    <3> QED
      BY <2>3, <1>1, <1>2, <1>3 DEF SameTo
  <2> QED
    BY <2>1, <2>2, <2>3
<1>5. \A x : Follows(E, x) => Follows(F, x)
  BY <1>3, <1>4, GrowthKeeps
<1>6. Follows(F, k)
  <2>0. Follows(F, l)
    BY <1>1, <1>5
  <2> HIDE DEF l, k, t
  <2>1. ASSUME NEW i \in 1 .. Len(k) PROVE SameTo(k, F[k[i]], i)
    <3>1. CASE i = Len(k)
      BY <3>1, <1>2, <1>3 DEF SameTo
    <3>2. CASE i # Len(k)
      <4>1. i \in 1 .. Len(l) /\ k[i] = l[i] /\ l[i] \in Nat
        BY ONLY <3>2, <1>1, <1>2, i \in 1 .. Len(k)
      <4>2. SameTo(l, F[l[i]], i)
        BY <2>0, <4>1 DEF Follows
      <4> QED
        BY <1>1, <1>2, <4>1, <4>2 DEF SameTo
    <3> QED
      BY <3>1, <3>2
  <2> QED
    BY <1>2, <2>1 DEF Follows
<1>7. \A u \in Nat : Follows(F, F[u])
  BY <1>3, <1>5, <1>6, <1>e
<1>8. leaders' = leaders \cup {<<t, n>>}
  BY DEF Update
<1>9. ASSUME NEW p \in Server, p # n, node[p].role = "leader"
      PROVE  F[node[p].term] = E[node[p].term]
  <2>1. <<node[p].term, p>> \in leaders /\ node[p].term \in Nat
    BY <1>9, ShapeHere DEF IInv, LeadersRecorded, Shape
  <2>2. ElectionSafety'
    BY InvariantElectsOne, PTL
  <2>3. node[p].term # t
    <3>1. SUFFICES ASSUME node[p].term = t PROVE FALSE
      OBVIOUS
    <3>2. <<t, p>> \in leaders' /\ <<t, n>> \in leaders' /\ <<t, p>>[1] = <<t, n>>[1]
      BY <2>1, <3>1, <1>8
    <3>3. <<t, p>> = <<t, n>>
      BY <2>2, <3>2 DEF ElectionSafety
    <3> QED
      BY <3>3, <1>9
  <2> QED
    BY <2>1, <2>3, <1>3
<1>10. NodeOK(F, s1) /\ \A m \in ms : AppendOK(F, m)
  BY <1>3, <1>6 DEF NodeOK
<1>11. \A u \in Nat : F[u] # E[u] => <<u, n>> \in leaders'
  BY <1>3, <1>8
<1>12. /\ s1.role \in {"candidate", "leader"} => s1.term >= 1
       /\ s1.role = "candidate" => <<s1.term, n>> \notin leaders
  OBVIOUS
<1>13. s1.role = "leader" /\ F = [E EXCEPT ![s1.term] = s1.log]
  BY DEF F
<1> HIDE DEF t, l, k
<1> QED
  BY ONLY IInv, FreshTerms, E \in LogTable, Canonical(E), n \in Server, Update(n, s1), Send(ms),
          <1>3, <1>4, <1>7, <1>9, <1>10, <1>11, <1>12, <1>13, TableStep

(* What the invariant says of one node.                                     *)
LEMMA LogHere ==
    ASSUME IInv, NEW E \in LogTable, Canonical(E), NEW n \in Server
    PROVE  /\ Shape(node[n]) /\ node[n].term \in Nat
           /\ ProgressOK(node[n]) /\ node[n].awaiting = FALSE
           /\ Follows(E, node[n].log) /\ node[n].log \in Seq(Nat)
           /\ node[n].role = "leader" => node[n].log = E[node[n].term]
<1>1. NodeOK(E, node[n])
  BY DEF Canonical
<1> QED
  BY <1>1, ShapeHere DEF NodeOK, Follows

(* Messages other than AppendEntries and its answers are no matter here.    *)
Silent(ms) == \A m \in ms : m.type \notin {"AppendEntries", "AppendResponse"}

LEMMA SilentFollow ==
    ASSUME NEW ms, Silent(ms), NEW E
    PROVE  \A m \in ms : AppendOK(E, m)
BY DEF Silent, AppendOK

(* Requests for votes, their answers and transfers are such messages.       *)
LEMMA SilentMessages ==
    ASSUME NEW n, NEW s, NEW pre, NEW p, NEW m, NEW t, NEW b
    PROVE  /\ Silent({}) /\ Silent(VoteRequests(n, s, pre))
           /\ Silent({TimeoutNow(n, s, p)}) /\ Silent({VoteResponse(m, t, b)})
BY DEF Silent, VoteRequests, TimeoutNow, VoteResponse

(* A change elsewhere, and stepping down, add nothing to the log.           *)
LEMMA SameTracks ==
    ASSUME IInv, NEW E \in LogTable, Canonical(E), NEW n \in Server, NEW s1, LogSame(node[n], s1)
    PROVE  Tracks(E, node[n], s1)
BY LogHere DEF LogSame, Tracks

(* step_down() keeps the log and the progress.                              *)
LEMMA StepDownKeepsLog ==
    ASSUME NEW s, Shape(s), ProgressOK(s), NEW t
    PROVE  LET d == StepDown(s, t)
           IN d.log = s.log /\ ProgressOK(d) /\ d.awaiting = s.awaiting
BY DEF StepDown, Shape, Fields, ProgressOK

LEMMA StepDownTracks ==
    ASSUME IInv, NEW E \in LogTable, Canonical(E), NEW n \in Server, NEW t \in Nat, t >= node[n].term
    PROVE  Tracks(E, node[n], StepDown(node[n], t))
<1> DEFINE s == node[n]
           d == StepDown(s, t)
<1>1. d.log = s.log /\ ProgressOK(d) /\ d.awaiting = FALSE
  BY LogHere, StepDownKeepsLog
<1>2. d.role = "follower" /\ d.term = t
  BY LogHere, StepDownAdvances
<1> HIDE DEF d
<1>3. Tracks(E, s, d)
  BY <1>1, <1>2, LogHere DEF Tracks
<1> QED
  BY <1>3 DEF d

(* Answering without changing anything.                                     *)
LEMMA AnswerLogStep ==
    ASSUME IInv, FreshTerms, NEW E \in LogTable, Canonical(E), NEW n \in Server, NEW ms,
           UNCHANGED <<node, disk, leaders>>, Send(ms), \A m \in ms : AppendOK(E, m)
    PROVE  Advanced(E)
<1>1. LogSame(node[n], node[n])
  BY LogHere DEF LogSame
<1>2. Update(n, node[n])
  BY DEF IInv, Typed, LeadersRecorded, Update
<1> QED
  BY <1>1, <1>2, SameTracks, TrackStep

(* A leader that replicates to all sends pieces of its log.                 *)
LEMMA ReplicateLogStep ==
    ASSUME IInv, FreshTerms, NEW E \in LogTable, Canonical(E), NEW n \in Server,
           node[n].role = "leader", NEW s, Shape(s), LogSame(node[n], s), ReplicateToAll(n, s)
    PROVE  Advanced(E)
<1>1. PICK full \in FullWindows(s) :
         Update(n, MarkSent(n, s, full)) /\ Send(AppendRequests(n, s, full))
  BY DEF ReplicateToAll
<1> DEFINE s1 == MarkSent(n, s, full)
           ms == AppendRequests(n, s, full)
<1>2. /\ ProgressOK(s) /\ s.log = node[n].log /\ s.log \in Seq(Nat)
      /\ s.log = E[s.term]
  BY LogHere DEF LogSame
<1>3. LogSame(s, s1)
  BY <1>2, SendKeepsLog
<1>4. \A m \in ms : AppendOK(E, m)
  BY <1>2, RequestsFollow
<1>5. Update(n, s1) /\ Send(ms)
  BY <1>1
<1> HIDE DEF s1, ms
<1>6. LogSame(node[n], s1)
  BY <1>3 DEF LogSame
<1> QED
  BY <1>4, <1>5, <1>6, SameTracks, TrackStep

(* become_leader() appends its no-op entry and resets the progress.         *)
LEMMA BecomeLeaderAppends ==
    ASSUME NEW s, Shape(s), s.log \in Seq(Nat), NEW n \in Server
    PROVE  LET l == BecomeLeader(n, s)
           IN /\ l.log = Append(s.log, s.term) /\ ProgressOK(l) /\ l.awaiting = s.awaiting
<1> DEFINE last == Len(s.log)
           next == [p \in Server |-> IF p = n THEN last + 2 ELSE last + 1]
           match == [p \in Server |-> IF p = n THEN last + 1 ELSE 0]
           l == [s EXCEPT !.role = "leader",
                          !.leader = n,
                          !.votes = {},
                          !.log = Append(s.log, s.term),
                          !.next = next,
                          !.match = match,
                          !.mode = [p \in Server |-> "probe"]]
<1>0. BecomeLeader(n, s) = CommitAlone(l)
  BY DEF BecomeLeader
<1>1. last \in Nat
  OBVIOUS
<1> HIDE DEF last
<1>2. next \in [Server -> Nat] /\ match \in [Server -> Nat]
  BY <1>1
<1> HIDE DEF next, match
<1>3. /\ Shape(l) /\ ProgressOK(l) /\ l.log = Append(s.log, s.term)
      /\ l.awaiting = s.awaiting
  BY <1>2 DEF Shape, Fields, Roles, ProgressOK
<1> HIDE DEF l
<1>4. LogSame(l, CommitAlone(l))
  BY <1>3, CommitKeepsLog
<1> QED
  BY <1>0, <1>3, <1>4 DEF LogSame

(* begin_election() from a state with the node's log: a candidate's log is  *)
(* as before, and a lone voter's gets the entry that starts its term.       *)
LEMMA ElectionLogStep ==
    ASSUME IInv, IInv', FreshTerms, NEW E \in LogTable, Canonical(E), NEW n \in Server,
           NEW s, Shape(s), s.log = node[n].log, ProgressOK(s), s.awaiting = FALSE,
           s.term >= node[n].term,
           Update(n, BeginElection(n, s)), Send(VoteRequests(n, Candidate(n, s), FALSE))
    PROVE  Advanced(E)
<1> DEFINE c == Candidate(n, s)
           ms == VoteRequests(n, c, FALSE)
           s1 == BeginElection(n, s)
<1>h. /\ node[n].term \in Nat /\ s.term \in Nat
      /\ Follows(E, node[n].log) /\ node[n].log \in Seq(Nat)
  BY LogHere DEF Shape
<1>1. Shape(c) /\ c.role = "candidate" /\ c.term = s.term + 1
  BY CandidateAdvances
<1>2. c.log = s.log /\ ProgressOK(c) /\ c.awaiting = FALSE
  BY DEF Candidate, Shape, Fields, ProgressOK
<1>3. Silent(ms) /\ Update(n, s1) /\ Send(ms)
  BY SilentMessages
<1>4. HasQuorum({n}) => s1 = BecomeLeader(n, c)
  BY DEF BeginElection
<1>5. ~HasQuorum({n}) => s1 = c
  BY DEF BeginElection
<1> HIDE DEF c, ms, s1
<1>6. CASE ~HasQuorum({n})
  <2>1. Tracks(E, node[n], s1)
    BY <1>h, <1>1, <1>2, <1>5, <1>6 DEF Tracks
  <2> QED
    BY <1>3, <2>1, SilentFollow, TrackStep
<1>7. CASE HasQuorum({n})
  <2> DEFINE t == s.term + 1
  <2>1. s1.role = "leader" /\ s1.term = t
    BY <1>1, <1>4, <1>7, BecomeLeaderKeeps
  <2>2. s1.log = Append(node[n].log, t) /\ ProgressOK(s1) /\ s1.awaiting = FALSE
    BY <1>h, <1>1, <1>2, <1>4, <1>7, BecomeLeaderAppends
  <2>3. t \in Nat /\ t >= 1 /\ t > node[n].term
    BY <1>h
  <2> HIDE DEF t
  <2>4. <<t, n>> \notin leaders
    <3>1. ~VotedFor(n, t, n)
      BY <1>h, <2>3 DEF VotedFor
    <3> QED
      BY <2>3, <3>1 DEF IInv, LeadersElected
  <2>5. leaders \subseteq leaders' /\ <<t, n>> \in leaders'
    BY <1>3, <2>1 DEF Update
  <2>6. E[t] = << >>
    BY <2>3, <2>4, <2>5, NewTerm
  <2>7. \A F : F[s1.term] = s1.log => \A m \in ms : AppendOK(F, m)
    BY <1>3, SilentFollow
  <2> QED
    BY <1>3, <2>1, <2>2, <2>3, <2>6, <2>7, LeadStep
<1> QED
  BY <1>6, <1>7

-----------------------------------------------------------------------------
(* The actions.  Timers, client commands and restarts.                      *)
LEMMA TimerLogSteps ==
    ASSUME IInv, IInv', FreshTerms, NEW E \in LogTable, Canonical(E), NEW n \in Server,
           \/ ElectionTimeout(n) \/ CheckQuorum(n) \/ Heartbeat(n)
           \/ AppendCommand(n) \/ Restart(n)
    PROVE  Advanced(E)
<1> DEFINE s == node[n]
<1>h. /\ Shape(s) /\ s.term \in Nat /\ ProgressOK(s) /\ s.awaiting = FALSE
      /\ Follows(E, s.log) /\ s.log \in Seq(Nat)
      /\ s.role = "leader" => s.log = E[s.term]
  BY LogHere
<1>e. \A m \in {} : AppendOK(E, m)
  OBVIOUS
<1>1. CASE ElectionTimeout(n)
  <2>1. CASE setup.preVote
    <3> DEFINE s1 == BeginPreVote(n, s)
               ms == VoteRequests(n, s, TRUE)
    <3>1. Update(n, s1) /\ Send(ms) /\ Silent(ms)
      BY <1>1, <2>1, SilentMessages DEF ElectionTimeout
    <3>2. Tracks(E, s, s1)
      <4>1. /\ s1.role = "pre_candidate" /\ s1.term = s.term /\ s1.log = s.log
            /\ s1.awaiting = s.awaiting /\ ProgressOK(s1)
        BY <1>h DEF BeginPreVote, Shape, Fields, ProgressOK
      <4> HIDE DEF s1
      <4> QED
        BY <4>1, <1>h DEF Tracks
    <3> HIDE DEF s1, ms
    <3> QED
      BY <3>1, <3>2, SilentFollow, TrackStep
  <2>2. CASE ~setup.preVote
    <3>1. Update(n, BeginElection(n, s)) /\ Send(VoteRequests(n, Candidate(n, s), FALSE))
      BY <1>1, <2>2 DEF ElectionTimeout
    <3>2. s.term >= node[n].term
      BY <1>h
    <3> QED
      BY <1>h, <3>1, <3>2, ElectionLogStep
  <2> QED
    BY <2>1, <2>2
<1>2. CASE CheckQuorum(n)
  <2>1. Update(n, StepDown(s, s.term)) /\ Send({})
    BY <1>2 DEF CheckQuorum, Send
  <2>2. Tracks(E, s, StepDown(s, s.term))
    BY <1>h, StepDownTracks
  <2> QED
    BY <1>e, <2>1, <2>2, TrackStep
<1>3. CASE Heartbeat(n)
  <2>1. s.role = "leader" /\ ReplicateToAll(n, s)
    BY <1>3 DEF Heartbeat
  <2>2. LogSame(s, s)
    BY <1>h DEF LogSame
  <2> QED
    BY <1>h, <2>1, <2>2, ReplicateLogStep
<1>4. CASE AppendCommand(n)
  <2> DEFINE a == [s EXCEPT !.log = Append(s.log, s.term)]
             s1 == CommitAlone(a)
  <2>1. s.role = "leader" /\ Update(n, s1) /\ Send({})
    BY <1>4, <1>h DEF AppendCommand, Send, Shape, Fields
  <2>2. /\ Shape(a) /\ ProgressOK(a) /\ a.log = Append(s.log, s.term)
        /\ a.role = s.role /\ a.term = s.term /\ a.awaiting = FALSE
    BY <1>h DEF Shape, Fields, ProgressOK
  <2> HIDE DEF a
  <2>3. LogSame(a, s1)
    BY <2>2, CommitKeepsLog
  <2> HIDE DEF s1
  <2>4. /\ s1.role = "leader" /\ s1.term = s.term /\ s1.log = Append(node[n].log, s1.term)
        /\ ProgressOK(s1) /\ s1.awaiting = FALSE
    BY <2>1, <2>2, <2>3 DEF LogSame
  <2>5. s1.term \in Nat /\ s1.term >= 1
    <3>1. <<s.term, n>> \in leaders
      BY <2>1 DEF IInv, LeadersRecorded
    <3> QED
      BY <3>1, <2>4, <1>h DEF FreshTerms
  <2>6. E[s1.term] \in {<< >>, node[n].log}
    BY <2>1, <2>4, <1>h
  <2>7. \A F : F[s1.term] = s1.log => \A m \in {} : AppendOK(F, m)
    OBVIOUS
  <2> QED
    BY <2>1, <2>4, <2>5, <2>6, <2>7, LeadStep
<1>5. CASE Restart(n)
  <2> DEFINE s1 == RestoredFrom(s, disk[n], s.log)
  <2>1. Update(n, s1) /\ Send({})
    BY <1>5 DEF Restart, Send
  <2>2. disk[n].term = s.term
    BY DEF IInv, Typed, HardState
  <2>3. /\ s1.role = "follower" /\ s1.term = s.term /\ s1.log = s.log
        /\ s1.awaiting = FALSE /\ ProgressOK(s1)
    BY <2>2 DEF RestoredFrom, Restored, ProgressOK
  <2> HIDE DEF s1
  <2>4. Tracks(E, s, s1)
    BY <2>3, <1>h DEF Tracks
  <2> QED
    BY <1>e, <2>1, <2>4, TrackStep
<1> QED
  BY <1>1, <1>2, <1>3, <1>4, <1>5

(* Requests for votes: the voter's log stays.                               *)
LEMMA RequestVoteLogStep ==
    ASSUME IInv, FreshTerms, NEW E \in LogTable, Canonical(E), NEW m \in msgs,
           HandlePreVote(m) \/ HandleRequestVote(m)
    PROVE  Advanced(E)
<1> DEFINE n == m.to
           s == node[n]
           d == IF m.term > s.term THEN StepDown(s, m.term) ELSE s
<1>m. n \in Server /\ m.term \in Nat
  BY MessageHere
<1>h. /\ Shape(s) /\ s.term \in Nat /\ ProgressOK(s) /\ s.awaiting = FALSE
      /\ Follows(E, s.log)
  BY <1>m, LogHere
<1>1. ASSUME NEW t, NEW b, Send({VoteResponse(m, t, b)}), UNCHANGED <<node, disk, leaders>>
      PROVE  Advanced(E)
  <2>1. \A r \in {VoteResponse(m, t, b)} : AppendOK(E, r)
    BY SilentMessages, SilentFollow
  <2> HIDE DEF n
  <2> QED
    BY <1>1, <1>m, <2>1, AnswerLogStep
<1>2. ASSUME NEW b, Update(n, Voted(s, m)), Send({VoteResponse(m, m.term, b)}), m.term >= s.term
      PROVE  Advanced(E)
  <2> DEFINE s1 == Voted(s, m)
  <2>1. \A r \in {VoteResponse(m, m.term, b)} : AppendOK(E, r)
    BY SilentMessages, SilentFollow
  <2>2. d.log = s.log /\ ProgressOK(d) /\ d.awaiting = FALSE
    BY <1>h, StepDownKeepsLog
  <2>3. /\ Shape(d) /\ d.term \in Nat
        /\ d.role = "follower" \/ (d.role = s.role /\ d.term = s.term)
    BY <1>h, <1>m, <1>2, StepDownAdvances
  <2>4. s1 = IF MayGrant(d, m) THEN [d EXCEPT !.vote = m.from, !.leader = Nil] ELSE d
    BY DEF Voted
  <2> HIDE DEF d, s1, n
  <2>5. /\ s1.log = d.log /\ s1.role = d.role /\ s1.term = d.term
        /\ s1.awaiting = d.awaiting /\ ProgressOK(s1)
    BY <2>2, <2>3, <2>4 DEF Shape, Fields, ProgressOK
  <2>6. Tracks(E, s, s1)
    BY <1>h, <2>2, <2>3, <2>5 DEF Tracks
  <2> QED
    BY <1>2, <1>m, <2>1, <2>6, TrackStep DEF s1
<1>3. CASE HandlePreVote(m)
  <2> DEFINE grant == ~s.stopped /\ m.term >= s.term /\ UpToDate(s.log, m.lastIndex, m.lastTerm)
  <2>1. Send({VoteResponse(m, s.term, grant)}) /\ UNCHANGED <<node, disk, leaders>>
    BY <1>3 DEF HandlePreVote
  <2> HIDE DEF grant, s
  <2> QED
    BY <1>1, <2>1
<1>4. CASE HandleRequestVote(m)
  <2> DEFINE grant == MayGrant(d, m)
  <2>1. \/ Send({VoteResponse(m, s.term, FALSE)}) /\ UNCHANGED <<node, disk, leaders>>
        \/ /\ Update(n, Voted(s, m)) /\ Send({VoteResponse(m, m.term, grant)})
           /\ m.term >= s.term
    BY <1>4, <1>m, <1>h DEF HandleRequestVote
  <2> HIDE DEF grant, s
  <2> QED
    BY <1>1, <1>2, <2>1
<1> QED
  BY <1>3, <1>4
(* Votes that come in: the winner of an election appends to its log.        *)
LEMMA VoteResponseLogStep ==
    ASSUME IInv, IInv', FreshTerms, NEW E \in LogTable, Canonical(E), NEW m \in msgs,
           HandleVoteResponse(m)
    PROVE  Advanced(E)
<1> DEFINE n == m.to
           s == node[n]
           s1 == [s EXCEPT !.votes = @ \cup {m.from}]
<1>m. n \in Server /\ m.from \in Server /\ m.term \in Nat
  BY MessageHere
<1>h. /\ Shape(s) /\ s.term \in Nat /\ ProgressOK(s) /\ s.awaiting = FALSE
      /\ Follows(E, s.log) /\ s.log \in Seq(Nat)
  BY <1>m, LogHere
<1>e. \A r \in {} : AppendOK(E, r)
  OBVIOUS
<1>v. Shape(s1) /\ LogSame(s, s1)
  BY <1>m, <1>h DEF Shape, Fields, LogSame, ProgressOK
<1>1. CASE m.term > s.term /\ Update(n, StepDown(s, m.term)) /\ UNCHANGED msgs
  <2>1. Tracks(E, s, StepDown(s, m.term))
    BY <1>1, <1>m, <1>h, StepDownTracks
  <2>2. Send({})
    BY <1>1 DEF Send
  <2> HIDE DEF n
  <2> QED
    BY <1>1, <1>m, <1>e, <2>1, <2>2, TrackStep
<1>2. CASE Update(n, s1) /\ UNCHANGED msgs
  <2> HIDE DEF s1, n
  <2>1. Tracks(E, s, s1)
    BY <1>m, <1>v, SameTracks
  <2>2. Send({})
    BY <1>2 DEF Send
  <2> QED
    BY <1>2, <1>m, <1>e, <2>1, <2>2, TrackStep
<1>3. CASE Update(n, BeginElection(n, s1)) /\ Send(VoteRequests(n, Candidate(n, s1), FALSE))
  <2> HIDE DEF s1, n
  <2>1. s1.log = s.log /\ ProgressOK(s1) /\ s1.awaiting = FALSE /\ s1.term >= s.term
    BY <1>v, <1>h DEF LogSame
  <2> QED
    BY <1>3, <1>m, <1>v, <2>1, ElectionLogStep
<1>4. CASE s.role = "candidate" /\ ReplicateToAll(n, BecomeLeader(n, s1))
  <2> DEFINE l == BecomeLeader(n, s1)
             t == s.term
  <2> HIDE DEF s1, n
  <2>1. s1.log = s.log /\ s1.term = t /\ s1.awaiting = FALSE
    BY <1>v, <1>h DEF LogSame
  <2>2. Shape(l) /\ l.role = "leader" /\ l.term = t
    BY <1>m, <1>v, <2>1, BecomeLeaderKeeps
  <2>3. l.log = Append(s.log, t) /\ ProgressOK(l) /\ l.awaiting = FALSE
    BY <1>m, <1>h, <1>v, <2>1, BecomeLeaderAppends
  <2>4. l.log \in Seq(Nat)
    BY <1>h, <2>3
  <2> HIDE DEF l
  <2>5. PICK full \in FullWindows(l) :
           Update(n, MarkSent(n, l, full)) /\ Send(AppendRequests(n, l, full))
    BY <1>4 DEF ReplicateToAll, l
  <2> DEFINE k == MarkSent(n, l, full)
             ms == AppendRequests(n, l, full)
  <2>6. LogSame(l, k)
    BY <1>m, <2>2, <2>3, <2>4, SendKeepsLog
  <2>7. ASSUME NEW F, F[t] = l.log PROVE \A r \in ms : AppendOK(F, r)
    BY <1>m, <2>2, <2>3, <2>4, <2>7, RequestsFollow
  <2>8. Update(n, k) /\ Send(ms)
    BY <2>5
  <2> HIDE DEF k, ms
  <2>9. /\ k.role = "leader" /\ k.term = t /\ k.log = Append(s.log, t)
        /\ ProgressOK(k) /\ k.awaiting = FALSE /\ k.log = l.log
    BY <2>2, <2>3, <2>6 DEF LogSame
  <2>10. t \in Nat /\ t >= 1 /\ <<t, n>> \notin leaders
    BY <1>4, <1>m, <1>h DEF FreshTerms
  <2>11. leaders \subseteq leaders' /\ <<t, n>> \in leaders'
    BY <2>8, <2>9 DEF Update
  <2>12. E[t] = << >>
    BY <1>m, <2>10, <2>11, NewTerm
  <2>13. \A F : F[k.term] = k.log => \A r \in ms : AppendOK(F, r)
    BY <2>7, <2>9
  <2> QED
    BY <1>m, <2>8, <2>9, <2>10, <2>12, <2>13, LeadStep
<1> QED
  BY <1>1, <1>2, <1>3, <1>4 DEF HandleVoteResponse

(* The index a follower answers a mismatch with is a number.                *)
LEMMA ConflictIsNat ==
    ASSUME NEW l \in Seq(Nat), NEW p \in Nat
    PROVE  ConflictIndex(l, p) \in Nat
<1>1. CASE TermAt(l, p) = 0
  BY <1>1 DEF ConflictIndex
<1>2. CASE TermAt(l, p) # 0
  <2> DEFINE S == {i \in 1 .. p : \A j \in i .. p : l[j] = l[p]}
  <2>1. p \in S /\ S \in SUBSET Nat
    BY <1>2 DEF TermAt
  <2>2. ConflictIndex(l, p) = Min(S)
    BY <1>2 DEF ConflictIndex
  <2> HIDE DEF S
  <2> QED
    BY <2>1, <2>2, LeastNat
<1> QED
  BY <1>1, <1>2
(* A node that follows the sender of an AppendEntries keeps its log until   *)
(* the entries are in place.                                                *)
LEMMA FollowKeepsLog ==
    ASSUME NEW s, Shape(s), ProgressOK(s), NEW m, m.term \in Nat, m.term >= s.term
    PROVE  LET f == Follow(s, m)
           IN /\ Shape(f) /\ f.role = "follower" /\ f.term = m.term
              /\ f.log = s.log /\ ProgressOK(f) /\ f.awaiting = s.awaiting
<1> DEFINE d == IF m.term > s.term \/ s.role # "follower" THEN StepDown(s, m.term) ELSE s
           f == [d EXCEPT !.leader = m.from]
<1>0. s.term \in Nat
  BY DEF Shape
<1>1. Shape(d) /\ d.role = "follower" /\ d.term = m.term
  BY <1>0, StepDownAdvances
<1>2. d.log = s.log /\ ProgressOK(d) /\ d.awaiting = s.awaiting
  BY StepDownKeepsLog
<1>3. Follow(s, m) = f
  BY DEF Follow
<1> HIDE DEF d
<1>4. /\ Shape(f) /\ f.role = "follower" /\ f.term = m.term
      /\ f.log = d.log /\ ProgressOK(f) /\ f.awaiting = d.awaiting
  BY <1>1, <1>2 DEF Shape, Fields, ProgressOK
<1> HIDE DEF f
<1> QED
  BY <1>2, <1>3, <1>4

(* Entries that come in: with them in place, and also when a crash comes    *)
(* between truncation and append, the log follows the canonical ones.       *)
LEMMA AppendLogSteps ==
    ASSUME IInv, FreshTerms, NEW E \in LogTable, Canonical(E), NEW m \in msgs,
           HandleAppendEntries(m) \/ CrashInAppend(m)
    PROVE  Advanced(E)
<1> DEFINE n == m.to
           s == node[n]
           f == Follow(s, m)
<1>m. /\ n \in Server /\ m.term \in Nat /\ m.type = "AppendEntries"
      /\ m.prev \in Nat /\ m.entries \in Seq(Nat) /\ PieceOf(E[m.term], m)
  <2>1. n \in Server /\ m.term \in Nat
    BY MessageHere
  <2>2. m.type = "AppendEntries"
    BY DEF HandleAppendEntries, CrashInAppend, Accepts
  <2>3. AppendOK(E, m)
    BY DEF Canonical
  <2> QED
    BY <2>1, <2>2, <2>3 DEF AppendOK, PieceOf
<1>h. /\ Shape(s) /\ s.term \in Nat /\ ProgressOK(s) /\ s.awaiting = FALSE
      /\ Follows(E, s.log) /\ s.log \in Seq(Nat)
  BY <1>m, LogHere
<1>f. m.term >= s.term =>
        /\ Shape(f) /\ f.role = "follower" /\ f.term = m.term
        /\ f.log = s.log /\ ProgressOK(f) /\ f.awaiting = FALSE
  BY <1>m, <1>h, FollowKeepsLog
<1>a. \A t, b : \A i, j \in Nat : \A r \in {AppendResponse(m, t, b, i, j)} : AppendOK(E, r)
  BY DEF AppendResponse, AppendOK
<1>p. TermAt(s.log, m.prev) = m.prevTerm =>
        /\ Follows(E, Spliced(s.log, m.prev, m.entries))
        /\ Follows(E, Truncated(s.log, m))
  <2>1. E[0] = << >>
    BY DEF Canonical, FreshTerms
  <2>2. Follows(E, E[m.term])
    BY <1>m DEF Canonical
  <2> HIDE DEF s
  <2> QED
    BY <1>m, <1>h, <2>1, <2>2, SpliceFollows
<1> HIDE DEF f
<1>1. CASE Send({AppendResponse(m, s.term, FALSE, Len(s.log), 0)}) /\ UNCHANGED <<node, disk, leaders>>
  <2> DEFINE ms == {AppendResponse(m, s.term, FALSE, Len(s.log), 0)}
  <2>1. Len(s.log) \in Nat /\ 0 \in Nat
    BY <1>h
  <2>2. \A r \in ms : AppendOK(E, r)
    BY <1>a, <2>1
  <2>3. Send(ms)
    BY <1>1
  <2> HIDE DEF n, ms
  <2> QED
    BY <1>1, <1>m, <2>2, <2>3, AnswerLogStep
<1>2. CASE /\ m.term >= s.term /\ Update(n, f)
           /\ Send({AppendResponse(m, m.term, FALSE, IF m.prev > 0 THEN m.prev - 1 ELSE 0,
                                   ConflictIndex(s.log, m.prev))})
  <2> DEFINE i == IF m.prev > 0 THEN m.prev - 1 ELSE 0
             j == ConflictIndex(s.log, m.prev)
             ms == {AppendResponse(m, m.term, FALSE, i, j)}
  <2>1. i \in Nat /\ j \in Nat
    BY <1>m, <1>h, ConflictIsNat
  <2>2. \A r \in ms : AppendOK(E, r)
    <3> HIDE DEF i, j
    <3> QED
      BY <1>a, <2>1
  <2>3. Send(ms)
    BY <1>2
  <2>4. Tracks(E, s, f)
    BY <1>2, <1>m, <1>h, <1>f DEF Tracks
  <2> HIDE DEF n, ms
  <2> QED
    BY <1>2, <1>m, <2>2, <2>3, <2>4, TrackStep
<1>3. CASE /\ m.term >= s.term /\ TermAt(s.log, m.prev) = m.prevTerm
           /\ Update(n, FollowCommit([f EXCEPT !.log = Spliced(f.log, m.prev, m.entries)], m))
           /\ Send({AppendResponse(m, m.term, TRUE, m.prev + Len(m.entries), 0)})
  <2> DEFINE k == Spliced(s.log, m.prev, m.entries)
             s2 == [f EXCEPT !.log = Spliced(f.log, m.prev, m.entries)]
             s3 == FollowCommit(s2, m)
             last == m.prev + Len(m.entries)
             ms == {AppendResponse(m, m.term, TRUE, last, 0)}
  <2>1. last \in Nat
    BY <1>m
  <2>2. \A r \in ms : AppendOK(E, r)
    <3> HIDE DEF last
    <3> QED
      BY <1>a, <2>1
  <2>3. Send(ms) /\ Update(n, s3)
    BY <1>3
  <2>4. Follows(E, k)
    BY <1>3, <1>p
  <2>5. s2 = [f EXCEPT !.log = k]
    BY <1>3, <1>f
  <2> HIDE DEF k, s2
  <2>6. /\ Shape(s2) /\ s2.role = "follower" /\ s2.term = m.term
        /\ s2.log = k /\ ProgressOK(s2) /\ s2.awaiting = FALSE
    BY <1>3, <1>f, <2>5 DEF Shape, Fields, ProgressOK
  <2>7. LogSame(s2, s3)
    BY <2>6, CommitKeepsLog
  <2> HIDE DEF s3, ms, n
  <2>8. Tracks(E, s, s3)
    BY <1>m, <2>4, <2>6, <2>7 DEF Tracks, LogSame
  <2> QED
    BY <1>m, <2>2, <2>3, <2>8, TrackStep
<1>4. CASE CrashInAppend(m)
  <2> DEFINE r == RestoredFrom(f, HardState(f), Truncated(f.log, m))
  <2>1. /\ m.term >= s.term /\ TermAt(s.log, m.prev) = m.prevTerm
        /\ Update(n, r) /\ Send({})
    BY <1>4 DEF CrashInAppend, Accepts, Send, f
  <2>2. f.log = s.log /\ f.term = m.term
    BY <1>f, <2>1
  <2>3. /\ r.role = "follower" /\ r.term = m.term /\ r.log = Truncated(s.log, m)
        /\ r.awaiting = FALSE /\ ProgressOK(r)
    BY <2>2 DEF RestoredFrom, Restored, HardState, ProgressOK
  <2> HIDE DEF r, n
  <2>4. Tracks(E, s, r)
    BY <1>m, <1>p, <2>1, <2>3 DEF Tracks
  <2>5. \A q \in {} : AppendOK(E, q)
    OBVIOUS
  <2> QED
    BY <1>m, <2>1, <2>4, <2>5, TrackStep
<1> QED
  BY <1>1, <1>2, <1>3, <1>4 DEF HandleAppendEntries, f
(* Acknowledgements and rejections move the progress of a peer.             *)
LEMMA AppendResponseLogStep ==
    ASSUME IInv, FreshTerms, NEW E \in LogTable, Canonical(E), NEW m \in msgs,
           HandleAppendResponse(m)
    PROVE  Advanced(E)
<1> DEFINE n == m.to
           s == node[n]
           a == MarkReplicated(s, m.from, m.match)
           s1 == IF m.success THEN AdvanceCommit(n, a) ELSE MarkRejected(s, m)
           s2 == [s1 EXCEPT !.transfer = Nil]
<1>m. /\ n \in Server /\ m.from \in Server /\ m.term \in Nat
      /\ m.match \in Nat /\ m.conflict \in Nat
  <2>1. AppendOK(E, m) /\ m.type = "AppendResponse"
    BY DEF Canonical, HandleAppendResponse
  <2> QED
    BY <2>1, MessageHere DEF AppendOK
<1>h. Shape(s) /\ s.term \in Nat /\ ProgressOK(s)
  BY <1>m, LogHere
<1>e. \A r \in {} : AppendOK(E, r)
  OBVIOUS
<1>1. Same(s, a) /\ Same(s, MarkRejected(s, m)) /\ LogSame(s, a) /\ LogSame(s, MarkRejected(s, m))
  BY <1>m, <1>h, ProgressKeeps, MarksKeepLog, RejectKeepsLog
<1>2. Shape(s1) /\ LogSame(s, s1)
  <2> HIDE DEF a, n
  <2>1. Shape(a) /\ Shape(MarkRejected(s, m))
    BY <1>h, <1>1, SameShape
  <2>2. Same(a, AdvanceCommit(n, a)) /\ LogSame(a, AdvanceCommit(n, a))
    BY <1>1, <2>1, CommitKeeps, CommitKeepsLog DEF LogSame
  <2>3. Shape(AdvanceCommit(n, a)) /\ LogSame(s, AdvanceCommit(n, a))
    BY <1>1, <2>1, <2>2, SameShape DEF LogSame
  <2> QED
    BY <1>1, <2>1, <2>3
<1>3. CASE m.term > s.term /\ Update(n, StepDown(s, m.term)) /\ UNCHANGED msgs
  <2>1. Tracks(E, s, StepDown(s, m.term))
    BY <1>3, <1>m, <1>h, StepDownTracks
  <2>2. Send({})
    BY <1>3 DEF Send
  <2> HIDE DEF n
  <2> QED
    BY <1>3, <1>m, <1>e, <2>1, <2>2, TrackStep
<1>4. CASE Update(n, s2) /\ Send({TimeoutNow(n, s1, m.from)})
  <2> HIDE DEF s1, n
  <2>1. LogSame(s1, s2)
    BY <1>m, <1>2, MarksKeepLog DEF LogSame
  <2>2. \A r \in {TimeoutNow(n, s1, m.from)} : AppendOK(E, r)
    BY SilentMessages, SilentFollow
  <2> HIDE DEF s2
  <2>3. LogSame(s, s2)
    BY <1>2, <2>1 DEF LogSame
  <2> QED
    BY <1>4, <1>m, <2>2, <2>3, SameTracks, TrackStep
<1>5. CASE s.role = "leader" /\ ReplicateToAll(n, s1)
  <2> HIDE DEF s1, n
  <2> QED
    BY <1>5, <1>m, <1>2, ReplicateLogStep
<1>6. CASE Update(n, s1) /\ UNCHANGED msgs
  <2> HIDE DEF s1, n
  <2>1. Send({})
    BY <1>6 DEF Send
  <2> QED
    BY <1>6, <1>m, <1>e, <1>2, <2>1, SameTracks, TrackStep
<1> QED
  BY <1>3, <1>4, <1>5, <1>6 DEF HandleAppendResponse

(* transfer_leader() sends what the target lacks, or the signal to go.      *)
LEMMA TransferLogStep ==
    ASSUME IInv, FreshTerms, NEW E \in LogTable, Canonical(E), NEW n \in Server, NEW p \in Server,
           TransferLeader(n, p)
    PROVE  Advanced(E)
<1> DEFINE s == [node[n] EXCEPT !.transfer = p]
           s1 == [s EXCEPT !.transfer = Nil]
<1>1. Shape(s) /\ LogSame(node[n], s)
  <2>1. Same(node[n], s) /\ LogSame(node[n], s)
    BY LogHere, ProgressKeeps, MarksKeepLog
  <2> QED
    BY <2>1, LogHere, SameShape
<1>2. node[n].role = "leader"
  BY <1>1 DEF TransferLeader, LogSame
<1>3. CASE Update(n, s1) /\ Send({TimeoutNow(n, s, p)})
  <2> HIDE DEF s
  <2>1. LogSame(s, s1)
    BY <1>1, MarksKeepLog DEF LogSame
  <2>2. \A r \in {TimeoutNow(n, s, p)} : AppendOK(E, r)
    BY SilentMessages, SilentFollow
  <2> HIDE DEF s1
  <2>3. LogSame(node[n], s1)
    BY <1>1, <2>1 DEF LogSame
  <2> QED
    BY <1>3, <2>2, <2>3, SameTracks, TrackStep
<1>4. CASE ReplicateToAll(n, s)
  <2> HIDE DEF s
  <2> QED
    BY <1>1, <1>2, <1>4, ReplicateLogStep
<1> QED
  BY <1>3, <1>4 DEF TransferLeader

(* handle_timeout_now() starts an election at once.                         *)
LEMMA TimeoutNowLogStep ==
    ASSUME IInv, IInv', FreshTerms, NEW E \in LogTable, Canonical(E), NEW m \in msgs,
           HandleTimeoutNow(m)
    PROVE  Advanced(E)
<1> DEFINE n == m.to
           s == node[n]
           d == IF m.term > s.term THEN StepDown(s, m.term) ELSE s
<1>m. n \in Server /\ m.term \in Nat
  BY MessageHere
<1>h. /\ Shape(s) /\ s.term \in Nat /\ ProgressOK(s) /\ s.awaiting = FALSE
      /\ Follows(E, s.log)
  BY <1>m, LogHere
<1>1. Shape(d) /\ d.term >= node[n].term
  BY <1>m, <1>h, StepDownAdvances
<1>2. d.log = s.log /\ ProgressOK(d) /\ d.awaiting = FALSE
  BY <1>h, StepDownKeepsLog
<1>3. Tracks(E, s, d)
  <2>1. LogSame(s, s)
    BY <1>h DEF LogSame
  <2>2. Tracks(E, s, s)
    BY <1>m, <2>1, SameTracks
  <2>3. m.term > s.term => Tracks(E, s, StepDown(s, m.term))
    BY <1>m, <1>h, StepDownTracks
  <2> QED
    BY <2>2, <2>3
<1>4. CASE Update(n, d) /\ UNCHANGED msgs
  <2>1. Send({}) /\ \A r \in {} : AppendOK(E, r)
    BY <1>4 DEF Send
  <2> HIDE DEF n, d
  <2> QED
    BY <1>4, <1>m, <1>3, <2>1, TrackStep
<1>5. CASE Update(n, BeginElection(n, d)) /\ Send(VoteRequests(n, Candidate(n, d), FALSE))
  <2> HIDE DEF n, d
  <2> QED
    BY <1>m, <1>1, <1>2, <1>5, ElectionLogStep
<1> QED
  BY <1>4, <1>5 DEF HandleTimeoutNow

-----------------------------------------------------------------------------
(* No heartbeat has been left waiting: while one is, the node may stop to   *)
(* lead and then send another leader's entries as its own.                  *)
NeverAwaits == spent["await"] = 0

(* Empty logs need no canonical ones.                                       *)
LEMMA InitFollows == Init => LInv
<1> SUFFICES ASSUME Init PROVE LInv
  OBVIOUS
<1> DEFINE E == [t \in Nat |-> << >>]
<1>1. E \in LogTable /\ \A t \in Nat : E[t] = << >>
  BY DEF LogTable
<1> HIDE DEF E
<1>2. Follows(E, << >>)
  BY DEF Follows
<1>3. ASSUME NEW n \in Server PROVE NodeOK(E, node[n]) /\ node[n].role = "follower"
  BY <1>2 DEF Init, Restored, NodeOK, ProgressOK
<1>4. FreshTerms
  BY <1>3 DEF Init, FreshTerms
<1>5. Canonical(E)
  BY <1>1, <1>2, <1>3 DEF Init, Canonical
<1> QED
  BY <1>1, <1>4, <1>5 DEF LInv

(* Every step keeps it.                                                     *)
LEMMA NextAdvances ==
    ASSUME IInv, IInv', FreshTerms, NEW E \in LogTable, Canonical(E), [Next]_vars,
           StorageWorked', NeverAwaits'
    PROVE  Advanced(E)
<1>1. CASE UNCHANGED vars
  <2>1. FreshTerms' /\ Canonical(E)'
    BY <1>1 DEF vars, FreshTerms, Canonical
  <2> QED
    BY <2>1 DEF Advanced, Extends
<1>2. CASE Next
  <2>1. ~Spend("failure") /\ ~Spend("await")
    BY CountsGrow DEF IInv, Typed, Counted, StorageWorked, NeverAwaits, Events
  <2>2. ASSUME NEW n \in Server
        PROVE  ~FailElection(n) /\ ~FailHeartbeat(n) /\ ~HeartbeatAwait(n) /\ ~HeartbeatResume(n)
    <3>1. node[n].awaiting = FALSE
      BY LogHere
    <3> QED
      BY <2>1, <3>1 DEF FailElection, FailHeartbeat, Fail, HeartbeatAwait, HeartbeatResume
  <2>3. \A m \in msgs : ~FailVote(m) /\ ~FailAppend(m)
    BY <2>1 DEF FailVote, FailAppend, Fail
  <2>4. ASSUME NEW n \in Server,
               \/ ElectionTimeout(n) \/ CheckQuorum(n) \/ Heartbeat(n)
               \/ AppendCommand(n) \/ Restart(n)
        PROVE  Advanced(E)
    BY <2>4, TimerLogSteps
  <2>5. ASSUME NEW n \in Server, NEW p \in Server, TransferLeader(n, p) PROVE Advanced(E)
    BY <2>5, TransferLogStep
  <2>6. ASSUME NEW m \in msgs, HandlePreVote(m) \/ HandleRequestVote(m) PROVE Advanced(E)
    BY <2>6, RequestVoteLogStep
  <2>7. ASSUME NEW m \in msgs, HandleVoteResponse(m) PROVE Advanced(E)
    BY <2>7, VoteResponseLogStep
  <2>8. ASSUME NEW m \in msgs, HandleAppendEntries(m) \/ CrashInAppend(m) PROVE Advanced(E)
    BY <2>8, AppendLogSteps
  <2>9. ASSUME NEW m \in msgs, HandleAppendResponse(m) PROVE Advanced(E)
    BY <2>9, AppendResponseLogStep
  <2>10. ASSUME NEW m \in msgs, HandleTimeoutNow(m) PROVE Advanced(E)
    BY <2>10, TimeoutNowLogStep
  <2> QED
    BY <1>2, <2>2, <2>3, <2>4, <2>5, <2>6, <2>7, <2>8, <2>9, <2>10 DEF Next, Step
<1> QED
  BY <1>1, <1>2

(* Canonical logs follow canonical logs.                                    *)
LEMMA NextFollows ==
    ASSUME IInv, IInv', LInv, [Next]_vars, StorageWorked', NeverAwaits'
    PROVE  LInv'
<1>1. PICK E \in LogTable : Canonical(E)
  BY DEF LInv
<1>2. Advanced(E)
  BY <1>1, NextAdvances DEF LInv
<1> QED
  BY <1>2 DEF Advanced, LInv

(* Two logs that follow the same canonical logs and have the same term at   *)
(* an index both have that term's canonical log up to there.                *)
LEMMA FollowersMatch == LInv => LogMatching
<1> SUFFICES ASSUME LInv, NEW a \in Server, NEW b \in Server,
                    NEW i \in DOMAIN node[a].log \cap DOMAIN node[b].log,
                    node[a].log[i] = node[b].log[i]
             PROVE  Agree(node[a].log, node[b].log, i)
  BY DEF LogMatching
<1> DEFINE k == node[a].log
           l == node[b].log
<1>1. PICK E \in LogTable : Canonical(E)
  BY DEF LInv
<1>2. Follows(E, k) /\ Follows(E, l) /\ k \in Seq(Nat) /\ l \in Seq(Nat)
  BY <1>1 DEF Canonical, NodeOK, Follows
<1>d. i \in DOMAIN k /\ i \in DOMAIN l /\ k[i] = l[i]
  OBVIOUS
<1> HIDE DEF k, l
<1>3. i \in 1 .. Len(k) /\ i \in 1 .. Len(l) /\ k[i] = l[i]
  <2>1. DOMAIN k = 1 .. Len(k) /\ DOMAIN l = 1 .. Len(l)
    BY ONLY <1>2
  <2> QED
    BY <1>d, <2>1
<1>4. SameTo(k, E[k[i]], i) /\ SameTo(l, E[k[i]], i)
  BY <1>2, <1>3 DEF Follows
<1>5. \A j \in 1 .. i : k[j] = l[j]
  BY <1>4 DEF SameTo
<1>6. SubSeq(k, 1, i) = SubSeq(l, 1, i)
  BY <1>2, <1>3, <1>5
<1>7. Agree(k, l, i)
  BY <1>2, <1>3, <1>6 DEF Agree
<1> QED
  BY <1>7 DEF k, l

(* Two logs with the same term at an index are the same up to there,        *)
(* whatever is lost, repeated, reordered or restarted                       *)
(* (log_manager.cpp, append_from_leader), until a storage call fails or a   *)
(* heartbeat is left waiting for its cleanup.                               *)
THEOREM RaftLogsMatch == Spec => [](StorageWorked /\ NeverAwaits => LogMatching)
<1> DEFINE Inv == Counted /\ (StorageWorked /\ NeverAwaits => IInv /\ LInv)
<1>1. Init => Inv
  BY InitEstablishes, InitFollows DEF Init, Counted
<1>2. Inv /\ [Next]_vars => Inv'
  <2> SUFFICES ASSUME Inv, [Next]_vars PROVE Inv'
    OBVIOUS
  <2>1. Counted' /\ (StorageWorked' => StorageWorked) /\ (NeverAwaits' => NeverAwaits)
    BY CountsGrow DEF StorageWorked, NeverAwaits, Events
  <2>2. ASSUME StorageWorked', NeverAwaits' PROVE IInv' /\ LInv'
    <3>1. IInv /\ LInv
      BY <2>1, <2>2
    <3>2. IInv'
      BY <3>1, <2>2, NextPreserves
    <3> QED
      BY <3>1, <3>2, <2>2, NextFollows
  <2> QED
    BY <2>1, <2>2
<1>3. Inv => (StorageWorked /\ NeverAwaits => LogMatching)
  BY FollowersMatch
<1> QED
  BY <1>1, <1>2, <1>3, PTL DEF Spec
=============================================================================
