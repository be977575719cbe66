------------------------- MODULE RaftSafetyProofs --------------------------
(***************************************************************************)
(* Proofs about what the Raft core commits, on top of the elections' and    *)
(* the logs': what a majority has acknowledged every later leader has, so   *)
(* match_index is true, applied entries stay, and all replicas apply the    *)
(* same stream, for every set of voters, every batch size and every         *)
(* interleaving with losses, repetitions, crashes and restarts.             *)
(*                                                                          *)
(* The argument is Raft's own, with acknowledgements in place of commits:   *)
(* an entry of term t that a quorum has passed without acknowledging is     *)
(* dead; any other entry that a voter acknowledged is kept by it, by every  *)
(* candidate it votes for and by every later leader.                        *)
(***************************************************************************)
EXTENDS RaftProofs, SequenceTheorems

-----------------------------------------------------------------------------
(* No answer to an append of an earlier term carries a term that its        *)
(* receiver leads: it would be taken for the answer to a later append.      *)
NoStaleAnswers ==
    \A r \in msgs :
        r.type = "AppendResponse" /\ ~r.success /\ r.conflict = 0 => <<r.term, r.to>> \notin leaders

(* No append tells of a commit index beyond the entries it covers.          *)
CommitsCovered ==
    \A m \in msgs : m.type = "AppendEntries" => m.commit <= m.prev + Len(m.entries)

Led(t) == \E n \in Server : <<t, n>> \in leaders

(* p has acknowledged the canonical log of term t up to i, or has led t.    *)
Acks(r, p, t, i) ==
    r.type = "AppendResponse" /\ r.success /\ r.from = p /\ r.term = t /\ r.match >= i

Acked(p, t, i) == <<t, p>> \in leaders \/ \E r \in msgs : Acks(r, p, t, i)

(* A quorum has passed term t without acknowledging i: it never will.       *)
Dead(t, i) ==
    \E Q \in SUBSET Server :
        HasQuorum(Q) /\ \A p \in Q : node[p].term > t /\ ~Acked(p, t, i)

(* Entry i of the canonical log of t was appended in t.                     *)
Own(E, t, i) == i \in 1 .. Len(E[t]) /\ E[t][i] = t

(* The log l has it and all before it, unless it can never be committed.    *)
Kept(E, l, t, i) == SameTo(l, E[t], i) \/ Dead(t, i)

-----------------------------------------------------------------------------
(* The parts of the invariant.  Terms do not go down along a log, nor       *)
(* beyond the term of who has it.                                           *)
TableSafe(E) == \A t \in Nat : \A j \in 1 .. Len(E[t]) : E[t][j] <= t

(* A leader asks about indices it has, and counts what was acknowledged.    *)
Counts(s, p) ==
    /\ s.next[p] <= Len(s.log) + 1 /\ s.match[p] <= Len(s.log)
    /\ s.match[p] = 0 \/ Acked(p, s.term, s.match[p])

NodeSafe(s) ==
    /\ s.stopped = FALSE
    /\ \A j \in 1 .. Len(s.log) : s.log[j] <= s.term
    /\ s.role = "leader" => \A p \in Server : Counts(s, p)

(* An append asks about the canonical log; an acknowledgement says what its *)
(* sender has, until that is past the term; a rejection leads back into the *)
(* log; a candidate's requests describe its log.                            *)
AppendSafe(E, m) ==
    /\ <<m.term, m.from>> \in leaders
    /\ m.prev <= Len(E[m.term]) /\ m.prevTerm = TermAt(E[m.term], m.prev)

AckSafe(E, r) ==
    /\ r.match <= Len(E[r.term])
    /\ \/ node[r.from].term > r.term
       \/ node[r.from].term = r.term /\ SameTo(node[r.from].log, E[r.term], r.match)

AskSafe(m) ==
    /\ node[m.from].term >= m.term
    /\ node[m.from].role = "candidate" /\ node[m.from].term = m.term =>
          m.lastIndex = Len(node[m.from].log) /\ m.lastTerm = LastTerm(node[m.from].log)

MsgSafe(E, m) ==
    /\ m.type = "AppendEntries" => AppendSafe(E, m)
    /\ m.type = "AppendResponse" /\ m.success => AckSafe(E, m)
    /\ m.type = "AppendResponse" /\ ~m.success => m.conflict <= Len(E[m.term])
    /\ m.type = "RequestVote" /\ ~m.pre => AskSafe(m)
    /\ m.type = "VoteResponse" /\ ~m.pre /\ m.granted => node[m.to].term >= m.term

(* Whoever acknowledged an entry has it; a candidate has what its voters    *)
(* acknowledged in earlier terms; and so has every later leader.            *)
AcksSafe(E) ==
    \A v \in Server, t \in Nat, i \in Nat :
        Own(E, t, i) /\ Acked(v, t, i) => Kept(E, node[v].log, t, i)

VotesSafe(E) ==
    \A v, c \in Server, t \in Nat, i \in Nat :
        /\ node[c].role = "candidate" /\ Grant(v, node[c].term, c) \in msgs
        /\ t < node[c].term /\ Own(E, t, i) /\ Acked(v, t, i)
        => Kept(E, node[c].log, t, i)

TermsSafe(E) ==
    \A t \in Nat, u \in Nat, i \in Nat :
        t < u /\ Led(u) /\ Own(E, t, i) => Kept(E, E[u], t, i)

Safe(E) ==
    /\ TableSafe(E)
    /\ \A n \in Server : NodeSafe(node[n])
    /\ \A m \in msgs : MsgSafe(E, m)
    /\ AcksSafe(E) /\ VotesSafe(E) /\ TermsSafe(E)

-----------------------------------------------------------------------------
(* The types of the canonical logs; a term without a leader has none, term  *)
(* 0 in particular.                                                         *)
LEMMA TableFacts ==
    ASSUME NEW E \in LogTable, Canonical(E), FreshTerms
    PROVE  /\ \A t \in Nat : E[t] \in Seq(Nat) /\ Len(E[t]) \in Nat /\ Follows(E, E[t])
           /\ E[0] = << >>
           /\ \A t \in Nat : E[t] # << >> => Led(t)
<1>1. \A t \in Nat : E[t] \in Seq(Nat) /\ Follows(E, E[t])
  BY DEF LogTable, Canonical
<1>2. \A t \in Nat : Len(E[t]) \in Nat
  BY <1>1
<1>3. \A t \in Nat : E[t] # << >> => Led(t)
  BY DEF Canonical, Led
<1>4. E[0] = << >>
  BY DEF Canonical, FreshTerms
<1> QED
  BY <1>1, <1>2, <1>3, <1>4

(* The terms of a log that follows the canonical ones never go down.        *)
LEMMA Sorted ==
    ASSUME NEW E \in LogTable, Canonical(E), TableSafe(E), NEW l, Follows(E, l),
           NEW j \in 1 .. Len(l), NEW i \in 1 .. j
    PROVE  l[i] <= l[j] /\ l[i] \in Nat /\ l[j] \in Nat
<1>1. l \in Seq(Nat) /\ SameTo(l, E[l[j]], j)
  BY DEF Follows
<1>2. l[i] \in Nat /\ l[j] \in Nat /\ j \in Nat /\ i \in Nat
  BY <1>1
<1>3. E[l[j]] \in Seq(Nat)
  BY <1>2 DEF LogTable
<1>4. i \in 1 .. Len(E[l[j]]) /\ l[i] = E[l[j]][i]
  BY <1>1, <1>2, <1>3 DEF SameTo
<1>5. E[l[j]][i] <= l[j]
  BY <1>2, <1>4 DEF TableSafe
<1> QED
  BY <1>2, <1>4, <1>5

(* Having the same beginning is symmetric, transitive and holds for every   *)
(* shorter beginning.                                                       *)
LEMMA SameToFacts ==
    ASSUME NEW a \in Seq(Nat), NEW b \in Seq(Nat), NEW c \in Seq(Nat), NEW i \in Nat
    PROVE  /\ SameTo(a, b, i) => SameTo(b, a, i)
           /\ SameTo(a, b, i) /\ SameTo(b, c, i) => SameTo(a, c, i)
           /\ \A j \in Nat : j <= i /\ SameTo(a, b, i) => SameTo(a, b, j)
           /\ i <= Len(a) => SameTo(a, a, i)
BY DEF SameTo

(* The term of a log's last entry.                                          *)
LEMMA LastTermOf ==
    ASSUME NEW l \in Seq(Nat)
    PROVE  /\ Len(l) \in Nat
           /\ Len(l) = 0 => LastTerm(l) = 0
           /\ Len(l) > 0 => Len(l) \in 1 .. Len(l) /\ LastTerm(l) = l[Len(l)] /\ LastTerm(l) \in Nat
BY DEF LastTerm, TermAt

(* A log that is up to date with one that has an entry has it too.          *)
LEMMA UpToDateKeeps ==
    ASSUME NEW E \in LogTable, Canonical(E), FreshTerms, TableSafe(E), TermsSafe(E),
           NEW l, Follows(E, l), NEW k, Follows(E, k), UpToDate(l, Len(k), LastTerm(k)),
           NEW t \in Nat, NEW i \in Nat, Own(E, t, i), SameTo(l, E[t], i)
    PROVE  Kept(E, k, t, i)
<1> DEFINE e == E[t]
<1>1. l \in Seq(Nat) /\ k \in Seq(Nat) /\ e \in Seq(Nat) /\ E[0] = << >>
  BY TableFacts DEF Follows
<1>2. i \in 1 .. Len(e) /\ e[i] = t /\ t >= 1
  <2>1. i \in 1 .. Len(e) /\ e[i] = t
    BY DEF Own
  <2>2. t # 0
    BY <1>1, <2>1
  <2> QED
    BY <2>1, <2>2
<1>3. /\ i \in 1 .. Len(l) /\ Len(l) > 0 /\ l[i] = t
      /\ \A j \in 1 .. i : l[j] = e[j]
  BY <1>1, <1>2 DEF SameTo
<1> HIDE DEF e
<1>4. PICK a \in Nat : a = LastTerm(l) /\ a = l[Len(l)] /\ a >= t
  <2>1. LastTerm(l) = l[Len(l)] /\ LastTerm(l) \in Nat /\ Len(l) \in 1 .. Len(l)
    BY <1>1, <1>3, LastTermOf
  <2>2. i \in 1 .. Len(l)
    BY <1>3
  <2>3. l[i] <= l[Len(l)]
    BY <2>1, <2>2, Sorted
  <2> QED
    BY <1>3, <2>1, <2>3
<1>5. PICK w \in Nat : /\ w = LastTerm(k) /\ w >= a /\ Len(k) > 0 /\ w = k[Len(k)]
                       /\ Len(k) \in 1 .. Len(k) /\ Len(k) \in Nat
  <2>1. Len(k) > 0
    <3>1. LastTerm(k) > a \/ LastTerm(k) = a
      BY <1>4 DEF UpToDate
    <3>2. Len(k) \in Nat /\ (Len(k) = 0 => LastTerm(k) = 0)
      BY <1>1, LastTermOf
    <3> QED
      BY <1>2, <1>4, <3>1, <3>2
  <2>2. LastTerm(k) = k[Len(k)] /\ LastTerm(k) \in Nat /\ Len(k) \in 1 .. Len(k) /\ Len(k) \in Nat
    BY <1>1, <2>1, LastTermOf
  <2>3. LastTerm(k) >= a
    BY <1>4, <2>2 DEF UpToDate
  <2> QED
    BY <2>1, <2>2, <2>3
<1>6. SameTo(k, E[w], Len(k)) /\ SameTo(l, E[a], Len(l))
  <2>1. Len(l) \in 1 .. Len(l)
    BY <1>1, <1>3
  <2> QED
    BY <1>4, <1>5, <2>1 DEF Follows
<1>7. E[w] \in Seq(Nat) /\ Follows(E, E[w])
  BY <1>5, TableFacts
<1>8. CASE w = a
  <2>1. Len(l) <= Len(k)
    BY <1>1, <1>4, <1>5, <1>8, LastTermOf DEF UpToDate
  <2>2. i <= Len(k) /\ \A j \in 1 .. i : k[j] = l[j]
    <3>1. i \in Nat /\ Len(l) \in Nat /\ i <= Len(l)
      BY <1>1, <1>3
    <3>2. \A j \in 1 .. Len(l) : l[j] = E[w][j]
      BY <1>6, <1>8 DEF SameTo
    <3>3. \A j \in 1 .. Len(k) : k[j] = E[w][j]
      BY <1>6 DEF SameTo
    <3> QED
      BY <1>5, <2>1, <3>1, <3>2, <3>3
  <2>3. SameTo(k, e, i)
    BY <1>1, <1>2, <1>3, <2>2 DEF SameTo
  <2> QED
    BY <2>3 DEF Kept, e
<1>9. CASE w > a
  <2>1. t < w
    BY <1>4, <1>9
  <2>2. Led(w)
    <3>1. E[w] # << >>
      BY <1>5, <1>6, <1>7 DEF SameTo
    <3> QED
      BY <1>5, <3>1, TableFacts
  <2>3. Kept(E, E[w], t, i)
    BY <1>5, <2>1, <2>2 DEF TermsSafe
  <2>4. CASE Dead(t, i)
    BY <2>4 DEF Kept
  <2>5. CASE SameTo(E[w], e, i)
    <3>1. i \in 1 .. Len(E[w]) /\ E[w][i] = t
      <4>1. PICK f \in Seq(Nat) : f = E[w]
        BY <1>7
      <4>2. SameTo(f, e, i) /\ f \in Seq(Nat) /\ i \in Nat
        BY <2>5, <4>1
      <4>3. i \in 1 .. Len(f) /\ f[i] = t
        BY ONLY <1>2, <4>2 DEF SameTo
      <4> QED
        BY <4>1, <4>3
    <3>2. Len(k) \in 1 .. Len(E[w]) /\ E[w][Len(k)] = w
      BY <1>5, <1>6, <1>7 DEF SameTo
    <3>3. ~(Len(k) < i)
      <4> SUFFICES ASSUME Len(k) < i PROVE FALSE
        OBVIOUS
      <4>1. Len(k) \in 1 .. i
        BY <1>5, <1>2
      <4>2. E[w][Len(k)] <= E[w][i]
        BY <1>7, <3>1, <4>1, Sorted
      <4> QED
        BY <2>1, <3>1, <3>2, <4>2, <1>5
    <3>4. i <= Len(k)
      BY <1>5, <3>3
    <3>5. SameTo(k, e, i)
      BY <1>1, <1>5, <1>6, <1>7, <2>5, <3>4 DEF SameTo
    <3> QED
      BY <3>5 DEF Kept, e
  <2> QED
    BY <2>3, <2>4, <2>5 DEF Kept, e
<1> QED
  BY <1>4, <1>5, <1>8, <1>9

-----------------------------------------------------------------------------
(* A step that leaves n as s1, having sent ms, terms only going up.         *)
Moves(n, s1, ms) ==
    /\ Update(n, s1) /\ Send(ms) /\ s1.term \in Nat /\ s1.term >= node[n].term
    /\ \A r \in ms : r.type = "AppendResponse" /\ r.success => r.from = n /\ r.term = s1.term

(* What a step of n leaves alone, and what only grows.                      *)
LEMMA MovesFacts ==
    ASSUME IInv, NEW n \in Server, NEW s1, NEW ms, Moves(n, s1, ms)
    PROVE  /\ node'[n] = s1 /\ \A p \in Server : p # n => node'[p] = node[p]
           /\ \A p \in Server : /\ node[p].term \in Nat /\ node'[p].term \in Nat
                                /\ node'[p].term >= node[p].term
           /\ leaders \subseteq leaders' /\ msgs \subseteq msgs'
           /\ msgs' = msgs \cup ms
           /\ leaders' = IF s1.role = "leader" THEN leaders \cup {<<s1.term, n>>} ELSE leaders
<1>1. node' = [node EXCEPT ![n] = s1] /\ msgs' = msgs \cup ms
  BY DEF Moves, Update, Send
<1>2. node'[n] = s1 /\ \A p \in Server : p # n => node'[p] = node[p]
  BY <1>1 DEF IInv, Typed
<1>3. leaders' = IF s1.role = "leader" THEN leaders \cup {<<s1.term, n>>} ELSE leaders
  BY DEF Moves, Update
<1>4. s1.term \in Nat /\ s1.term >= node[n].term
  BY DEF Moves
<1>5. \A p \in Server : node[p].term \in Nat
  BY ShapeHere DEF Shape
<1>6. \A p \in Server : node'[p].term \in Nat /\ node'[p].term >= node[p].term
  BY <1>2, <1>4, <1>5
<1>7. leaders \subseteq leaders' /\ msgs \subseteq msgs'
  BY <1>1, <1>3
<1> QED
  BY <1>1, <1>2, <1>3, <1>5, <1>6, <1>7

(* Only n acknowledges anything new, and only in its term.                  *)
LEMMA AckedMoves ==
    ASSUME IInv, NEW n \in Server, NEW s1, NEW ms, Moves(n, s1, ms),
           NEW p \in Server, NEW t \in Nat, NEW i
    PROVE  /\ Acked(p, t, i) => Acked(p, t, i)'
           /\ Acked(p, t, i)' => Acked(p, t, i) \/ (p = n /\ t = s1.term)
<1>1. /\ leaders \subseteq leaders' /\ msgs' = msgs \cup ms
      /\ leaders' = IF s1.role = "leader" THEN leaders \cup {<<s1.term, n>>} ELSE leaders
  BY MovesFacts
<1>2. Acked(p, t, i)' <=> <<t, p>> \in leaders' \/ \E r \in msgs' : Acks(r, p, t, i)
  BY DEF Acked, Acks
<1>3. Acked(p, t, i) => Acked(p, t, i)'
  BY <1>1, <1>2 DEF Acked
<1>4. ASSUME NEW r \in ms, Acks(r, p, t, i) PROVE p = n /\ t = s1.term
  BY <1>4 DEF Acks, Moves
<1>5. <<t, p>> \in leaders' => <<t, p>> \in leaders \/ (p = n /\ t = s1.term)
  BY <1>1
<1>6. Acked(p, t, i)' => Acked(p, t, i) \/ (p = n /\ t = s1.term)
  BY <1>1, <1>2, <1>4, <1>5 DEF Acked
<1> QED
  BY <1>3, <1>6

(* What can never be committed stays so: acknowledgements carry the term of *)
(* their sender, which never goes down.                                     *)
LEMMA DeadMoves ==
    ASSUME IInv, NEW n \in Server, NEW s1, NEW ms, Moves(n, s1, ms),
           NEW t \in Nat, NEW i, Dead(t, i)
    PROVE  Dead(t, i)'
<1>1. PICK Q \in SUBSET Server : HasQuorum(Q) /\ \A p \in Q : node[p].term > t /\ ~Acked(p, t, i)
  BY DEF Dead
<1>2. s1.term \in Nat /\ s1.term >= node[n].term
  BY DEF Moves
<1>3. ASSUME NEW p \in Q PROVE node'[p].term > t /\ ~Acked(p, t, i)'
  <2>1. p \in Server /\ node[p].term > t /\ ~Acked(p, t, i)
    BY <1>1
  <2>2. node'[p].term \in Nat /\ node[p].term \in Nat /\ node'[p].term >= node[p].term
    BY <2>1, MovesFacts
  <2>3. p = n => t # s1.term
    BY <1>2, <2>1, <2>2
  <2>4. ~Acked(p, t, i)'
    BY <2>1, <2>3, AckedMoves
  <2> QED
    BY <2>1, <2>2, <2>4
<1> QED
  BY <1>1, <1>3 DEF Dead

-----------------------------------------------------------------------------
(* What becomes of the log of n: it stays, entries of the leader of the     *)
(* term are put in place, or n leads and appends one.                       *)
Stays(E, F, n, s1) ==
    /\ F = E /\ s1.log = node[n].log
    /\ s1.role = "leader" => node[n].role = "leader" /\ s1.term = node[n].term

Grafts(E, F, n, s1) ==
    /\ F = E /\ s1.role = "follower" /\ Led(s1.term) /\ s1.log \in Seq(Nat)
    /\ \A i \in Nat : SameTo(node[n].log, E[s1.term], i) => SameTo(s1.log, E[s1.term], i)

Wins(n, u) ==
    /\ <<u, n>> \notin leaders
    /\ \E Q \in SUBSET Server :
          /\ HasQuorum(Q)
          /\ \A v \in Q : \/ v = n
                          \/ /\ Grant(v, u, n) \in msgs
                             /\ node[n].role = "candidate" /\ node[n].term = u

Leads(E, F, n, s1) ==
    /\ s1.role = "leader" /\ s1.log = Append(node[n].log, s1.term)
    /\ F = [E EXCEPT ![s1.term] = s1.log]
    /\ (node[n].role = "leader" /\ node[n].term = s1.term) \/ Wins(n, s1.term)

Candidacy(n, s1) ==
    s1.role = "candidate" =>
        s1.term > node[n].term \/ (node[n].role = "candidate" /\ s1.term = node[n].term)

NodeFits(n, s1) ==
    /\ s1.stopped = FALSE
    /\ \A j \in 1 .. Len(s1.log) : s1.log[j] <= s1.term
    /\ s1.role = "leader" => \A p \in Server :
          /\ s1.next[p] <= Len(s1.log) + 1 /\ s1.match[p] <= Len(s1.log)
          /\ s1.match[p] = 0 \/ p = n \/ Acked(p, s1.term, s1.match[p])

(* The messages a node may send that is now s1.                             *)
AppendFits(n, s1, m) ==
    /\ m.from = n /\ s1.role = "leader" /\ m.term = s1.term
    /\ m.prev <= Len(s1.log) /\ m.prevTerm = TermAt(s1.log, m.prev)

AckFits(F, n, s1, r) == r.from = n /\ r.term = s1.term /\ SameTo(s1.log, F[s1.term], r.match)

AskFits(n, s1, m) ==
    /\ m.from = n /\ m.term <= s1.term
    /\ s1.role = "candidate" /\ m.term = s1.term =>
          m.lastIndex = Len(s1.log) /\ m.lastTerm = LastTerm(s1.log)

GrantFits(n, s1, m) ==
    /\ m.from = n /\ m.term = s1.term /\ s1.log = node[n].log
    /\ \E q \in msgs : /\ q.type = "RequestVote" /\ ~q.pre /\ q.from = m.to /\ q.term = m.term
                       /\ UpToDate(node[n].log, q.lastIndex, q.lastTerm)

Suits(F, n, s1, m) ==
    /\ m.type = "AppendEntries" => AppendFits(n, s1, m)
    /\ m.type = "AppendResponse" /\ m.success => AckFits(F, n, s1, m)
    /\ m.type = "AppendResponse" /\ ~m.success => m.conflict <= Len(F[m.term])
    /\ m.type = "RequestVote" /\ ~m.pre => AskFits(n, s1, m)
    /\ m.type = "VoteResponse" /\ ~m.pre /\ m.granted => GrantFits(n, s1, m)

Fits(F, n, s1, m) == MessageOK(m) /\ AppendOK(F, m) /\ Suits(F, n, s1, m)

Proceeds(E, F, n, s1, ms) ==
    /\ Moves(n, s1, ms)
    /\ Stays(E, F, n, s1) \/ Grafts(E, F, n, s1) \/ Leads(E, F, n, s1)
    /\ Candidacy(n, s1) /\ NodeFits(n, s1)
    /\ \A m \in ms : Fits(F, n, s1, m)

(* Everything known before and after such a step.                           *)
StepFrom(E, F, n, s1, ms) ==
    /\ IInv /\ IInv' /\ FreshTerms /\ FreshTerms'
    /\ E \in LogTable /\ F \in LogTable /\ Canonical(E) /\ Canonical(F)' /\ Safe(E)
    /\ n \in Server /\ Proceeds(E, F, n, s1, ms)

(* The facts about a step that the proofs below use.                        *)
LEMMA StepFacts ==
    ASSUME NEW E, NEW F, NEW n, NEW s1, NEW ms, StepFrom(E, F, n, s1, ms)
    PROVE  /\ E \in LogTable /\ F \in LogTable /\ n \in Server /\ IInv /\ Moves(n, s1, ms)
           /\ \A t \in Nat : E[t] \in Seq(Nat) /\ F[t] \in Seq(Nat) /\ Len(E[t]) \in Nat /\ Len(F[t]) \in Nat
           /\ \A p \in Server : node[p].log \in Seq(Nat) /\ node'[p].log \in Seq(Nat)
           /\ s1.role = "leader" => s1.log = F[s1.term]
           /\ node[n].role = "leader" => node[n].log = E[node[n].term]
           /\ s1.log \in Seq(Nat) /\ s1.term \in Nat
           /\ node'[n] = s1
<1>1. E \in LogTable /\ F \in LogTable /\ n \in Server /\ IInv /\ Moves(n, s1, ms)
  BY DEF StepFrom, Proceeds
<1>2. \A t \in Nat : E[t] \in Seq(Nat) /\ F[t] \in Seq(Nat) /\ Len(E[t]) \in Nat /\ Len(F[t]) \in Nat
  BY <1>1 DEF LogTable
<1>3. \A p \in Server : NodeOK(E, node[p]) /\ NodeOK(F, node'[p])
  BY DEF StepFrom, Canonical
<1>4. \A p \in Server : node[p].log \in Seq(Nat) /\ node'[p].log \in Seq(Nat)
  BY <1>3 DEF NodeOK, Follows
<1>5. node'[n] = s1
  BY <1>1, MovesFacts
<1>6. s1.role = "leader" => s1.log = F[s1.term]
  BY <1>1, <1>3, <1>5 DEF NodeOK
<1>7. node[n].role = "leader" => node[n].log = E[node[n].term]
  BY <1>1, <1>3 DEF NodeOK
<1>8. s1.term \in Nat
  BY <1>1 DEF Moves
<1> QED
  BY <1>1, <1>2, <1>4, <1>5, <1>6, <1>7, <1>8

(* Nobody else leads the term of a leader.                                  *)
LEMMA OneLeader ==
    ASSUME NEW E, NEW F, NEW n, NEW s1, NEW ms, StepFrom(E, F, n, s1, ms),
           s1.role = "leader", NEW p \in Server, <<s1.term, p>> \in leaders'
    PROVE  p = n
<1>1. ElectionSafety'
  <2>1. IInv'
    BY DEF StepFrom
  <2> QED
    BY <2>1, InvariantElectsOne, PTL
<1>2. <<s1.term, n>> \in leaders'
  BY StepFacts, MovesFacts
<1>3. <<s1.term, p>>[1] = <<s1.term, n>>[1]
  OBVIOUS
<1>4. <<s1.term, p>> = <<s1.term, n>>
  BY <1>1, <1>2, <1>3 DEF ElectionSafety
<1> QED
  BY <1>4

(* The canonical logs grow, and only the one of a term n leads.             *)
Grown(E, F, n, s1) ==
    /\ \A t \in Nat : SameTo(E[t], F[t], Len(E[t]))
    /\ \A t \in Nat : F[t] # E[t] => s1.role = "leader" /\ t = s1.term

(* Canonical logs only grow, and only that of the term n leads in.          *)
LEMMA TableMoves ==
    ASSUME NEW E, NEW F, NEW n, NEW s1, NEW ms, StepFrom(E, F, n, s1, ms)
    PROVE  Grown(E, F, n, s1) /\ TableSafe(F)
<1>1. /\ E \in LogTable /\ F \in LogTable /\ n \in Server /\ s1.term \in Nat
      /\ \A t \in Nat : E[t] \in Seq(Nat) /\ F[t] \in Seq(Nat) /\ Len(E[t]) \in Nat /\ Len(F[t]) \in Nat
      /\ node[n].log \in Seq(Nat) /\ s1.log \in Seq(Nat)
      /\ node[n].role = "leader" => node[n].log = E[node[n].term]
  BY StepFacts
<1>2. /\ Stays(E, F, n, s1) \/ Grafts(E, F, n, s1) \/ Leads(E, F, n, s1)
      /\ NodeFits(n, s1)
      /\ TableSafe(E)
  BY DEF StepFrom, Proceeds, Safe
<1>3. CASE F = E
  <2>1. Grown(E, F, n, s1)
    BY <1>1, <1>3 DEF Grown, SameTo
  <2> QED
    BY <1>2, <1>3, <2>1
<1>4. CASE Leads(E, F, n, s1)
  <2> DEFINE u == s1.term
  <2>1. /\ s1.role = "leader" /\ s1.log = Append(node[n].log, u) /\ F = [E EXCEPT ![u] = s1.log]
        /\ (node[n].role = "leader" /\ node[n].term = u) \/ <<u, n>> \notin leaders
    BY <1>4 DEF Leads, Wins
  <2>2. F[u] = s1.log /\ \A t \in Nat : t # u => F[t] = E[t]
    BY <1>1, <2>1 DEF LogTable
  <2>3. E[u] \in {<< >>, node[n].log}
    <3>1. CASE node[n].role = "leader" /\ node[n].term = u
      BY <1>1, <3>1
    <3>2. CASE <<u, n>> \notin leaders
      <4>1. leaders \subseteq leaders' /\ <<u, n>> \in leaders'
        BY <2>1, StepFacts, MovesFacts
      <4>2. IInv' /\ Canonical(E) /\ E \in LogTable /\ u \in Nat /\ n \in Server
        BY <1>1 DEF StepFrom
      <4>3. E[u] = << >>
        BY <3>2, <4>1, <4>2, NewTerm
      <4> QED
        BY <4>3
    <3> QED
      BY <2>1, <3>1, <3>2
  <2>4. PICK l \in Seq(Nat) : l = node[n].log
    BY <1>1
  <2>5. PICK k \in Seq(Nat) : k = s1.log
    BY <1>1
  <2>6. Len(k) = Len(l) + 1 /\ Len(l) \in Nat /\ \A j \in 1 .. Len(l) : k[j] = l[j]
    BY <1>1, <2>1, <2>4, <2>5
  <2>7. SameTo(<< >>, k, 0) /\ SameTo(l, k, Len(l))
    BY <2>6 DEF SameTo
  <2>8. SameTo(E[u], F[u], Len(E[u]))
    <3>1. CASE E[u] = << >>
      BY <2>2, <2>5, <2>7, <3>1
    <3>2. CASE E[u] = l
      BY <2>2, <2>5, <2>7, <3>2
    <3> QED
      BY <2>3, <2>4, <3>1, <3>2
  <2>9. \A t \in Nat : t # u => SameTo(E[t], F[t], Len(E[t]))
    BY <1>1, <2>2 DEF SameTo
  <2>10. Grown(E, F, n, s1)
    BY <2>1, <2>2, <2>8, <2>9 DEF Grown
  <2>11. TableSafe(F)
    <3>1. ASSUME NEW t \in Nat, NEW j \in 1 .. Len(F[t]) PROVE F[t][j] <= t
      <4>1. CASE t = u
        BY <1>2, <2>2, <4>1 DEF NodeFits
      <4>2. CASE t # u
        BY <1>2, <2>2, <4>2 DEF TableSafe
      <4> QED
        BY <4>1, <4>2
    <3> QED
      BY <3>1 DEF TableSafe
  <2> QED
    BY <2>10, <2>11
<1> QED
  BY <1>2, <1>3, <1>4 DEF Stays, Grafts

(* An entry of a term stays where it is; a new one is its leader's.         *)
LEMMA OwnMoves ==
    ASSUME NEW E, NEW F, NEW n, NEW s1, NEW ms, StepFrom(E, F, n, s1, ms), NEW t \in Nat, NEW i \in Nat
    PROVE  /\ Own(E, t, i) => /\ Own(F, t, i)
                              /\ \A l \in Seq(Nat) : SameTo(l, E[t], i) => SameTo(l, F[t], i)
           /\ Own(F, t, i) /\ ~Own(E, t, i) =>
                 t = s1.term /\ s1.role = "leader" /\ i > Len(E[t])
<1>1. /\ E[t] \in Seq(Nat) /\ F[t] \in Seq(Nat) /\ Len(E[t]) \in Nat /\ Len(F[t]) \in Nat
  BY StepFacts
<1>2. Grown(E, F, n, s1)
  BY TableMoves
<1>3. SameTo(E[t], F[t], Len(E[t]))
  BY <1>2 DEF Grown
<1>4. ASSUME Own(E, t, i)
      PROVE  Own(F, t, i) /\ \A l \in Seq(Nat) : SameTo(l, E[t], i) => SameTo(l, F[t], i)
  <2>1. i \in 1 .. Len(E[t]) /\ E[t][i] = t
    BY <1>4 DEF Own
  <2>2. PICK e \in Seq(Nat) : e = E[t]
    BY <1>1
  <2>3. PICK f \in Seq(Nat) : f = F[t]
    BY <1>1
  <2>4. SameTo(e, f, Len(e)) /\ i \in 1 .. Len(e) /\ e[i] = t
    BY <1>3, <2>1, <2>2, <2>3
  <2>5. Len(e) \in Nat /\ Len(f) \in Nat /\ i <= Len(e) /\ i >= 1
    BY <2>4
  <2>6. SameTo(e, f, i)
    BY ONLY <2>4, <2>5, i \in Nat DEF SameTo
  <2>7. i \in 1 .. Len(f) /\ f[i] = t
    BY ONLY <2>4, <2>5, <2>6, i \in Nat DEF SameTo
  <2>8. Own(F, t, i)
    BY <2>3, <2>7 DEF Own
  <2>9. \A l \in Seq(Nat) : SameTo(l, e, i) => SameTo(l, f, i)
    BY <2>6, SameToFacts
  <2> QED
    BY <2>2, <2>3, <2>8, <2>9
<1>5. ASSUME Own(F, t, i), ~Own(E, t, i)
      PROVE  t = s1.term /\ s1.role = "leader" /\ i > Len(E[t])
  <2>1. F[t] # E[t]
    BY <1>5 DEF Own
  <2>2. ~(i \in 1 .. Len(E[t]))
    BY <1>1, <1>3, <1>5 DEF Own, SameTo
  <2>3. i > Len(E[t])
    BY <1>1, <1>5, <2>2 DEF Own
  <2> QED
    BY <1>2, <2>1, <2>3 DEF Grown
<1> QED
  BY <1>4, <1>5

(* What is known of who has acknowledged something.                         *)
LEMMA AckedFacts ==
    ASSUME IInv, NEW E \in LogTable, Canonical(E), Safe(E), NEW p \in Server, NEW t \in Nat, NEW i \in Nat,
           Acked(p, t, i)
    PROVE  /\ node[p].term >= t /\ node[p].term \in Nat
           /\ <<t, p>> \in leaders \/ i <= Len(E[t])
<1>0. node[p].term \in Nat
  BY ShapeHere DEF Shape
<1>1. CASE <<t, p>> \in leaders
  <2>1. VotedFor(p, t, p)
    BY <1>1 DEF IInv, LeadersElected
  <2> QED
    BY <1>0, <1>1, <2>1 DEF VotedFor
<1>2. CASE <<t, p>> \notin leaders
  <2>1. PICK r \in msgs : Acks(r, p, t, i)
    BY <1>2 DEF Acked
  <2>2. AckSafe(E, r) /\ r.from = p /\ r.term = t /\ r.match >= i
    BY <2>1 DEF Acks, Safe, MsgSafe
  <2>3. r.match <= Len(E[t]) /\ node[p].term >= t
    BY <1>0, <2>2 DEF AckSafe
  <2>4. i <= r.match /\ Len(E[t]) \in Nat /\ r.match \in Nat
    <3>1. AppendOK(E, r) /\ r.type = "AppendResponse"
      BY <2>1 DEF Canonical, Acks
    <3>2. r.match \in Nat
      BY <3>1 DEF AppendOK
    <3>3. Len(E[t]) \in Nat
      BY DEF LogTable
    <3> QED
      BY <2>2, <3>2, <3>3
  <2> QED
    BY <1>0, <2>3, <2>4
<1> QED
  BY <1>1, <1>2

(* A new entry of a canonical log is known to its leader only.              *)
LEMMA NewOwn ==
    ASSUME NEW E, NEW F, NEW n, NEW s1, NEW ms, StepFrom(E, F, n, s1, ms), NEW t \in Nat, NEW i \in Nat,
           Own(F, t, i), ~Own(E, t, i), NEW p \in Server, Acked(p, t, i)'
    PROVE  p = n
<1> SUFFICES ASSUME p # n PROVE FALSE
  OBVIOUS
<1>1. t = s1.term /\ s1.role = "leader" /\ i > Len(E[t])
  BY OwnMoves
<1>2. E \in LogTable /\ n \in Server /\ IInv /\ Moves(n, s1, ms) /\ Len(E[t]) \in Nat
  BY StepFacts
<1>3. Acked(p, t, i)
  BY <1>2, AckedMoves
<1>4. Safe(E) /\ Canonical(E)
  BY DEF StepFrom
<1>5. <<t, p>> \in leaders
  <2>1. <<t, p>> \in leaders \/ i <= Len(E[t])
    BY <1>2, <1>3, <1>4, AckedFacts
  <2>2. ~(i <= Len(E[t]))
    BY <1>1, <1>2
  <2> QED
    BY <2>1, <2>2
<1>6. <<t, p>> \in leaders'
  BY <1>2, <1>5, MovesFacts
<1> QED
  BY <1>1, <1>6, OneLeader

(* Whoever acknowledged an entry still has it: entries are truncated only   *)
(* for a log of a later term, which has it too unless it is dead.           *)
LEMMA AcksMove ==
    ASSUME NEW E, NEW F, NEW n, NEW s1, NEW ms, StepFrom(E, F, n, s1, ms)
    PROVE  AcksSafe(F)'
<1>0. /\ E \in LogTable /\ F \in LogTable /\ n \in Server /\ IInv /\ Moves(n, s1, ms)
      /\ \A t \in Nat : E[t] \in Seq(Nat) /\ F[t] \in Seq(Nat) /\ Len(E[t]) \in Nat /\ Len(F[t]) \in Nat
      /\ \A p \in Server : node[p].log \in Seq(Nat) /\ node'[p].log \in Seq(Nat)
      /\ s1.role = "leader" => s1.log = F[s1.term]
      /\ s1.log \in Seq(Nat) /\ s1.term \in Nat /\ node'[n] = s1
  BY StepFacts
<1>1. /\ Stays(E, F, n, s1) \/ Grafts(E, F, n, s1) \/ Leads(E, F, n, s1)
      /\ Safe(E) /\ Canonical(E) /\ AcksSafe(E) /\ TermsSafe(E)
      /\ \A m \in ms : Fits(F, n, s1, m)
  BY DEF StepFrom, Proceeds, Safe
<1>2. ASSUME NEW v \in Server, NEW t \in Nat, NEW i \in Nat, Own(F, t, i), Acked(v, t, i)'
      PROVE  SameTo(node'[v].log, F[t], i) \/ Dead(t, i)'
  <2>1. CASE v = n /\ t = s1.term /\ ~Acked(v, t, i)
    <3>1. CASE s1.role = "leader"
      <4>1. i \in Nat /\ i <= Len(F[t])
        BY <1>2 DEF Own
      <4>2. node'[v].log = F[t]
        BY <1>0, <2>1, <3>1
      <4> QED
        BY <1>0, <4>1, <4>2, SameToFacts
    <3>2. CASE s1.role # "leader"
      <4>1. leaders' = leaders /\ msgs' = msgs \cup ms
        BY <1>0, <3>2, MovesFacts
      <4>2. Acked(v, t, i)' <=> <<t, v>> \in leaders' \/ \E r \in msgs' : Acks(r, v, t, i)
        BY DEF Acked, Acks
      <4>3. PICK r \in ms : Acks(r, v, t, i)
        BY <1>2, <2>1, <4>1, <4>2 DEF Acked
      <4>4. AckFits(F, n, s1, r) /\ AppendOK(F, r) /\ r.match >= i /\ r.type = "AppendResponse"
        BY <1>1, <4>3 DEF Fits, Suits, Acks
      <4>5. SameTo(s1.log, F[t], r.match) /\ r.match \in Nat /\ i <= r.match
        BY <2>1, <4>4 DEF AckFits, AppendOK
      <4>6. SameTo(s1.log, F[t], i)
        BY <1>0, <4>5, SameToFacts
      <4> QED
        BY <1>0, <2>1, <4>6
    <3> QED
      BY <3>1, <3>2
  <2>2. CASE ~Own(E, t, i)
    <3>1. v = n /\ t = s1.term /\ s1.role = "leader"
      BY <1>2, <2>2, NewOwn, OwnMoves
    <3>2. i \in Nat /\ i <= Len(F[t]) /\ node'[v].log = F[t]
      BY <1>0, <1>2, <3>1 DEF Own
    <3> QED
      BY <1>0, <3>2, SameToFacts
  <2>3. CASE Acked(v, t, i) /\ Own(E, t, i)
    <3>1. Kept(E, node[v].log, t, i)
      BY <1>1, <2>3 DEF AcksSafe
    <3>2. CASE Dead(t, i)
      BY <1>0, <3>2, DeadMoves
    <3>3. CASE SameTo(node[v].log, E[t], i)
      <4>1. SameTo(node[v].log, F[t], i)
        BY <1>0, <2>3, <3>3, OwnMoves
      <4>2. CASE v # n
        BY <1>0, <4>1, <4>2, MovesFacts
      <4>3. CASE v = n /\ Stays(E, F, n, s1)
        BY <1>0, <4>1, <4>3 DEF Stays
      <4>4. CASE v = n /\ Leads(E, F, n, s1)
        <5>1. s1.log = Append(node[n].log, s1.term)
          BY <4>4 DEF Leads
        <5>2. PICK l \in Seq(Nat) : l = node[n].log
          BY <1>0
        <5>3. PICK k \in Seq(Nat) : k = s1.log
          BY <1>0
        <5>4. Len(k) = Len(l) + 1 /\ Len(l) \in Nat /\ \A j \in 1 .. Len(l) : k[j] = l[j]
          BY <1>0, <5>1, <5>2, <5>3
        <5>5. SameTo(k, F[t], i)
          BY <4>1, <4>4, <5>2, <5>4 DEF SameTo
        <5> QED
          BY <1>0, <4>4, <5>3, <5>5
      <4>5. CASE v = n /\ Grafts(E, F, n, s1)
        <5>1. /\ F = E /\ Led(s1.term)
              /\ SameTo(node[n].log, E[s1.term], i) => SameTo(s1.log, E[s1.term], i)
          BY <4>5 DEF Grafts
        <5>2. t <= s1.term
          <6>1. node[n].term >= t /\ node[n].term \in Nat
            BY <1>0, <1>1, <2>3, <4>5, AckedFacts
          <6> QED
            BY <1>0, <6>1 DEF Moves
        <5>3. CASE t = s1.term
          BY <1>0, <3>3, <4>5, <5>1, <5>3
        <5>4. CASE t < s1.term
          <6>1. Kept(E, E[s1.term], t, i)
            BY <1>0, <1>1, <2>3, <5>1, <5>4 DEF TermsSafe
          <6>2. CASE Dead(t, i)
            BY <1>0, <6>2, DeadMoves
          <6>3. CASE SameTo(E[s1.term], E[t], i)
            <7>1. SameTo(E[t], E[s1.term], i)
              BY <1>0, <6>3, SameToFacts
            <7>2. SameTo(node[n].log, E[s1.term], i)
              BY <1>0, <3>3, <4>5, <7>1, SameToFacts
            <7>3. SameTo(s1.log, E[t], i)
              BY <1>0, <5>1, <6>3, <7>2, SameToFacts
            <7> QED
              BY <1>0, <4>5, <5>1, <7>3
          <6> QED
            BY <6>1, <6>2, <6>3 DEF Kept
        <5> QED
          BY <1>0, <5>2, <5>3, <5>4
      <4> QED
        BY <1>1, <4>2, <4>3, <4>4, <4>5
    <3> QED
      BY <3>1, <3>2, <3>3 DEF Kept
  <2> QED
    BY <1>0, <1>2, <2>1, <2>2, <2>3, AckedMoves
<1>3. \A v \in Server, t \in Nat, i \in Nat : Own(F, t, i)' = Own(F, t, i)
  BY DEF Own
<1> QED
  BY <1>2, <1>3 DEF AcksSafe, Kept

(* The logs stay within their terms, and a leader's counts within its log.  *)
LEMMA NodesMove ==
    ASSUME NEW E, NEW F, NEW n, NEW s1, NEW ms, StepFrom(E, F, n, s1, ms)
    PROVE  \A p \in Server : NodeSafe(node[p])'
<1>0. n \in Server /\ IInv /\ Moves(n, s1, ms) /\ s1.term \in Nat /\ node'[n] = s1
  BY StepFacts
<1>1. (\A p \in Server : NodeSafe(node[p])) /\ NodeFits(n, s1)
  BY DEF StepFrom, Proceeds, Safe
<1>2. \A p \in Server : node[p].term \in Nat
  BY <1>0, MovesFacts
<1>3. ASSUME NEW p \in Server, p # n PROVE NodeSafe(node[p])'
  <2>1. node'[p] = node[p] /\ NodeSafe(node[p])
    BY <1>0, <1>1, <1>3, MovesFacts
  <2>2. ASSUME NEW q \in Server, Counts(node[p], q) PROVE Counts(node[p], q)'
    <3>1. Acked(q, node[p].term, node[p].match[q]) => Acked(q, node[p].term, node[p].match[q])'
      <4>1. PICK t \in Nat : t = node[p].term
        BY <1>2
      <4>2. PICK i : i = node[p].match[q]
        OBVIOUS
      <4>3. Acked(q, t, i) => Acked(q, t, i)'
        BY <1>0, AckedMoves
      <4>4. node'[p].term = t /\ node'[p].match[q] = i
        BY <2>1, <4>1, <4>2
      <4> QED
        BY <4>1, <4>2, <4>3, <4>4 DEF Acked, Acks
    <3> QED
      BY <2>1, <2>2, <3>1 DEF Counts
  <2> QED
    BY <2>1, <2>2 DEF NodeSafe
<1>4. NodeSafe(node[n])'
  <2>1. ASSUME s1.role = "leader", NEW q \in Server PROVE Counts(node[n], q)'
    <3>1. /\ s1.next[q] <= Len(s1.log) + 1 /\ s1.match[q] <= Len(s1.log)
          /\ s1.match[q] = 0 \/ q = n \/ Acked(q, s1.term, s1.match[q])
      BY <1>1, <2>1 DEF NodeFits
    <3>2. <<s1.term, n>> \in leaders'
      BY <1>0, <2>1, MovesFacts
    <3>3. PICK t \in Nat : t = s1.term
      BY <1>0
    <3>4. PICK i : i = s1.match[q]
      OBVIOUS
    <3>5. q = n \/ Acked(q, t, i) => Acked(q, t, i)'
      <4>1. q = n => Acked(q, t, i)'
        BY <3>2, <3>3 DEF Acked
      <4> QED
        BY <1>0, <4>1, AckedMoves
    <3>6. Acked(q, t, i)' => Acked(q, node[n].term, node[n].match[q])'
      BY <1>0, <3>3, <3>4 DEF Acked, Acks
    <3> QED
      BY <1>0, <3>1, <3>3, <3>4, <3>5, <3>6 DEF Counts
  <2> QED
    BY <1>0, <1>1, <2>1 DEF NodeSafe, NodeFits
<1> QED
  BY <1>0, <1>3, <1>4

(* What the log of n has in common with the canonical log of its new term,  *)
(* it keeps.                                                                *)
LEMMA LogMoves ==
    ASSUME NEW E, NEW F, NEW n, NEW s1, NEW ms, StepFrom(E, F, n, s1, ms), NEW i \in Nat,
           SameTo(node[n].log, E[s1.term], i)
    PROVE  SameTo(s1.log, F[s1.term], i)
<1>0. /\ n \in Server /\ s1.term \in Nat /\ s1.log \in Seq(Nat) /\ node[n].log \in Seq(Nat)
      /\ E[s1.term] \in Seq(Nat) /\ F[s1.term] \in Seq(Nat)
      /\ s1.role = "leader" => s1.log = F[s1.term]
  BY StepFacts
<1>1. Stays(E, F, n, s1) \/ Grafts(E, F, n, s1) \/ Leads(E, F, n, s1)
  BY DEF StepFrom, Proceeds
<1>2. CASE Stays(E, F, n, s1)
  BY <1>2 DEF Stays
<1>3. CASE Grafts(E, F, n, s1)
  BY <1>3 DEF Grafts
<1>4. CASE Leads(E, F, n, s1)
  <2>1. s1.log = F[s1.term] /\ s1.log = Append(node[n].log, s1.term)
    BY <1>0, <1>4 DEF Leads
  <2>2. PICK l \in Seq(Nat) : l = node[n].log
    BY <1>0
  <2>3. i <= Len(l)
    BY <2>2 DEF SameTo
  <2>4. PICK k \in Seq(Nat) : k = s1.log
    BY <1>0
  <2>5. i <= Len(k)
    BY <1>0, <2>1, <2>2, <2>3, <2>4
  <2>6. SameTo(k, k, i)
    BY <2>4, <2>5, SameToFacts
  <2> QED
    BY <2>1, <2>4, <2>6
<1> QED
  BY <1>1, <1>2, <1>3, <1>4

(* Logs with the same beginning have the same terms there.                  *)
LEMMA TermAtSame ==
    ASSUME NEW a \in Seq(Nat), NEW b \in Seq(Nat), NEW i \in Nat, SameTo(a, b, Len(a)), i <= Len(a)
    PROVE  i <= Len(b) /\ TermAt(a, i) = TermAt(b, i)
BY DEF SameTo, TermAt

(* Messages under way stay true, and new ones are.                          *)
LEMMA MsgsMove ==
    ASSUME NEW E, NEW F, NEW n, NEW s1, NEW ms, StepFrom(E, F, n, s1, ms)
    PROVE  \A m \in msgs' : MsgSafe(F, m)'
<1>0. /\ n \in Server /\ IInv /\ Moves(n, s1, ms) /\ s1.term \in Nat /\ node'[n] = s1
      /\ \A t \in Nat : E[t] \in Seq(Nat) /\ F[t] \in Seq(Nat) /\ Len(E[t]) \in Nat /\ Len(F[t]) \in Nat
      /\ s1.role = "leader" => s1.log = F[s1.term]
      /\ \A p \in Server : node[p].log \in Seq(Nat) /\ node'[p].log \in Seq(Nat)
  BY StepFacts
<1>1. /\ Stays(E, F, n, s1) \/ Grafts(E, F, n, s1) \/ Leads(E, F, n, s1)
      /\ Candidacy(n, s1) /\ Canonical(E)
      /\ \A m \in msgs : MsgSafe(E, m)
      /\ \A m \in ms : Fits(F, n, s1, m)
  BY DEF StepFrom, Proceeds, Safe
<1>2. /\ \A p \in Server : p # n => node'[p] = node[p]
      /\ \A p \in Server : /\ node[p].term \in Nat /\ node'[p].term \in Nat
                           /\ node'[p].term >= node[p].term
      /\ leaders \subseteq leaders' /\ msgs' = msgs \cup ms
      /\ s1.role = "leader" => <<s1.term, n>> \in leaders'
  BY <1>0, MovesFacts
<1>3. \A t \in Nat : SameTo(E[t], F[t], Len(E[t])) /\ Len(E[t]) <= Len(F[t])
  BY TableMoves DEF Grown, SameTo
<1>4. ASSUME NEW m \in msgs PROVE MsgSafe(F, m)'
  <2>1. MessageOK(m) /\ AppendOK(E, m) /\ MsgSafe(E, m)
    BY <1>0, <1>1, <1>4 DEF IInv, Typed, Canonical
  <2>2. m.from \in Server /\ m.to \in Server /\ m.term \in Nat
    BY <2>1 DEF MessageOK
  <2>3. PICK e \in Seq(Nat) : e = E[m.term]
    BY <1>0, <2>2
  <2>4. PICK f \in Seq(Nat) : f = F[m.term]
    BY <1>0, <2>2
  <2>5. SameTo(e, f, Len(e)) /\ Len(e) <= Len(f) /\ Len(e) \in Nat /\ Len(f) \in Nat
    BY <1>3, <2>2, <2>3, <2>4
  <2>6. ASSUME m.type = "AppendEntries" PROVE AppendSafe(F, m)'
    <3>1. <<m.term, m.from>> \in leaders /\ m.prev <= Len(e) /\ m.prevTerm = TermAt(e, m.prev) /\ m.prev \in Nat
      BY <2>1, <2>3, <2>6 DEF MsgSafe, AppendSafe, AppendOK, PieceOf
    <3>2. m.prev <= Len(f) /\ TermAt(e, m.prev) = TermAt(f, m.prev)
      BY <2>5, <3>1, TermAtSame
    <3> QED
      BY <1>2, <2>4, <3>1, <3>2 DEF AppendSafe
  <2>7. ASSUME m.type = "AppendResponse", m.success PROVE AckSafe(F, m)'
    <3>1. m.match \in Nat /\ AckSafe(E, m)
      BY <2>1, <2>7 DEF MsgSafe, AppendOK
    <3>2. m.match <= Len(f)
      BY <2>3, <2>5, <3>1 DEF AckSafe
    <3>3. CASE node[m.from].term > m.term
      <4>1. node'[m.from].term > m.term
        BY <1>2, <2>2, <3>3
      <4> QED
        BY <2>4, <3>2, <4>1 DEF AckSafe
    <3>4. CASE node[m.from].term = m.term /\ SameTo(node[m.from].log, e, m.match)
      <4>1. CASE m.from # n
        <5>1. node'[m.from] = node[m.from]
          BY <1>2, <2>2, <4>1
        <5>2. SameTo(e, f, m.match)
          BY <2>3, <2>5, <3>1, SameToFacts DEF AckSafe
        <5>3. SameTo(node[m.from].log, f, m.match)
          BY <1>0, <2>2, <3>1, <3>4, <5>2, SameToFacts
        <5> QED
          BY <2>4, <3>2, <3>4, <5>1, <5>3 DEF AckSafe
      <4>2. CASE m.from = n
        <5>1. s1.term > m.term \/ s1.term = m.term
          BY <1>0, <1>2, <2>2, <3>4, <4>2
        <5>2. CASE s1.term > m.term
          BY <1>0, <2>4, <3>2, <4>2, <5>2 DEF AckSafe
        <5>3. CASE s1.term = m.term
          <6>1. SameTo(s1.log, F[s1.term], m.match)
            BY <2>3, <3>1, <3>4, <4>2, <5>3, LogMoves
          <6> QED
            BY <1>0, <2>4, <3>2, <4>2, <5>3, <6>1 DEF AckSafe
        <5> QED
          BY <5>1, <5>2, <5>3
      <4> QED
        BY <4>1, <4>2
    <3> QED
      BY <2>3, <3>1, <3>3, <3>4 DEF AckSafe
  <2>8. ASSUME m.type = "AppendResponse", ~m.success PROVE m.conflict <= Len(F[m.term])
    <3>1. m.conflict \in Nat /\ m.conflict <= Len(e)
      BY <2>1, <2>3, <2>8 DEF MsgSafe, AppendOK
    <3>2. m.conflict <= Len(f)
      BY <2>5, <3>1
    <3> QED
      BY <2>4, <3>2
  <2>9. ASSUME m.type = "RequestVote", ~m.pre PROVE AskSafe(m)'
    <3>1. AskSafe(m)
      BY <2>1, <2>9 DEF MsgSafe
    <3>2. node'[m.from].term >= m.term
      BY <1>2, <2>2, <3>1 DEF AskSafe
    <3>3. ASSUME node'[m.from].role = "candidate", node'[m.from].term = m.term
          PROVE  m.lastIndex = Len(node'[m.from].log) /\ m.lastTerm = LastTerm(node'[m.from].log)
      <4>1. CASE m.from # n
        BY <1>2, <2>2, <3>1, <3>3, <4>1 DEF AskSafe
      <4>2. CASE m.from = n
        <5>1. s1.role = "candidate" /\ s1.term = m.term
          BY <1>0, <3>3, <4>2
        <5>2. node[n].term = m.term
          BY <1>0, <1>2, <2>2, <3>1, <4>2, <5>1 DEF AskSafe
        <5>3. node[n].role = "candidate"
          BY <1>0, <1>1, <5>1, <5>2 DEF Candidacy
        <5>4. s1.log = node[n].log
          BY <1>1, <5>1 DEF Stays, Grafts, Leads
        <5> QED
          BY <1>0, <3>1, <4>2, <5>2, <5>3, <5>4 DEF AskSafe
      <4> QED
        BY <4>1, <4>2
    <3> QED
      BY <3>2, <3>3 DEF AskSafe
  <2>10. ASSUME m.type = "VoteResponse", ~m.pre, m.granted PROVE node'[m.to].term >= m.term
    <3>1. node[m.to].term >= m.term
      BY <2>1, <2>10 DEF MsgSafe
    <3> QED
      BY <1>2, <2>2, <3>1
  <2> QED
    BY <2>6, <2>7, <2>8, <2>9, <2>10 DEF MsgSafe
<1>5. ASSUME NEW m \in ms PROVE MsgSafe(F, m)'
  <2>1. Fits(F, n, s1, m)
    BY <1>1, <1>5
  <2>2. m.from \in Server /\ m.to \in Server /\ m.term \in Nat /\ AppendOK(F, m)
    BY <2>1 DEF Fits, Suits, MessageOK
  <2>6. ASSUME m.type = "AppendEntries" PROVE AppendSafe(F, m)'
    <3>1. AppendFits(n, s1, m)
      BY <2>1, <2>6 DEF Fits, Suits
    <3>2. F[m.term] = s1.log /\ <<m.term, m.from>> \in leaders'
      BY <1>0, <1>2, <3>1 DEF AppendFits
    <3> QED
      BY <3>1, <3>2 DEF AppendSafe, AppendFits
  <2>7. ASSUME m.type = "AppendResponse", m.success PROVE AckSafe(F, m)'
    <3>1. AckFits(F, n, s1, m)
      BY <2>1, <2>7 DEF Fits, Suits
    <3>2. m.from = n /\ m.term = s1.term /\ SameTo(s1.log, F[m.term], m.match)
      BY <3>1 DEF AckFits
    <3>3. m.match <= Len(F[m.term])
      BY <3>2 DEF SameTo
    <3> QED
      BY <1>0, <3>2, <3>3 DEF AckSafe
  <2>8. ASSUME m.type = "AppendResponse", ~m.success PROVE m.conflict <= Len(F[m.term])
    BY <2>1, <2>8 DEF Fits, Suits
  <2>9. ASSUME m.type = "RequestVote", ~m.pre PROVE AskSafe(m)'
    <3>1. AskFits(n, s1, m)
      BY <2>1, <2>9 DEF Fits, Suits
    <3> QED
      BY <1>0, <2>2, <3>1 DEF AskFits, AskSafe
  <2>10. ASSUME m.type = "VoteResponse", ~m.pre, m.granted PROVE node'[m.to].term >= m.term
    <3>1. GrantFits(n, s1, m)
      BY <2>1, <2>10 DEF Fits, Suits
    <3>2. PICK q \in msgs : q.type = "RequestVote" /\ ~q.pre /\ q.from = m.to /\ q.term = m.term
      BY <3>1 DEF GrantFits
    <3>3. AskSafe(q)
      BY <1>1, <3>2 DEF MsgSafe
    <3>4. node[m.to].term >= m.term
      BY <3>2, <3>3 DEF AskSafe
    <3> QED
      BY <1>2, <2>2, <3>4
  <2> QED
    BY <2>6, <2>7, <2>8, <2>9, <2>10 DEF MsgSafe
<1> QED
  BY <1>2, <1>4, <1>5

(* What a log has kept of a term, it has kept after the step.               *)
LEMMA KeptMoves ==
    ASSUME NEW E, NEW F, NEW n, NEW s1, NEW ms, StepFrom(E, F, n, s1, ms), NEW t \in Nat, NEW i \in Nat,
           Own(E, t, i), NEW l \in Seq(Nat), Kept(E, l, t, i)
    PROVE  SameTo(l, F[t], i) \/ Dead(t, i)'
<1>0. n \in Server /\ IInv /\ Moves(n, s1, ms)
  BY StepFacts
<1>1. CASE SameTo(l, E[t], i)
  BY <1>1, OwnMoves
<1>2. CASE Dead(t, i)
  BY <1>0, <1>2, DeadMoves
<1> QED
  BY <1>1, <1>2 DEF Kept

(* A voter is past the terms before the one it voted in: what it had not    *)
(* acknowledged there it never will.                                        *)
LEMMA PastAcks ==
    ASSUME NEW E, NEW F, NEW n, NEW s1, NEW ms, StepFrom(E, F, n, s1, ms), NEW t \in Nat, NEW i \in Nat,
           NEW v \in Server, node'[v].term > t, Own(F, t, i), Acked(v, t, i)'
    PROVE  Own(E, t, i) /\ Acked(v, t, i)
<1>0. n \in Server /\ IInv /\ Moves(n, s1, ms) /\ node'[n] = s1 /\ s1.term \in Nat
  BY StepFacts
<1>1. ~(v = n /\ t = s1.term)
  BY <1>0
<1>2. Acked(v, t, i)
  BY <1>0, <1>1, AckedMoves
<1>3. Own(E, t, i)
  BY <1>1, NewOwn, OwnMoves
<1> QED
  BY <1>2, <1>3

(* A candidate has what its voters acknowledged: the vote was given to a    *)
(* log at least as up to date as the voter's.                               *)
LEMMA VotesMove ==
    ASSUME NEW E, NEW F, NEW n, NEW s1, NEW ms, StepFrom(E, F, n, s1, ms)
    PROVE  VotesSafe(F)'
<1>0. /\ E \in LogTable /\ n \in Server /\ IInv /\ Moves(n, s1, ms) /\ s1.term \in Nat /\ node'[n] = s1
      /\ \A p \in Server : node[p].log \in Seq(Nat)
  BY StepFacts
<1>1. /\ Stays(E, F, n, s1) \/ Grafts(E, F, n, s1) \/ Leads(E, F, n, s1)
      /\ Candidacy(n, s1) /\ Canonical(E) /\ FreshTerms
      /\ TableSafe(E) /\ AcksSafe(E) /\ VotesSafe(E) /\ TermsSafe(E)
      /\ \A m \in msgs : MsgSafe(E, m)
      /\ \A m \in ms : Fits(F, n, s1, m)
      /\ IInv'
  BY DEF StepFrom, Proceeds, Safe
<1>2. /\ \A p \in Server : p # n => node'[p] = node[p]
      /\ \A p \in Server : /\ node[p].term \in Nat /\ node'[p].term \in Nat
                           /\ node'[p].term >= node[p].term
      /\ msgs' = msgs \cup ms
  BY <1>0, MovesFacts
<1>3. \A p \in Server : Follows(E, node[p].log)
  BY <1>1 DEF Canonical, NodeOK
<1>4. ASSUME NEW v \in Server, NEW c \in Server, NEW t \in Nat, NEW i \in Nat,
             node'[c].role = "candidate", Grant(v, node'[c].term, c) \in msgs',
             t < node'[c].term, Own(F, t, i), Acked(v, t, i)'
      PROVE  SameTo(node'[c].log, F[t], i) \/ Dead(t, i)'
  <2>1. PICK u \in Nat : u = node'[c].term
    BY <1>2
  <2>2. node'[v].term >= u
    <3>1. GrantsKept'
      BY <1>1 DEF IInv
    <3>2. VotedFor(v, u, c)'
      BY <1>4, <2>1, <3>1 DEF GrantsKept, Grant
    <3> QED
      BY <1>2, <3>2 DEF VotedFor
  <2>3. Own(E, t, i) /\ Acked(v, t, i)
    <3>1. node'[v].term > t
      BY <1>2, <1>4, <2>1, <2>2
    <3> QED
      BY <1>4, <3>1, PastAcks
  <2>4. CASE Grant(v, u, c) \in msgs
    <3>1. /\ node[c].role = "candidate" /\ node[c].term = u /\ node'[c].log = node[c].log
      <4>1. CASE c # n
        BY <1>2, <1>4, <2>1, <4>1
      <4>2. CASE c = n
        <5>1. node[n].term >= u
          <6>1. /\ Grant(v, u, c).type = "VoteResponse" /\ ~Grant(v, u, c).pre /\ Grant(v, u, c).granted
                /\ Grant(v, u, c).to = c /\ Grant(v, u, c).term = u
            BY DEF Grant
          <6>2. MsgSafe(E, Grant(v, u, c))
            BY <1>1, <2>4
          <6> QED
            BY <4>2, <6>1, <6>2 DEF MsgSafe
        <5>2. s1.role = "candidate" /\ s1.term = u /\ node[n].term = u
          BY <1>0, <1>2, <1>4, <2>1, <4>2, <5>1
        <5>3. node[n].role = "candidate"
          BY <1>0, <1>1, <5>2 DEF Candidacy
        <5>4. s1.log = node[n].log
          BY <1>1, <5>2 DEF Stays, Grafts, Leads
        <5> QED
          BY <1>0, <4>2, <5>2, <5>3, <5>4
      <4> QED
        BY <4>1, <4>2
    <3>2. Kept(E, node[c].log, t, i)
      BY <1>1, <1>4, <2>1, <2>3, <2>4, <3>1 DEF VotesSafe
    <3>3. SameTo(node[c].log, F[t], i) \/ Dead(t, i)'
      BY <1>0, <2>3, <3>2, KeptMoves
    <3> QED
      BY <3>1, <3>3
  <2>5. CASE Grant(v, u, c) \in ms
    <3>1. GrantFits(n, s1, Grant(v, u, c))
      <4>1. Fits(F, n, s1, Grant(v, u, c))
        BY <1>1, <2>5
      <4> QED
        BY <4>1 DEF Fits, Suits, Grant
    <3>2. v = n /\ u = s1.term /\ s1.log = node[n].log
      BY <3>1 DEF GrantFits, Grant
    <3>3. PICK q \in msgs : /\ q.type = "RequestVote" /\ ~q.pre /\ q.from = c /\ q.term = u
                            /\ UpToDate(node[n].log, q.lastIndex, q.lastTerm)
      BY <3>1 DEF GrantFits, Grant
    <3>4. Kept(E, node[n].log, t, i)
      BY <1>0, <1>1, <2>3, <3>2 DEF AcksSafe
    <3>5. CASE c = n
      <4>1. SameTo(node[n].log, F[t], i) \/ Dead(t, i)'
        BY <1>0, <2>3, <3>4, KeptMoves
      <4> QED
        BY <1>0, <3>2, <3>5, <4>1
    <3>6. CASE c # n
      <4>1. node'[c] = node[c]
        BY <1>2, <3>6
      <4>2. AskSafe(q)
        BY <1>1, <3>3 DEF MsgSafe
      <4>3. q.lastIndex = Len(node[c].log) /\ q.lastTerm = LastTerm(node[c].log)
        BY <1>4, <2>1, <3>3, <4>1, <4>2 DEF AskSafe
      <4>4. PICK l : l = node[n].log /\ Follows(E, l)
        BY <1>0, <1>3
      <4>5. PICK k \in Seq(Nat) : k = node[c].log /\ Follows(E, k)
        BY <1>0, <1>3
      <4>6. UpToDate(l, Len(k), LastTerm(k))
        BY <3>3, <4>3, <4>4, <4>5
      <4>7. Kept(E, k, t, i)
        <5>1. CASE Dead(t, i)
          BY <5>1 DEF Kept
        <5>2. CASE SameTo(l, E[t], i)
          BY <1>0, <1>1, <2>3, <4>4, <4>5, <4>6, <5>2, UpToDateKeeps
        <5> QED
          BY <3>4, <4>4, <5>1, <5>2 DEF Kept
      <4>8. SameTo(k, F[t], i) \/ Dead(t, i)'
        BY <2>3, <4>7, KeptMoves
      <4> QED
        BY <4>1, <4>5, <4>8
    <3> QED
      BY <3>5, <3>6
  <2> QED
    BY <1>2, <1>4, <2>1, <2>4, <2>5
<1>5. \A v, c \in Server, t \in Nat, i \in Nat :
         /\ Own(F, t, i)' = Own(F, t, i)
         /\ Grant(v, node[c].term, c)' = Grant(v, node'[c].term, c)
  BY DEF Own, Grant
<1> QED
  BY <1>4, <1>5 DEF VotesSafe, Kept

(* Whoever has led a later term had a quorum's votes, and the voters are    *)
(* past the earlier terms.                                                  *)
PastQuorum(t) == \E Q \in SUBSET Server : HasQuorum(Q) /\ \A v \in Q : node[v].term > t

TermsPassed == \A t \in Nat, u \in Nat : t < u /\ Led(u) => PastQuorum(t)

(* Terms passed by a quorum, from the votes of a leader.                    *)
LEMMA LedPast == IInv => TermsPassed
<1> SUFFICES ASSUME IInv, NEW t \in Nat, NEW u \in Nat, t < u, Led(u) PROVE PastQuorum(t)
  BY DEF TermsPassed
<1>1. PICK m \in Server : <<u, m>> \in leaders
  BY DEF Led
<1>2. PICK Q \in SUBSET Server : HasQuorum(Q) /\ Supports(msgs, Q, u, m)
  BY <1>1 DEF IInv, LeadersElected
<1>3. VotedFor(m, u, m)
  BY <1>1 DEF IInv, LeadersElected
<1>4. ASSUME NEW v \in Q PROVE node[v].term > t
  <2>1. VotedFor(v, u, m)
    BY <1>1, <1>2, <1>3 DEF Supports, IInv, GrantsKept
  <2>2. node[v].term \in Nat
    BY <1>4, ShapeHere DEF Shape
  <2> QED
    BY <2>1, <2>2 DEF VotedFor
<1> QED
  BY <1>2, <1>4 DEF PastQuorum

(* A new leader has every entry of an earlier term that is not dead: a      *)
(* quorum voted for it, and whoever of that quorum acknowledged the entry   *)
(* had it.                                                                  *)
LEMMA TermsMove ==
    ASSUME NEW E, NEW F, NEW n, NEW s1, NEW ms, StepFrom(E, F, n, s1, ms)
    PROVE  TermsSafe(F)'
<1>0. /\ E \in LogTable /\ n \in Server /\ IInv /\ Moves(n, s1, ms) /\ s1.term \in Nat /\ node'[n] = s1
      /\ \A p \in Server : node[p].log \in Seq(Nat)
      /\ \A t \in Nat : E[t] \in Seq(Nat) /\ F[t] \in Seq(Nat) /\ Len(E[t]) \in Nat /\ Len(F[t]) \in Nat
      /\ s1.role = "leader" => s1.log = F[s1.term]
      /\ s1.log \in Seq(Nat)
  BY StepFacts
<1>1. /\ Stays(E, F, n, s1) \/ Grafts(E, F, n, s1) \/ Leads(E, F, n, s1)
      /\ AcksSafe(E) /\ VotesSafe(E) /\ TermsSafe(E)
      /\ IInv'
  BY DEF StepFrom, Proceeds, Safe
<1>2. /\ \A p \in Server : p # n => node'[p] = node[p]
      /\ \A p \in Server : /\ node[p].term \in Nat /\ node'[p].term \in Nat
                           /\ node'[p].term >= node[p].term
      /\ leaders' = IF s1.role = "leader" THEN leaders \cup {<<s1.term, n>>} ELSE leaders
  BY <1>0, MovesFacts
<1>3. ASSUME NEW t \in Nat, NEW u \in Nat, NEW i \in Nat, t < u, Led(u)', Own(F, t, i)
      PROVE  SameTo(F[u], F[t], i) \/ Dead(t, i)'
  <2>1. CASE ~Own(E, t, i)
    <3>1. t = s1.term /\ s1.role = "leader"
      BY <1>3, <2>1, OwnMoves
    <3>2. PICK Q \in SUBSET Server : HasQuorum(Q) /\ \A v \in Q : node'[v].term > t
      <4>0. IInv'
        BY <1>1
      <4>1. TermsPassed'
        BY <4>0, LedPast, PTL
      <4>2. PastQuorum(t)'
        BY <1>3, <4>1 DEF TermsPassed
      <4> QED
        BY <4>2 DEF PastQuorum, HasQuorum
    <3>3. \A v \in Q : ~Acked(v, t, i)'
      BY <1>3, <2>1, <3>2, PastAcks
    <3> QED
      BY <3>2, <3>3 DEF Dead, HasQuorum
  <2>2. CASE Own(E, t, i) /\ Led(u)
    <3>1. Kept(E, E[u], t, i)
      BY <1>1, <1>3, <2>2 DEF TermsSafe
    <3>2. SameTo(E[u], F[t], i) \/ Dead(t, i)'
      BY <1>0, <2>2, <3>1, KeptMoves
    <3>3. SameTo(E[u], F[u], Len(E[u]))
      BY TableMoves DEF Grown
    <3>4. PICK e \in Seq(Nat) : e = E[u]
      BY <1>0
    <3>5. PICK f \in Seq(Nat) : f = F[u]
      BY <1>0
    <3>6. PICK g \in Seq(Nat) : g = F[t]
      BY <1>0
    <3>7. SameTo(e, g, i) => SameTo(f, g, i)
      BY <3>3, <3>4, <3>5 DEF SameTo
    <3> QED
      BY <3>2, <3>4, <3>5, <3>6, <3>7
  <2>3. CASE Own(E, t, i) /\ ~Led(u)
    <3>1. s1.role = "leader" /\ u = s1.term /\ <<u, n>> \notin leaders
      <4>1. PICK m \in Server : <<u, m>> \in leaders'
        BY <1>3 DEF Led
      <4>2. <<u, m>> \notin leaders /\ <<u, n>> \notin leaders
        BY <1>0, <2>3 DEF Led
      <4> QED
        BY <1>2, <4>1, <4>2
    <3>2. ~(node[n].role = "leader" /\ node[n].term = u)
      BY <1>0, <3>1 DEF IInv, LeadersRecorded
    <3>3. s1.log = Append(node[n].log, s1.term) /\ Wins(n, u)
      BY <1>1, <3>1, <3>2 DEF Stays, Grafts, Leads
    <3>4. PICK Q \in SUBSET Server :
            /\ HasQuorum(Q)
            /\ \A v \in Q : \/ v = n
                            \/ /\ Grant(v, u, n) \in msgs
                               /\ node[n].role = "candidate" /\ node[n].term = u
      BY <3>3 DEF Wins
    <3>5. CASE \E v \in Q : Acked(v, t, i)
      <4>1. PICK v \in Q : Acked(v, t, i)
        BY <3>5
      <4>2. Kept(E, node[n].log, t, i)
        <5>1. CASE v = n
          BY <1>0, <1>1, <2>3, <4>1, <5>1 DEF AcksSafe
        <5>2. CASE v # n
          BY <1>0, <1>1, <1>3, <2>3, <3>4, <4>1, <5>2 DEF VotesSafe
        <5> QED
          BY <5>1, <5>2
      <4>3. PICK l \in Seq(Nat) : l = node[n].log
        BY <1>0
      <4>4. SameTo(l, F[t], i) \/ Dead(t, i)'
        BY <2>3, <4>2, <4>3, KeptMoves
      <4>5. PICK k \in Seq(Nat) : k = F[u] /\ k = Append(l, s1.term)
        BY <1>0, <3>1, <3>3, <4>3
      <4>6. Len(k) = Len(l) + 1 /\ Len(l) \in Nat /\ \A j \in 1 .. Len(l) : k[j] = l[j]
        BY <1>0, <4>5
      <4>7. SameTo(l, F[t], i) => SameTo(k, F[t], i)
        BY <4>6 DEF SameTo
      <4> QED
        BY <4>4, <4>5, <4>7
    <3>6. CASE \A v \in Q : ~Acked(v, t, i)
      <4>1. ASSUME NEW v \in Q PROVE node'[v].term > t /\ ~Acked(v, t, i)'
        <5>1. v \in Server /\ ~Acked(v, t, i)
          BY <3>6
        <5>2. node'[v].term >= u
          <6>1. CASE v = n
            BY <1>0, <3>1, <6>1
          <6>2. CASE Grant(v, u, n) \in msgs
            <7>1. VotedFor(v, u, n)
              BY <1>0, <5>1, <6>2 DEF IInv, GrantsKept
            <7> QED
              BY <1>2, <5>1, <7>1 DEF VotedFor
          <6> QED
            BY <3>4, <6>1, <6>2
        <5>3. node'[v].term > t
          BY <1>2, <1>3, <5>1, <5>2
        <5> QED
          BY <1>3, <5>1, <5>3, PastAcks
      <4> QED
        BY <3>4, <4>1 DEF Dead, HasQuorum
    <3> QED
      BY <3>5, <3>6
  <2> QED
    BY <2>1, <2>2, <2>3
<1>4. \A t \in Nat, i \in Nat : Own(F, t, i)' = Own(F, t, i)
  BY DEF Own
<1> QED
  BY <1>3, <1>4 DEF TermsSafe, Kept

(* A step of the kinds above keeps the whole of the invariant.              *)
LEMMA SafeStep ==
    ASSUME NEW E, NEW F, NEW n, NEW s1, NEW ms, StepFrom(E, F, n, s1, ms)
    PROVE  Safe(F)'
<1>1. TableSafe(F)'
  BY TableMoves DEF TableSafe
<1>2. /\ \A p \in Server : NodeSafe(node[p])'
      /\ \A m \in msgs' : MsgSafe(F, m)'
      /\ AcksSafe(F)' /\ VotesSafe(F)' /\ TermsSafe(F)'
  BY NodesMove, MsgsMove, AcksMove, VotesMove, TermsMove
<1> QED
  BY <1>1, <1>2 DEF Safe

-----------------------------------------------------------------------------
(* A quorum has acknowledged entry i of term t, with all before it.         *)
Decided(E, t, i) ==
    Own(E, t, i) /\ \E Q \in SUBSET Server : HasQuorum(Q) /\ \A p \in Q : Acked(p, t, i)

(* The log l has what was decided up to c, in term u or before.             *)
Settled(E, l, u, c) ==
    c = 0 \/ \E t \in Nat, i \in Nat : t <= u /\ c <= i /\ Decided(E, t, i) /\ SameTo(l, E[t], c)

NodeSettled(E, s) ==
    /\ s.commit \in Nat /\ s.applied \in Seq(Nat) /\ Len(s.applied) = s.commit
    /\ SameTo(s.applied, s.log, s.commit)
    /\ Settled(E, s.log, s.term, s.commit)

MsgSettled(E, m) ==
    m.type = "AppendEntries" => m.commit \in Nat /\ Settled(E, E[m.term], m.term, m.commit)

Commits(E) ==
    /\ \A n \in Server : NodeSettled(E, node[n])
    /\ \A m \in msgs : MsgSettled(E, m)

(* How a step may commit: not at all, what the leader of the term says is   *)
(* committed and n has, or what n as leader counts a quorum for.            *)
Told(E, s1) ==
    /\ SameTo(s1.log, E[s1.term], s1.commit)
    /\ \E m \in msgs : m.type = "AppendEntries" /\ m.term = s1.term /\ s1.commit <= m.commit

Tallied(n, s1) ==
    /\ s1.role = "leader" /\ s1.commit <= Len(s1.log) /\ s1.log[s1.commit] = s1.term
    /\ \E Q \in SUBSET Server : HasQuorum(Q) /\ \A p \in Q : p = n \/ Acked(p, s1.term, s1.commit)

CommitFits(E, n, s1) ==
    \/ s1.commit = node[n].commit /\ s1.applied = node[n].applied
    \/ /\ s1.commit \in Nat /\ s1.commit > node[n].commit
       /\ s1.applied = node[n].applied \o SubSeq(s1.log, Len(node[n].applied) + 1, s1.commit)
       /\ Told(E, s1) \/ Tallied(n, s1)

Tells(s1, ms) == \A m \in ms : m.type = "AppendEntries" => m.commit = s1.commit

-----------------------------------------------------------------------------
(* What a quorum acknowledged is not dead: two quorums meet.                *)
LEMMA DecidedAlive ==
    ASSUME NEW E, NEW t, NEW i, Decided(E, t, i)
    PROVE  ~Dead(t, i)
<1> SUFFICES ASSUME Dead(t, i) PROVE FALSE
  OBVIOUS
<1>1. PICK P \in SUBSET Server : HasQuorum(P) /\ \A p \in P : Acked(p, t, i)
  BY DEF Decided
<1>2. PICK Q \in SUBSET Server : HasQuorum(Q) /\ \A p \in Q : ~Acked(p, t, i)
  BY DEF Dead
<1>3. P \cap Q # {}
  BY <1>1, <1>2, QuorumsMeet
<1> QED
  BY <1>1, <1>2, <1>3

(* What was decided stays decided.                                          *)
LEMMA DecidedMoves ==
    ASSUME NEW E, NEW F, NEW n, NEW s1, NEW ms, StepFrom(E, F, n, s1, ms), NEW t \in Nat, NEW i \in Nat,
           Decided(E, t, i)
    PROVE  Decided(F, t, i)'
<1>0. n \in Server /\ IInv /\ Moves(n, s1, ms)
  BY StepFacts
<1>1. PICK Q \in SUBSET Server : HasQuorum(Q) /\ \A p \in Q : Acked(p, t, i)
  BY DEF Decided
<1>2. \A p \in Q : Acked(p, t, i)'
  BY <1>0, <1>1, AckedMoves
<1>3. Own(F, t, i)
  BY OwnMoves DEF Decided
<1> QED
  BY <1>1, <1>2, <1>3 DEF Decided, Own, HasQuorum

(* A log that has what was decided has it after the step.                   *)
LEMMA SettledMoves ==
    ASSUME NEW E, NEW F, NEW n, NEW s1, NEW ms, StepFrom(E, F, n, s1, ms), NEW l \in Seq(Nat),
           NEW u, NEW c \in Nat, Settled(E, l, u, c)
    PROVE  Settled(F, l, u, c)'
<1>1. CASE c = 0
  BY <1>1 DEF Settled
<1>2. CASE c # 0
  <2>1. PICK t \in Nat, i \in Nat : t <= u /\ c <= i /\ Decided(E, t, i) /\ SameTo(l, E[t], c)
    BY <1>2 DEF Settled
  <2>2. Decided(F, t, i)'
    BY <2>1, DecidedMoves
  <2>3. E[t] \in Seq(Nat) /\ F[t] \in Seq(Nat) /\ Len(E[t]) \in Nat
    BY StepFacts
  <2>4. SameTo(E[t], F[t], Len(E[t]))
    BY TableMoves DEF Grown
  <2>5. c <= Len(E[t])
    BY <2>1 DEF SameTo
  <2>6. SameTo(E[t], F[t], c)
    BY <2>3, <2>4, <2>5, SameToFacts
  <2>7. SameTo(l, F[t], c)
    BY <2>1, <2>3, <2>6, SameToFacts
  <2> QED
    BY <2>1, <2>2, <2>7 DEF Settled
<1> QED
  BY <1>1, <1>2

(* What n has settled stays in its log, whatever the step puts there.       *)
LEMMA SettledStays ==
    ASSUME NEW E, NEW F, NEW n, NEW s1, NEW ms, StepFrom(E, F, n, s1, ms), NEW c \in Nat,
           c <= Len(node[n].log), Settled(E, node[n].log, node[n].term, c)
    PROVE  SameTo(s1.log, node[n].log, c) /\ Settled(F, s1.log, s1.term, c)'
<1>0. /\ n \in Server /\ IInv /\ Moves(n, s1, ms) /\ s1.term \in Nat /\ s1.log \in Seq(Nat)
      /\ \A t \in Nat : E[t] \in Seq(Nat) /\ F[t] \in Seq(Nat) /\ Len(E[t]) \in Nat /\ Len(F[t]) \in Nat
      /\ node[n].log \in Seq(Nat)
  BY StepFacts
<1>1. /\ Stays(E, F, n, s1) \/ Grafts(E, F, n, s1) \/ Leads(E, F, n, s1)
      /\ TermsSafe(E)
  BY DEF StepFrom, Proceeds, Safe
<1>2. node[n].term \in Nat /\ node[n].term <= s1.term
  BY <1>0, MovesFacts
<1>3. PICK l \in Seq(Nat) : l = node[n].log
  BY <1>0
<1>4. PICK k \in Seq(Nat) : k = s1.log
  BY <1>0
<1>5. c <= Len(l) /\ Settled(E, l, node[n].term, c)
  BY <1>3
<1>6. SameTo(k, l, c)
  <2>1. CASE Stays(E, F, n, s1)
    BY <1>3, <1>4, <1>5, <2>1, SameToFacts DEF Stays
  <2>2. CASE Leads(E, F, n, s1)
    <3>1. k = Append(l, s1.term)
      BY <1>3, <1>4, <2>2 DEF Leads
    <3> QED
      BY <1>0, <1>5, <3>1 DEF SameTo
  <2>3. CASE Grafts(E, F, n, s1) /\ c # 0
    <3>1. PICK t \in Nat, i \in Nat : t <= node[n].term /\ c <= i /\ Decided(E, t, i) /\ SameTo(l, E[t], c)
      BY <1>5, <2>3 DEF Settled
    <3>2. Led(s1.term) /\ (SameTo(l, E[s1.term], c) => SameTo(k, E[s1.term], c))
      BY <1>3, <1>4, <2>3 DEF Grafts
    <3>3. PICK e \in Seq(Nat) : e = E[t]
      BY <1>0
    <3>4. PICK f \in Seq(Nat) : f = E[s1.term]
      BY <1>0
    <3>5. SameTo(f, e, c)
      <4>1. CASE t = s1.term
        <5>1. c <= Len(e)
          BY <3>1, <3>3 DEF SameTo
        <5> QED
          BY <3>3, <3>4, <4>1, <5>1, SameToFacts
      <4>2. CASE t < s1.term
        <5>1. Kept(E, f, t, i)
          BY <1>0, <1>1, <3>1, <3>2, <3>4, <4>2 DEF TermsSafe, Decided
        <5>2. SameTo(f, e, i)
          BY <3>1, <3>3, <5>1, DecidedAlive DEF Kept
        <5> QED
          BY <3>1, <5>2, SameToFacts
      <4>3. t <= node[n].term /\ node[n].term \in Nat /\ node[n].term <= s1.term /\ s1.term \in Nat
        BY <1>0, <1>2, <3>1
      <4>4. t = s1.term \/ t < s1.term
        BY ONLY <4>3, t \in Nat
      <4> QED
        BY <4>1, <4>2, <4>4
    <3>6. SameTo(e, f, c)
      BY <3>5, SameToFacts
    <3>7. SameTo(l, f, c)
      BY <3>1, <3>3, <3>6, SameToFacts
    <3>8. SameTo(k, f, c) /\ SameTo(f, l, c)
      BY <3>2, <3>4, <3>7, SameToFacts
    <3> QED
      BY <3>8, SameToFacts
  <2>4. CASE c = 0
    BY <2>4 DEF SameTo
  <2> QED
    BY <1>1, <2>1, <2>2, <2>3, <2>4
<1>7. Settled(E, k, s1.term, c)
  <2>1. CASE c = 0
    BY <2>1 DEF Settled
  <2>2. CASE c # 0
    <3>1. PICK t \in Nat, i \in Nat : t <= node[n].term /\ c <= i /\ Decided(E, t, i) /\ SameTo(l, E[t], c)
      BY <1>5, <2>2 DEF Settled
    <3>2. t <= s1.term
      BY <1>0, <1>2, <3>1
    <3>3. SameTo(k, E[t], c)
      BY <1>0, <1>6, <3>1, SameToFacts
    <3> QED
      BY <3>1, <3>2, <3>3 DEF Settled
  <2> QED
    BY <2>1, <2>2
<1>8. Settled(F, k, s1.term, c)'
  BY <1>7, SettledMoves
<1> QED
  BY <1>3, <1>4, <1>6, <1>8

(* on_apply() gets the entries after the last applied one.                  *)
LEMMA AppliedGrows ==
    ASSUME NEW a \in Seq(Nat), NEW l \in Seq(Nat), NEW c \in Nat, Len(a) < c, c <= Len(l),
           SameTo(a, l, Len(a))
    PROVE  LET b == a \o SubSeq(l, Len(a) + 1, c)
           IN b \in Seq(Nat) /\ Len(b) = c /\ SameTo(b, l, c)
<1>1. PICK i \in 1 .. Len(l) : i = Len(a) + 1
  OBVIOUS
<1>2. PICK d : d = SubSeq(l, i, c)
  OBVIOUS
<1>3. i <= c
  BY <1>1
<1>4. /\ d \in Seq(Nat) /\ Len(d) = c - i + 1
      /\ \A j \in 1 .. c - i + 1 : d[j] = l[i + j - 1]
  BY ONLY <1>2, <1>3, l \in Seq(Nat), c \in Nat, c <= Len(l), i \in 1 .. Len(l), RestOf
<1>5. PICK b : b = a \o d
  OBVIOUS
<1>6. /\ b \in Seq(Nat) /\ Len(b) = Len(a) + Len(d)
      /\ \A j \in 1 .. Len(b) : b[j] = IF j <= Len(a) THEN a[j] ELSE d[j - Len(a)]
  BY <1>4, <1>5, Joined
<1>7. Len(b) = c
  BY <1>1, <1>4, <1>6
<1>8. ASSUME NEW j \in 1 .. c PROVE b[j] = l[j]
  <2>1. CASE j <= Len(a)
    <3>1. j \in 1 .. Len(a) /\ j \in 1 .. Len(b)
      BY <1>7, <2>1
    <3>2. a[j] = l[j]
      BY <3>1 DEF SameTo
    <3> QED
      BY <1>6, <2>1, <3>1, <3>2
  <2>2. CASE j > Len(a)
    <3>1. j - Len(a) \in 1 .. c - i + 1 /\ i + (j - Len(a)) - 1 = j
      BY <1>1, <2>2
    <3>2. d[j - Len(a)] = l[j]
      BY <1>4, <3>1
    <3>3. j \in 1 .. Len(b) /\ ~(j <= Len(a))
      BY <1>7, <2>2
    <3>4. b[j] = d[j - Len(a)]
      BY ONLY <1>6, <3>3
    <3> QED
      BY ONLY <3>2, <3>4
  <2> QED
    BY <2>1, <2>2
<1>9. SameTo(b, l, c)
  BY <1>6, <1>7, <1>8 DEF SameTo
<1> QED
  BY <1>1, <1>2, <1>5, <1>6, <1>7, <1>9

(* A step that commits what was told or tallied keeps the commits.          *)
LEMMA CommitsMove ==
    ASSUME NEW E, NEW F, NEW n, NEW s1, NEW ms, StepFrom(E, F, n, s1, ms), Commits(E),
           CommitFits(E, n, s1), Tells(s1, ms)
    PROVE  Commits(F)'
<1>0. /\ n \in Server /\ IInv /\ Moves(n, s1, ms) /\ s1.term \in Nat /\ s1.log \in Seq(Nat)
      /\ \A t \in Nat : E[t] \in Seq(Nat) /\ F[t] \in Seq(Nat) /\ Len(E[t]) \in Nat /\ Len(F[t]) \in Nat
      /\ \A p \in Server : node[p].log \in Seq(Nat)
      /\ s1.role = "leader" => s1.log = F[s1.term]
      /\ node'[n] = s1
  BY StepFacts
<1>2. /\ \A p \in Server : p # n => node'[p] = node[p]
      /\ msgs' = msgs \cup ms
      /\ s1.role = "leader" => <<s1.term, n>> \in leaders'
      /\ \A p \in Server : node[p].term \in Nat
  BY <1>0, MovesFacts
<1>3. ASSUME NEW p \in Server, p # n PROVE NodeSettled(F, node[p])'
  <2>1. NodeSettled(E, node[p]) /\ node'[p] = node[p]
    BY <1>2, <1>3 DEF Commits
  <2>2. PICK l \in Seq(Nat) : l = node[p].log
    BY <1>0
  <2>3. PICK u : u = node[p].term
    OBVIOUS
  <2>4. PICK c \in Nat : c = node[p].commit
    BY <2>1 DEF NodeSettled
  <2>5. Settled(E, l, u, c)
    BY <2>1, <2>2, <2>3, <2>4 DEF NodeSettled
  <2>6. Settled(F, l, u, c)'
    BY <2>5, SettledMoves
  <2>7. Settled(F, node[p].log, node[p].term, node[p].commit)'
    BY <2>1, <2>2, <2>3, <2>4, <2>6
  <2> QED
    BY <2>1, <2>7 DEF NodeSettled
<1>4. NodeSettled(F, node[n])'
  <2>1. NodeSettled(E, node[n])
    BY <1>0 DEF Commits
  <2>2. PICK c \in Nat : c = node[n].commit
    BY <2>1 DEF NodeSettled
  <2>3. PICK a \in Seq(Nat) : a = node[n].applied
    BY <2>1 DEF NodeSettled
  <2>4. PICK l \in Seq(Nat) : l = node[n].log
    BY <1>0
  <2>5. PICK k \in Seq(Nat) : k = s1.log
    BY <1>0
  <2>6. Len(a) = c /\ SameTo(a, l, c) /\ Settled(E, l, node[n].term, c)
    BY <2>1, <2>2, <2>3, <2>4 DEF NodeSettled
  <2>7. c <= Len(l)
    BY <2>6 DEF SameTo
  <2>8. SameTo(k, l, c) /\ Settled(F, k, s1.term, c)'
    BY <2>4, <2>5, <2>6, <2>7, SettledStays
  <2>9. SameTo(a, k, c)
    <3>1. SameTo(l, k, c)
      BY <2>8, SameToFacts
    <3> QED
      BY <2>6, <3>1, SameToFacts
  <2>10. CASE s1.commit = node[n].commit /\ s1.applied = node[n].applied
    BY <1>0, <2>2, <2>3, <2>5, <2>6, <2>8, <2>9, <2>10 DEF NodeSettled
  <2>11. CASE /\ s1.commit \in Nat /\ s1.commit > node[n].commit
              /\ s1.applied = node[n].applied \o SubSeq(s1.log, Len(node[n].applied) + 1, s1.commit)
              /\ Told(E, s1) \/ Tallied(n, s1)
    <3>1. PICK d \in Nat : d = s1.commit
      BY <2>11
    <3>2. d > c /\ s1.applied = a \o SubSeq(k, Len(a) + 1, d)
      BY <2>2, <2>3, <2>5, <2>11, <3>1
    <3>3. d <= Len(k) /\ Settled(F, k, s1.term, d)'
      <4>1. CASE Told(E, s1)
        <5>1. PICK m \in msgs : m.type = "AppendEntries" /\ m.term = s1.term /\ d <= m.commit
          BY <3>1, <4>1 DEF Told
        <5>2. m.commit \in Nat /\ Settled(E, E[s1.term], s1.term, m.commit)
          BY <5>1 DEF Commits, MsgSettled
        <5>3. PICK e \in Seq(Nat) : e = E[s1.term]
          BY <1>0
        <5>4. SameTo(k, e, d)
          BY <2>5, <3>1, <4>1, <5>3 DEF Told
        <5>5. m.commit # 0
          BY <2>2, <3>2, <5>1, <5>2
        <5>6. PICK t \in Nat, i \in Nat : /\ t <= s1.term /\ m.commit <= i /\ Decided(E, t, i)
                                          /\ SameTo(e, E[t], m.commit)
          BY <5>2, <5>3, <5>5 DEF Settled
        <5>7. d <= i
          BY <5>1, <5>2, <5>6
        <5>8. SameTo(e, E[t], d)
          BY <1>0, <5>1, <5>2, <5>6, SameToFacts
        <5>9. SameTo(k, E[t], d)
          BY <1>0, <5>4, <5>8, SameToFacts
        <5>10. Settled(E, k, s1.term, d)
          BY <5>6, <5>7, <5>9 DEF Settled
        <5>11. d <= Len(k)
          BY <5>4 DEF SameTo
        <5> QED
          BY <5>10, <5>11, SettledMoves
      <4>2. CASE Tallied(n, s1)
        <5>1. /\ s1.role = "leader" /\ d <= Len(k) /\ k[d] = s1.term
              /\ \E Q \in SUBSET Server : HasQuorum(Q) /\ \A p \in Q : p = n \/ Acked(p, s1.term, d)
          BY <2>5, <3>1, <4>2 DEF Tallied
        <5>2. PICK u \in Nat : u = s1.term
          BY <1>0
        <5>3. F[u] = k
          BY <1>0, <2>5, <5>1, <5>2
        <5>4. Own(F, u, d)'
          <6>1. d \in 1 .. Len(k)
            BY <2>2, <3>2, <5>1
          <6> QED
            BY <5>1, <5>2, <5>3, <6>1 DEF Own
        <5>5. PICK Q \in SUBSET Server : HasQuorum(Q) /\ \A p \in Q : p = n \/ Acked(p, u, d)
          BY <5>1, <5>2
        <5>6. \A p \in Q : Acked(p, u, d)'
          <6>1. Acked(n, u, d)'
            BY <1>2, <5>1, <5>2 DEF Acked
          <6> QED
            BY <1>0, <5>5, <6>1, AckedMoves
        <5>7. Decided(F, u, d)'
          BY <5>4, <5>5, <5>6 DEF Decided, HasQuorum
        <5>8. SameTo(k, F[u], d)
          BY <5>1, <5>3, SameToFacts
        <5>9. Settled(F, k, u, d)'
          <6>1. u <= u /\ d <= d
            OBVIOUS
          <6> QED
            BY <5>7, <5>8, <6>1 DEF Settled
        <5> QED
          BY <5>1, <5>2, <5>9
      <4> QED
        BY <2>11, <4>1, <4>2
    <3>4. PICK b : b = s1.applied
      OBVIOUS
    <3>5. b \in Seq(Nat) /\ Len(b) = d /\ SameTo(b, k, d)
      <4>1. Len(a) < d /\ d <= Len(k) /\ SameTo(a, k, Len(a))
        BY <2>6, <2>9, <3>2, <3>3
      <4>2. b = a \o SubSeq(k, Len(a) + 1, d)
        BY <3>2, <3>4
      <4> QED
        BY ONLY a \in Seq(Nat), k \in Seq(Nat), d \in Nat, <4>1, <4>2, AppliedGrows
    <3> QED
      BY <1>0, <2>5, <3>1, <3>3, <3>4, <3>5 DEF NodeSettled
  <2> QED
    BY <2>10, <2>11 DEF CommitFits
<1>5. ASSUME NEW m \in msgs PROVE MsgSettled(F, m)'
  <2>1. MsgSettled(E, m) /\ m.term \in Nat
    BY <1>0, MessageHere DEF Commits
  <2>2. ASSUME m.type = "AppendEntries" PROVE m.commit \in Nat /\ Settled(F, F[m.term], m.term, m.commit)'
    <3>1. m.commit \in Nat /\ Settled(E, E[m.term], m.term, m.commit)
      BY <2>1, <2>2 DEF MsgSettled
    <3>2. Settled(F, E[m.term], m.term, m.commit)'
      BY <1>0, <2>1, <3>1, SettledMoves
    <3>3. SameTo(E[m.term], F[m.term], Len(E[m.term]))
      BY <2>1, TableMoves DEF Grown
    <3>4. PICK e \in Seq(Nat) : e = E[m.term]
      BY <1>0, <2>1
    <3>5. PICK f \in Seq(Nat) : f = F[m.term]
      BY <1>0, <2>1
    <3>6. PICK c \in Nat : c = m.commit
      BY <3>1
    <3>7. CASE c = 0
      BY <3>6, <3>7 DEF Settled
    <3>8. CASE c # 0
      <4>1. PICK t \in Nat, i \in Nat : /\ t <= m.term /\ c <= i /\ Decided(F, t, i)' /\ SameTo(e, F[t], c)
        BY <3>2, <3>4, <3>6, <3>8 DEF Settled
      <4>2. SameTo(f, F[t], c)
        BY <3>3, <3>4, <3>5, <4>1 DEF SameTo
      <4>3. Settled(F, f, m.term, c)'
        BY <4>1, <4>2 DEF Settled
      <4> QED
        BY <3>5, <3>6, <4>3
    <3> QED
      BY <3>7, <3>8
  <2> QED
    BY <2>2 DEF MsgSettled
<1>6. ASSUME NEW m \in ms PROVE MsgSettled(F, m)'
  <2>1. ASSUME m.type = "AppendEntries" PROVE m.commit \in Nat /\ Settled(F, F[m.term], m.term, m.commit)'
    <3>1. AppendFits(n, s1, m)
      BY <1>6, <2>1 DEF StepFrom, Proceeds, Fits, Suits
    <3>2. m.term = s1.term /\ F[m.term] = s1.log /\ m.commit = s1.commit
      BY <1>0, <1>6, <2>1, <3>1 DEF AppendFits, Tells
    <3>3. s1.commit \in Nat /\ Settled(F, s1.log, s1.term, s1.commit)'
      BY <1>0, <1>4 DEF NodeSettled
    <3> QED
      BY <3>2, <3>3
  <2> QED
    BY <2>1 DEF MsgSettled
<1> QED
  BY <1>0, <1>2, <1>3, <1>4, <1>5, <1>6 DEF Commits

-----------------------------------------------------------------------------
(* What is known around a step, and what is to be shown of it.              *)
Between(E, F) ==
    /\ IInv /\ IInv' /\ FreshTerms /\ FreshTerms'
    /\ E \in LogTable /\ F \in LogTable /\ Canonical(E) /\ Canonical(F)' /\ Extends(E, F)
    /\ Safe(E) /\ NoStaleAnswers

Honest(E, n, s1, ms) == CommitsCovered /\ Commits(E) => CommitFits(E, n, s1) /\ Tells(s1, ms)

Proceeding(E, F) ==
    \E n \in Server : \E s1, ms : Proceeds(E, F, n, s1, ms) /\ Honest(E, n, s1, ms)

(* The facts about one node before the step.                                *)
LEMMA HereSafe ==
    ASSUME NEW E, NEW F, Between(E, F), NEW n \in Server
    PROVE  /\ IInv /\ E \in LogTable /\ F \in LogTable /\ Canonical(E) /\ FreshTerms
           /\ Shape(node[n]) /\ node[n].term \in Nat
           /\ ProgressOK(node[n]) /\ node[n].awaiting = FALSE
           /\ Follows(E, node[n].log) /\ node[n].log \in Seq(Nat)
           /\ node[n].role = "leader" => node[n].log = E[node[n].term]
           /\ NodeSafe(node[n]) /\ node[n].stopped = FALSE
<1>1. IInv /\ E \in LogTable /\ F \in LogTable /\ Canonical(E) /\ FreshTerms /\ NodeSafe(node[n])
  BY DEF Between, Safe
<1> QED
  BY <1>1, LogHere DEF NodeSafe

(* The canonical logs after a step of n.                                    *)
LEMMA TableOf ==
    ASSUME NEW E, NEW F, Between(E, F), NEW n \in Server, NEW s1, Update(n, s1), s1.term \in Nat
    PROVE  /\ s1.role # "leader" => F = E
           /\ s1.role = "leader" => F[s1.term] = s1.log /\ F = [E EXCEPT ![s1.term] = s1.log]
           /\ s1.role = "leader" /\ node[n].role = "leader" /\ s1.term = node[n].term
                 /\ s1.log = node[n].log => F = E
<1>1. /\ IInv /\ E \in LogTable /\ F \in LogTable /\ Canonical(E) /\ Canonical(F)' /\ Extends(E, F)
  BY DEF Between
<1>2. node'[n] = s1 /\ \A p \in Server : p # n => node'[p] = node[p]
  BY <1>1 DEF IInv, Typed, Update
<1>3. /\ \A p \in Server : node[p].role = "leader" => node[p].log = E[node[p].term]
      /\ s1.role = "leader" => s1.log = F[s1.term]
  BY <1>1, <1>2 DEF Canonical, NodeOK
<1>4. \A t \in Nat : [E EXCEPT ![t] = E[t]] = E
  BY <1>1 DEF LogTable
<1>5. \A p \in Server : node[p].term \in Nat
  BY <1>1, ShapeHere DEF Shape
<1>6. F = E \/ (s1.role = "leader" /\ F = [E EXCEPT ![s1.term] = s1.log])
  <2>1. CASE F # E
    <3>1. PICK q \in Server : node'[q].role = "leader" /\ F = [E EXCEPT ![node'[q].term] = node'[q].log]
      BY <1>1, <2>1 DEF Extends
    <3>2. CASE q = n
      BY <1>2, <3>1, <3>2
    <3>3. CASE q # n
      <4>1. F = [E EXCEPT ![node[q].term] = E[node[q].term]]
        BY <1>2, <1>3, <3>1, <3>3
      <4> QED
        BY <1>4, <1>5, <2>1, <4>1
    <3> QED
      BY <3>2, <3>3
  <2> QED
    BY <2>1
<1>7. s1.role = "leader" => F = [E EXCEPT ![s1.term] = s1.log]
  BY <1>3, <1>4, <1>6
<1>8. s1.role = "leader" /\ node[n].role = "leader" /\ s1.term = node[n].term
        /\ s1.log = node[n].log => F = E
  BY <1>3, <1>4, <1>5, <1>7
<1> QED
  BY <1>3, <1>6, <1>7, <1>8

(* The parts of a step put together.                                        *)
LEMMA Assembled ==
    ASSUME NEW E, NEW F, Between(E, F), NEW n \in Server, NEW s1, NEW ms, Update(n, s1), Send(ms),
           s1.term \in Nat, s1.term >= node[n].term,
           Stays(E, F, n, s1) \/ Grafts(E, F, n, s1) \/ Leads(E, F, n, s1),
           Candidacy(n, s1), NodeFits(n, s1), \A m \in ms : Suits(F, n, s1, m), Honest(E, n, s1, ms)
    PROVE  Proceeding(E, F)
<1>1. \A m \in msgs' : MessageOK(m) /\ AppendOK(F, m)
  BY DEF Between, IInv, Typed, Canonical
<1>2. \A m \in ms : Fits(F, n, s1, m)
  BY <1>1 DEF Send, Fits
<1>3. \A r \in ms : r.type = "AppendResponse" /\ r.success => r.from = n /\ r.term = s1.term
  BY DEF Suits, AckFits
<1>4. Moves(n, s1, ms)
  BY <1>3 DEF Moves
<1>5. Proceeds(E, F, n, s1, ms)
  BY <1>2, <1>4 DEF Proceeds
<1> QED
  BY <1>5 DEF Proceeding

(* A step of n that leaves its log, its commit index and its being stopped  *)
(* or not alone, and does not lead.                                         *)
Keeps(s, s1) ==
    s1.log = s.log /\ s1.commit = s.commit /\ s1.applied = s.applied /\ s1.stopped = s.stopped

(* A step that leaves the log alone and does not end in leadership.         *)
LEMMA QuietProceeds ==
    ASSUME NEW E, NEW F, Between(E, F), NEW n \in Server, NEW s1, NEW ms, Update(n, s1), Send(ms),
           s1.term \in Nat, s1.term >= node[n].term, s1.role # "leader", Keeps(node[n], s1),
           Candidacy(n, s1), \A m \in ms : Suits(E, n, s1, m)
    PROVE  Proceeding(E, F)
<1>0. /\ node[n].log \in Seq(Nat) /\ node[n].term \in Nat /\ NodeSafe(node[n]) /\ node[n].stopped = FALSE
  BY HereSafe
<1>1. F = E
  BY TableOf
<1>2. Stays(E, F, n, s1)
  BY <1>1 DEF Stays, Keeps
<1>3. NodeFits(n, s1)
  <2>1. PICK k \in Seq(Nat) : k = node[n].log
    BY <1>0
  <2>2. PICK v \in Nat : v = node[n].term
    BY <1>0
  <2>3. PICK u \in Nat : u = s1.term /\ v <= u
    BY <2>2
  <2>4. \A j \in 1 .. Len(k) : k[j] <= v /\ k[j] \in Nat
    BY <1>0, <2>1, <2>2 DEF NodeSafe
  <2>5. \A j \in 1 .. Len(k) : k[j] <= u
    BY ONLY <2>3, <2>4, u \in Nat, v \in Nat
  <2> QED
    BY <1>0, <2>1, <2>3, <2>5 DEF NodeFits, Keeps
<1>4. \A m \in ms : Suits(F, n, s1, m)
  BY <1>1
<1>5. Honest(E, n, s1, ms)
  <2>1. \A m \in ms : m.type # "AppendEntries"
    BY DEF Suits, AppendFits
  <2>2. Tells(s1, ms)
    BY <2>1 DEF Tells
  <2>3. CommitFits(E, n, s1)
    BY DEF CommitFits, Keeps
  <2> QED
    BY <2>2, <2>3 DEF Honest
<1> QED
  BY <1>2, <1>3, <1>4, <1>5, Assembled

(* The progress of a leader's peers is within its log and acknowledged.     *)
Bounded(n, s) ==
    \A p \in Server :
        /\ s.next[p] <= Len(s.log) + 1 /\ s.match[p] <= Len(s.log)
        /\ s.match[p] = 0 \/ p = n \/ Acked(p, s.term, s.match[p])

(* A leader's counts are within its log.                                    *)
LEMMA LeaderBounded ==
    ASSUME NEW E, NEW F, Between(E, F), NEW n \in Server, node[n].role = "leader"
    PROVE  Bounded(n, node[n]) /\ <<node[n].term, n>> \in leaders
<1>1. NodeSafe(node[n]) /\ IInv
  BY HereSafe
<1>2. \A p \in Server : Counts(node[n], p)
  BY <1>1 DEF NodeSafe
<1>3. <<node[n].term, n>> \in leaders
  BY <1>1 DEF IInv, LeadersRecorded
<1> QED
  BY <1>2, <1>3 DEF Counts, Bounded

(* A step of a leader that goes on leading.                                 *)
LEMMA LeaderProceeds ==
    ASSUME NEW E, NEW F, Between(E, F), NEW n \in Server, NEW s1, NEW ms, Update(n, s1), Send(ms),
           node[n].role = "leader", s1.role = "leader", s1.term = node[n].term,
           s1.log = node[n].log, s1.stopped = FALSE, Bounded(n, s1),
           \A m \in ms : Suits(E, n, s1, m), Honest(E, n, s1, ms)
    PROVE  Proceeding(E, F)
<1>0. /\ node[n].log \in Seq(Nat) /\ node[n].term \in Nat /\ NodeSafe(node[n])
  BY HereSafe
<1>1. F = E
  BY <1>0, TableOf
<1>2. Stays(E, F, n, s1)
  BY <1>1 DEF Stays
<1>3. NodeFits(n, s1)
  BY <1>0 DEF NodeFits, Bounded, NodeSafe
<1>4. Candidacy(n, s1) /\ \A m \in ms : Suits(F, n, s1, m)
  BY <1>1 DEF Candidacy
<1>5. s1.term \in Nat /\ s1.term >= node[n].term
  BY <1>0
<1> QED
  BY <1>2, <1>3, <1>4, <1>5, Assembled

(* A step in which n, leading, adds an entry.                               *)
LEMMA LeadProceeds ==
    ASSUME NEW E, NEW F, Between(E, F), NEW n \in Server, NEW s1, NEW ms, Update(n, s1), Send(ms),
           s1.role = "leader", s1.term \in Nat, s1.term >= node[n].term,
           s1.log = Append(node[n].log, s1.term), s1.stopped = FALSE, Bounded(n, s1),
           (node[n].role = "leader" /\ node[n].term = s1.term) \/ Wins(n, s1.term),
           \A m \in ms : F[s1.term] = s1.log => Suits(F, n, s1, m), Honest(E, n, s1, ms)
    PROVE  Proceeding(E, F)
<1>0. /\ node[n].log \in Seq(Nat) /\ node[n].term \in Nat /\ NodeSafe(node[n])
  BY HereSafe
<1>1. F[s1.term] = s1.log /\ F = [E EXCEPT ![s1.term] = s1.log]
  BY TableOf
<1>2. Leads(E, F, n, s1)
  BY <1>1 DEF Leads
<1>3. NodeFits(n, s1)
  <2>1. PICK l \in Seq(Nat) : l = node[n].log
    BY <1>0
  <2>2. PICK u \in Nat : u = s1.term
    OBVIOUS
  <2>3. \A j \in 1 .. Len(l) : l[j] <= node[n].term /\ l[j] \in Nat
    BY <1>0, <2>1 DEF NodeSafe
  <2>4. PICK k \in Seq(Nat) : k = s1.log /\ k = Append(l, u)
    <3>1. Append(l, u) \in Seq(Nat)
      BY ONLY l \in Seq(Nat), u \in Nat
    <3>2. s1.log = Append(l, u)
      BY <2>1, <2>2
    <3> QED
      BY ONLY <3>1, <3>2
  <2>5. Len(k) = Len(l) + 1 /\ k[Len(l) + 1] = u /\ \A j \in 1 .. Len(l) : k[j] = l[j]
    BY <2>4
  <2>6. node[n].term <= u
    BY <2>2
  <2>7. ASSUME NEW j \in 1 .. Len(k) PROVE k[j] <= u
    <3>1. CASE j = Len(l) + 1
      BY <2>5, <3>1
    <3>2. CASE j # Len(l) + 1
      <4>1. j \in 1 .. Len(l)
        BY <2>5, <3>2
      <4>2. k[j] = l[j] /\ l[j] <= node[n].term /\ l[j] \in Nat
        BY <2>3, <2>5, <4>1
      <4> QED
        BY <1>0, <2>6, <4>2
    <3> QED
      BY <3>1, <3>2
  <2> QED
    BY <2>2, <2>4, <2>7 DEF NodeFits, Bounded
<1>4. Candidacy(n, s1) /\ \A m \in ms : Suits(F, n, s1, m)
  BY <1>1 DEF Candidacy
<1> QED
  BY <1>2, <1>3, <1>4, Assembled

(* A step in which n puts entries of the leader of s1.term in place.        *)
LEMMA GraftProceeds ==
    ASSUME NEW E, NEW F, Between(E, F), NEW n \in Server, NEW s1, NEW ms, Update(n, s1), Send(ms),
           s1.role = "follower", s1.term \in Nat, s1.term >= node[n].term, s1.stopped = FALSE,
           Led(s1.term), s1.log \in Seq(Nat),
           \A i \in Nat : SameTo(node[n].log, E[s1.term], i) => SameTo(s1.log, E[s1.term], i),
           s1.log = node[n].log \/ SameTo(s1.log, E[s1.term], Len(s1.log)),
           \A m \in ms : Suits(E, n, s1, m), Honest(E, n, s1, ms)
    PROVE  Proceeding(E, F)
<1>0. /\ node[n].log \in Seq(Nat) /\ node[n].term \in Nat /\ NodeSafe(node[n])
  BY HereSafe
<1>1. F = E /\ TableSafe(E)
  BY TableOf DEF Between, Safe
<1>2. Grafts(E, F, n, s1)
  BY <1>1 DEF Grafts
<1>3. NodeFits(n, s1)
  <2>1. CASE s1.log = node[n].log
    <3>1. \A j \in 1 .. Len(node[n].log) : node[n].log[j] <= node[n].term /\ node[n].log[j] \in Nat
      BY <1>0 DEF NodeSafe
    <3>2. \A j \in 1 .. Len(node[n].log) : node[n].log[j] <= s1.term
      BY <1>0, <3>1
    <3> QED
      BY <2>1, <3>2 DEF NodeFits
  <2>2. CASE SameTo(s1.log, E[s1.term], Len(s1.log))
    <3>1. PICK k \in Seq(Nat) : k = s1.log
      OBVIOUS
    <3>2. PICK u \in Nat : u = s1.term
      OBVIOUS
    <3>3. PICK e \in Seq(Nat) : e = E[u]
      BY HereSafe DEF LogTable
    <3>4. SameTo(k, e, Len(k)) /\ \A j \in 1 .. Len(e) : e[j] <= u
      BY <1>1, <2>2, <3>1, <3>2, <3>3 DEF TableSafe
    <3>5. k \in Seq(Nat) /\ e \in Seq(Nat) /\ u \in Nat
      OBVIOUS
    <3>6. \A j \in 1 .. Len(k) : j \in 1 .. Len(e) /\ k[j] = e[j]
      BY ONLY <3>4, <3>5 DEF SameTo
    <3>7. \A j \in 1 .. Len(k) : k[j] <= u
      BY ONLY <3>4, <3>6
    <3> QED
      BY <3>1, <3>2, <3>7 DEF NodeFits
  <2> QED
    BY <2>1, <2>2
<1>4. Candidacy(n, s1) /\ \A m \in ms : Suits(F, n, s1, m)
  BY <1>1 DEF Candidacy
<1> QED
  BY <1>2, <1>3, <1>4, Assembled

-----------------------------------------------------------------------------
(* What the methods keep of a node's state.                                 *)
LEMMA MethodsKeep ==
    ASSUME NEW s, Shape(s), NEW n, NEW t, NEW m, NEW q, NEW full, NEW i
    PROVE  /\ Keeps(s, s)
           /\ Keeps(s, StepDown(s, t)) /\ Keeps(s, BeginPreVote(n, s)) /\ Keeps(s, Candidate(n, s))
           /\ Keeps(s, [s EXCEPT !.transfer = q]) /\ Keeps(s, [s EXCEPT !.votes = q])
           /\ Keeps(s, MarkSent(n, s, full)) /\ Keeps(s, MarkReplicated(s, q, i))
           /\ Keeps(s, MarkRejected(s, m))
<1> USE DEF Keeps, Shape, Fields
<1>1. Keeps(s, s)
  OBVIOUS
<1>2. Keeps(s, StepDown(s, t))
  BY DEF StepDown
<1>3. Keeps(s, BeginPreVote(n, s))
  BY DEF BeginPreVote
<1>4. Keeps(s, Candidate(n, s))
  BY DEF Candidate
<1>5. Keeps(s, [s EXCEPT !.transfer = q]) /\ Keeps(s, [s EXCEPT !.votes = q])
  OBVIOUS
<1>6. Keeps(s, MarkSent(n, s, full))
  BY DEF MarkSent
<1>7. Keeps(s, MarkReplicated(s, q, i))
  BY DEF MarkReplicated
<1>8. Keeps(s, MarkRejected(s, m))
  BY DEF MarkRejected
<1> QED
  BY <1>1, <1>2, <1>3, <1>4, <1>5, <1>6, <1>7, <1>8

(* Voting and following, possibly after stepping down.                      *)
LEMMA VotedKeeps ==
    ASSUME NEW s, Shape(s), NEW m, m.term \in Nat, m.term >= s.term
    PROVE  /\ Keeps(s, Voted(s, m)) /\ Keeps(s, Follow(s, m))
           /\ Voted(s, m).term = m.term /\ Voted(s, m).role \in {"follower", s.role}
           /\ Voted(s, m).role # "follower" => s.term = m.term
           /\ Voted(s, m).next = s.next /\ Voted(s, m).match = s.match
<1>0. s.term \in Nat
  BY DEF Shape
<1>2. PICK x : x = StepDown(s, m.term)
  OBVIOUS
<1>3. Keeps(s, x) /\ Shape(x) /\ x.role = "follower" /\ x.term = m.term /\ Keeps(s, s)
  BY <1>2, MethodsKeep, StepDownAdvances
<1>n. x.next = s.next /\ x.match = s.match
  BY <1>2 DEF StepDown, Shape, Fields
<1>4. PICK d : d = IF m.term > s.term THEN x ELSE s
  OBVIOUS
<1>5. /\ Shape(d) /\ Keeps(s, d) /\ d.term = m.term
      /\ d.role \in {"follower", s.role} /\ (d.role # "follower" => s.term = m.term)
      /\ d.next = s.next /\ d.match = s.match
  BY <1>0, <1>3, <1>4, <1>n
<1>6. Voted(s, m) = IF MayGrant(d, m) THEN [d EXCEPT !.vote = m.from, !.leader = Nil] ELSE d
  BY <1>2, <1>4 DEF Voted
<1>7. PICK f : f = IF m.term > s.term \/ s.role # "follower" THEN x ELSE s
  OBVIOUS
<1>8. Follow(s, m) = [f EXCEPT !.leader = m.from] /\ Shape(f) /\ Keeps(s, f)
  BY <1>2, <1>3, <1>7 DEF Follow
<1>9. Keeps(s, Follow(s, m))
  <2>1. PICK g : g = [f EXCEPT !.leader = m.from]
    OBVIOUS
  <2>2. Keeps(s, g)
    BY <1>8, <2>1 DEF Keeps, Shape, Fields
  <2> QED
    BY <1>8, <2>1, <2>2
<1>10. PICK v : v = [d EXCEPT !.vote = m.from, !.leader = Nil]
  OBVIOUS
<1>11. /\ Keeps(s, v) /\ v.term = d.term /\ v.role = d.role
       /\ v.next = d.next /\ v.match = d.match
  BY <1>5, <1>10 DEF Keeps, Shape, Fields
<1>12. Voted(s, m) = v \/ Voted(s, m) = d
  BY <1>6, <1>10
<1> QED
  BY <1>5, <1>9, <1>11, <1>12

(* A candidate's requests describe its log.                                 *)
LEMMA AskSuits ==
    ASSUME NEW E, NEW n, NEW s1, NEW c, c.term \in Nat, c.term = s1.term,
           s1.role = "candidate" => s1.log = c.log
    PROVE  \A r \in VoteRequests(n, c, FALSE) : Suits(E, n, s1, r)
<1> SUFFICES ASSUME NEW r \in VoteRequests(n, c, FALSE) PROVE Suits(E, n, s1, r)
  OBVIOUS
<1>1. /\ r.type = "RequestVote" /\ r.from = n /\ r.term = c.term
      /\ r.lastIndex = Len(c.log) /\ r.lastTerm = LastTerm(c.log)
  BY DEF VoteRequests
<1>2. AskFits(n, s1, r)
  BY <1>1 DEF AskFits
<1> QED
  BY <1>1, <1>2 DEF Suits

(* What a leader asks for is within its log.                                *)
Asks(n, s, m) ==
    /\ m.type = "AppendEntries" /\ m.from = n /\ m.term = s.term /\ m.commit = s.commit
    /\ m.prev <= Len(s.log) /\ m.prevTerm = TermAt(s.log, m.prev)
    /\ m.prev + Len(m.entries) \in Nat /\ m.prev + Len(m.entries) <= Len(s.log)

(* What AppendRequest makes of the leader's log and next_index.             *)
LEMMA RequestFits ==
    ASSUME NEW n \in Server, NEW s, Shape(s), ProgressOK(s), s.log \in Seq(Nat), Bounded(n, s),
           NEW p \in Server, NEW full \in BOOLEAN
    PROVE  Asks(n, s, AppendRequest(n, s, p, full))
<1>1. PICK m : m = AppendRequest(n, s, p, full)
  OBVIOUS
<1>2. PieceOf(s.log, m) /\ m.prev + Len(m.entries) \in Nat
  BY <1>1, RequestIsPiece
<1>3. /\ m.type = "AppendEntries" /\ m.from = n /\ m.term = s.term /\ m.commit = s.commit
      /\ m.prev = Max2(s.next[p], 1) - 1 /\ m.prevTerm = TermAt(s.log, m.prev)
  BY <1>1 DEF AppendRequest
<1>4. PICK i \in Nat : i = s.next[p]
  BY DEF ProgressOK
<1>5. i <= Len(s.log) + 1 /\ Len(s.log) \in Nat
  BY <1>4 DEF Bounded
<1>6. m.prev <= Len(s.log)
  BY <1>3, <1>4, <1>5 DEF Max2
<1>7. m.prev + Len(m.entries) <= Len(s.log)
  <2>1. CASE m.entries = << >>
    <3>1. m.prev \in Nat /\ Len(m.entries) = 0
      BY <1>2, <2>1 DEF PieceOf
    <3> QED
      BY <1>5, <1>6, <3>1
  <2>2. CASE m.entries # << >>
    BY <1>2, <2>2 DEF PieceOf
  <2> QED
    BY <2>1, <2>2
<1>8. Asks(n, s, m)
  BY <1>2, <1>3, <1>6, <1>7 DEF Asks
<1> QED
  BY <1>1, <1>8

(* replicate_to_all() sends only such requests, and next stays within.      *)
LEMMA SendFits ==
    ASSUME NEW n \in Server, NEW s, Shape(s), ProgressOK(s), s.log \in Seq(Nat), s.role = "leader",
           Bounded(n, s), NEW full
    PROVE  /\ Keeps(s, MarkSent(n, s, full)) /\ LogSame(s, MarkSent(n, s, full))
           /\ Bounded(n, MarkSent(n, s, full))
           /\ \A r \in AppendRequests(n, s, full) :
                 r.commit = s.commit /\ \A F : Suits(F, n, MarkSent(n, s, full), r)
<1>1. PICK s1 : s1 = MarkSent(n, s, full)
  OBVIOUS
<1>2. Keeps(s, s1) /\ LogSame(s, s1)
  BY <1>1, MethodsKeep, SendKeepsLog
<1> DEFINE LastSent(p) == LET m == AppendRequest(n, s, p, p \in full)
                          IN m.prev + Len(m.entries)
           next == [p \in Server |-> IF p # n /\ s.mode[p] = "replicate"
                                     THEN Max2(s.next[p], LastSent(p) + 1) ELSE s.next[p]]
<1>3. ASSUME NEW p \in Server PROVE LastSent(p) \in Nat /\ LastSent(p) <= Len(s.log)
  <2>1. (p \in full) \in BOOLEAN
    OBVIOUS
  <2> QED
    BY <2>1, RequestFits DEF Asks
<1>4. MarkSent(n, s, full) = [s EXCEPT !.next = next]
  BY DEF MarkSent
<1> HIDE DEF LastSent
<1>5. s1.next = next /\ s1.match = s.match
  <2> HIDE DEF next
  <2> QED
    BY <1>1, <1>4 DEF Shape, Fields
<1>6. ASSUME NEW p \in Server PROVE s1.next[p] <= Len(s1.log) + 1
  <2>1. PICK i \in Nat : i = s.next[p]
    BY DEF ProgressOK
  <2>2. PICK j \in Nat : j = LastSent(p) /\ j <= Len(s.log)
    BY <1>3
  <2>3. i <= Len(s.log) + 1 /\ Len(s.log) \in Nat
    BY <2>1 DEF Bounded
  <2>4. s1.next[p] = Max2(i, j + 1) \/ s1.next[p] = i
    BY <1>5, <2>1, <2>2
  <2>5. s1.log = s.log
    BY <1>2 DEF Keeps
  <2> QED
    BY <2>2, <2>3, <2>4, <2>5 DEF Max2
<1>7. Bounded(n, s1)
  BY <1>2, <1>5, <1>6 DEF Bounded, Keeps, LogSame
<1>8. ASSUME NEW r \in AppendRequests(n, s, full)
      PROVE  r.commit = s.commit /\ \A F : Suits(F, n, s1, r)
  <2>1. PICK p \in Server : r = AppendRequest(n, s, p, p \in full)
    BY <1>8 DEF AppendRequests
  <2>2. (p \in full) \in BOOLEAN
    OBVIOUS
  <2>4. /\ r.type = "AppendEntries" /\ r.from = n /\ r.term = s.term /\ r.commit = s.commit
        /\ r.prev <= Len(s.log) /\ r.prevTerm = TermAt(s.log, r.prev)
    <3>1. Asks(n, s, AppendRequest(n, s, p, p \in full))
      BY <2>2, RequestFits
    <3>2. Asks(n, s, r)
      BY <2>1, <3>1
    <3> QED
      BY <3>2 DEF Asks
  <2>5. AppendFits(n, s1, r)
    BY <1>2, <2>4 DEF AppendFits, LogSame
  <2> QED
    BY <2>4, <2>5 DEF Suits
<1> QED
  BY <1>1, <1>2, <1>7, <1>8

-----------------------------------------------------------------------------
(* Acknowledgements that count.                                             *)
LEMMA AckedBelow ==
    ASSUME NEW p, NEW t, NEW i \in Nat, NEW j \in Nat, j <= i, Acked(p, t, i),
           \A r \in msgs : r.type = "AppendResponse" => r.match \in Nat
    PROVE  Acked(p, t, j)
<1>1. CASE <<t, p>> \in leaders
  BY <1>1 DEF Acked
<1>2. CASE \E r \in msgs : Acks(r, p, t, i)
  <2>1. PICK r \in msgs : Acks(r, p, t, i)
    BY <1>2
  <2>2. r.match \in Nat /\ r.match >= j
    BY <2>1 DEF Acks
  <2> QED
    BY <2>1, <2>2 DEF Acked, Acks
<1> QED
  BY <1>1, <1>2 DEF Acked

(* MarkReplicated counts what was acknowledged.                             *)
LEMMA ReplicatedBounded ==
    ASSUME NEW n, NEW s, Shape(s), ProgressOK(s), s.log \in Seq(Nat), Bounded(n, s),
           NEW p \in Server, NEW i \in Nat, i <= Len(s.log), Acked(p, s.term, i)
    PROVE  Bounded(n, MarkReplicated(s, p, i))
<1>1. PICK a \in Nat : a = s.next[p]
  BY DEF ProgressOK
<1>2. PICK b \in Nat : b = s.match[p]
  BY DEF ProgressOK
<1>3. PICK c \in Nat : c = Max2(b, i) /\ c \in {b, i}
  BY DEF Max2
<1>4. PICK d \in Nat : d = Max2(a, c + 1) /\ d \in {a, c + 1}
  BY DEF Max2
<1>5. MarkReplicated(s, p, i) =
        [s EXCEPT !.match = [s.match EXCEPT ![p] = c], !.next = [s.next EXCEPT ![p] = d],
                  !.mode = [s.mode EXCEPT ![p] = "replicate"]]
  BY <1>1, <1>2, <1>3, <1>4 DEF MarkReplicated, Shape, Fields
<1>6. PICK x : x = MarkReplicated(s, p, i)
  OBVIOUS
<1>7. /\ x.match = [s.match EXCEPT ![p] = c] /\ x.next = [s.next EXCEPT ![p] = d]
      /\ x.log = s.log /\ x.term = s.term
  BY <1>5, <1>6 DEF Shape, Fields
<1>8. a <= Len(s.log) + 1 /\ b <= Len(s.log) /\ (b = 0 \/ p = n \/ Acked(p, s.term, b)) /\ Len(s.log) \in Nat
  BY <1>1, <1>2 DEF Bounded
<1>9. d <= Len(s.log) + 1 /\ c <= Len(s.log)
  BY <1>3, <1>4, <1>8
<1>10. c = 0 \/ p = n \/ Acked(p, s.term, c)
  BY <1>3, <1>8
<1>11. ASSUME NEW q \in Server
       PROVE  /\ x.next[q] <= Len(x.log) + 1 /\ x.match[q] <= Len(x.log)
              /\ x.match[q] = 0 \/ q = n \/ Acked(q, x.term, x.match[q])
  <2>1. CASE q = p
    <3>1. x.next[q] = d /\ x.match[q] = c
      BY <1>7, <2>1 DEF ProgressOK
    <3> QED
      BY <1>7, <1>9, <1>10, <2>1, <3>1
  <2>2. CASE q # p
    <3>1. x.next[q] = s.next[q] /\ x.match[q] = s.match[q]
      BY <1>7, <2>2 DEF ProgressOK
    <3> QED
      BY <1>7, <3>1 DEF Bounded
  <2> QED
    BY <2>1, <2>2
<1>12. Bounded(n, x)
  BY <1>11 DEF Bounded
<1> QED
  BY <1>6, <1>12

(* MarkRejected leads back to an index of the log.                          *)
LEMMA RejectedBounded ==
    ASSUME NEW n, NEW s, Shape(s), ProgressOK(s), s.log \in Seq(Nat), Bounded(n, s),
           NEW m, m.from \in Server, m.conflict \in Nat, m.conflict # 0, m.conflict <= Len(s.log)
    PROVE  Bounded(n, MarkRejected(s, m))
<1>1. PICK p \in Server : p = m.from
  OBVIOUS
<1>2. PICK d \in Nat : d = m.conflict /\ d <= Len(s.log)
  OBVIOUS
<1>3. PICK x : x = MarkRejected(s, m)
  OBVIOUS
<1>4. /\ x.match = s.match /\ x.next = [s.next EXCEPT ![p] = d]
      /\ x.log = s.log /\ x.term = s.term
  BY <1>1, <1>2, <1>3 DEF MarkRejected, Shape, Fields
<1>5. ASSUME NEW q \in Server PROVE x.next[q] <= Len(x.log) + 1
  <2>1. Len(s.log) \in Nat
    OBVIOUS
  <2>2. CASE q = p
    <3>1. x.next[q] = d
      BY <1>4, <2>2 DEF ProgressOK
    <3> QED
      BY <1>2, <1>4, <2>1, <3>1
  <2>3. CASE q # p
    <3>1. x.next[q] = s.next[q]
      BY <1>4, <2>3 DEF ProgressOK
    <3> QED
      BY <1>4, <3>1 DEF Bounded
  <2> QED
    BY <2>2, <2>3
<1>6. Bounded(n, x)
  BY <1>4, <1>5 DEF Bounded
<1> QED
  BY <1>3, <1>6

-----------------------------------------------------------------------------
(* Committing.  The state s with its commit index at c and all up to there  *)
(* applied.                                                                 *)
CommittedTo(s, c, x) ==
    /\ x.commit = c /\ x.applied = s.applied \o SubSeq(s.log, Len(s.applied) + 1, c)
    /\ x.log = s.log /\ x.role = s.role /\ x.term = s.term /\ x.stopped = s.stopped
    /\ x.next = s.next /\ x.match = s.match

(* What Commit sets and what it leaves alone.                               *)
LEMMA CommitSets ==
    ASSUME NEW s, Shape(s), NEW c
    PROVE  CommittedTo(s, c, Commit(s, c))
<1>1. PICK a : a = s.applied \o SubSeq(s.log, Len(s.applied) + 1, c)
  OBVIOUS
<1>2. Commit(s, c) = [s EXCEPT !.commit = c, !.applied = a]
  BY <1>1 DEF Commit
<1>3. PICK x : x = Commit(s, c)
  OBVIOUS
<1>4. /\ x.commit = c /\ x.applied = a
      /\ x.log = s.log /\ x.role = s.role /\ x.term = s.term /\ x.stopped = s.stopped
      /\ x.next = s.next /\ x.match = s.match
  BY <1>2, <1>3 DEF Shape, Fields
<1>5. CommittedTo(s, c, x)
  BY <1>1, <1>4 DEF CommittedTo
<1> QED
  BY <1>3, <1>5

(* Committing leaves progress, and being stopped or not, alone.             *)
LEMMA CommitBounded ==
    ASSUME NEW s, Shape(s), NEW n, NEW m, NEW x,
           x \in {CommitAlone(s), AdvanceCommit(n, s), FollowCommit(s, m)}
    PROVE  /\ x.log = s.log /\ x.role = s.role /\ x.term = s.term /\ x.stopped = s.stopped
           /\ Bounded(n, s) => Bounded(n, x)
<1>1. x = s \/ \E c : x = Commit(s, c)
  BY DEF CommitAlone, AdvanceCommit, FollowCommit
<1>2. CASE \E c : x = Commit(s, c)
  <2>1. PICK c : x = Commit(s, c)
    BY <1>2
  <2>2. /\ x.log = s.log /\ x.role = s.role /\ x.term = s.term /\ x.stopped = s.stopped
        /\ x.next = s.next /\ x.match = s.match
    BY <2>1, CommitSets DEF CommittedTo
  <2> QED
    BY <2>2 DEF Bounded
<1> QED
  BY <1>1, <1>2

(* The greatest of a bounded set of numbers is what Max gives.              *)
LEMMA GreatestNat ==
    ASSUME NEW S \in SUBSET Nat, S # {}, NEW b \in Nat, \A x \in S : x <= b
    PROVE  Max(S) \in S
<1>1. PICK T : T = {t \in Nat : \E x \in S : t = b - x}
  OBVIOUS
<1>2. T \in SUBSET Nat /\ T # {}
  <2>1. PICK x \in S : x \in Nat /\ x <= b
    OBVIOUS
  <2>2. b - x \in T
    BY <1>1, <2>1
  <2> QED
    BY <1>1, <2>2
<1>3. PICK y \in T : \A z \in T : y <= z
  BY <1>2, LeastNat
<1>4. PICK x \in S : y = b - x
  BY <1>1, <1>3
<1>5. ASSUME NEW z \in S PROVE x >= z
  <2>1. z \in Nat /\ z <= b /\ x \in Nat
    OBVIOUS
  <2>2. b - z \in T
    BY <1>1, <2>1
  <2>3. b - x <= b - z
    BY <1>3, <1>4, <2>2
  <2> QED
    BY <2>1, <2>3
<1>6. \E w \in S : \A z \in S : w >= z
  BY <1>5
<1> QED
  BY <1>6, Zenon DEF Max

(* A lone voter is a quorum.                                                *)
LEMMA AloneFits ==
    ASSUME NEW E, NEW F, Between(E, F), NEW n \in Server, Commits(E),
           NEW a, Shape(a), a.role = "leader", a.log = Append(node[n].log, a.term),
           a.commit = node[n].commit, a.applied = node[n].applied
    PROVE  CommitFits(E, n, CommitAlone(a))
<1>1. PICK x : x = CommitAlone(a)
  OBVIOUS
<1>2. CASE Cardinality(Server) # 1
  <2>1. x = a
    BY <1>1, <1>2 DEF CommitAlone
  <2> QED
    BY <1>1, <2>1 DEF CommitFits
<1>3. CASE Cardinality(Server) = 1
  <2>1. PICK l \in Seq(Nat) : l = node[n].log
    BY HereSafe
  <2>2. PICK t \in Nat : t = a.term
    BY DEF Shape
  <2>3. PICK k \in Seq(Nat) : k = Append(l, t)
    <3>1. Append(l, t) \in Seq(Nat)
      BY ONLY l \in Seq(Nat), t \in Nat
    <3> QED
      BY ONLY <3>1
  <2>4. Len(k) = Len(l) + 1 /\ k[Len(k)] = t /\ Len(k) \in Nat /\ Len(l) \in Nat
    BY <2>3
  <2>5. k = a.log
    BY <2>1, <2>2, <2>3
  <2>6. PICK c \in Nat : c = node[n].commit /\ c <= Len(l)
    BY <2>1 DEF Commits, NodeSettled, SameTo
  <2>7. x = Commit(a, Len(k))
    BY <1>1, <1>3, <2>5 DEF CommitAlone
  <2>8. PICK d \in Nat : d = Len(k) /\ d > c
    BY <2>4, <2>6
  <2>9. /\ x.commit = d /\ x.applied = node[n].applied \o SubSeq(k, Len(node[n].applied) + 1, d)
        /\ x.log = k /\ x.role = "leader" /\ x.term = t
    <3>1. CommittedTo(a, Len(k), x)
      BY <2>7, CommitSets
    <3> QED
      BY <2>2, <2>5, <2>8, <3>1 DEF CommittedTo
  <2>10. HasQuorum(Server)
    BY <1>3 DEF HasQuorum
  <2>11. Server = {n}
    <3>1. IsFiniteSet(Server)
      BY RaftAssumption
    <3> QED
      BY <1>3, <3>1, FS_Singleton
  <2>12. Tallied(n, x)
    <3>1. \A p \in Server : p = n
      BY <2>11
    <3>2. d <= Len(k) /\ k[d] = t
      BY <2>4, <2>8
    <3> QED
      BY <2>9, <2>10, <3>1, <3>2 DEF Tallied
  <2>13. CommitFits(E, n, x)
    BY <2>6, <2>8, <2>9, <2>12 DEF CommitFits
  <2> QED
    BY <1>1, <2>13
<1> QED
  BY <1>2, <1>3

(* What a quorum has acknowledged.                                          *)
LEMMA AdvanceFits ==
    ASSUME NEW E, NEW F, Between(E, F), NEW n \in Server, Commits(E),
           NEW a, Shape(a), ProgressOK(a), a.role = "leader", a.log \in Seq(Nat), Bounded(n, a),
           a.commit = node[n].commit, a.applied = node[n].applied
    PROVE  CommitFits(E, n, AdvanceCommit(n, a))
<1>1. PICK x : x = AdvanceCommit(n, a)
  OBVIOUS
<1>2. CASE Committable(n, a) = {}
  <2>1. x = a
    BY <1>1, <1>2 DEF AdvanceCommit
  <2> QED
    BY <1>1, <2>1 DEF CommitFits
<1>3. CASE Committable(n, a) # {}
  <2>1. PICK l \in Seq(Nat) : l = a.log
    OBVIOUS
  <2>2. PICK c \in Nat : c = node[n].commit
    BY DEF Commits, NodeSettled
  <2>3. PICK S : S = Committable(n, a)
    OBVIOUS
  <2>4. \A i \in S : /\ i \in c + 1 .. Len(l) /\ l[i] = a.term
                     /\ HasQuorum({p \in Server : p = n \/ a.match[p] >= i})
    BY <2>1, <2>2, <2>3 DEF Committable
  <2>5. S \in SUBSET Nat /\ Len(l) \in Nat /\ \A i \in S : i <= Len(l)
    <3>1. PICK b \in Nat : b = Len(l)
      OBVIOUS
    <3>2. \A i \in S : i \in c + 1 .. b
      BY <2>4, <3>1
    <3>3. \A i \in c + 1 .. b : i \in Nat /\ i <= b
      BY ONLY c \in Nat, b \in Nat
    <3> QED
      BY <3>1, <3>2, <3>3
  <2>6. PICK d : d = Max(S)
    OBVIOUS
  <2>7. d \in S
    <3>1. S # {}
      BY <1>3, <2>3
    <3> QED
      BY ONLY <2>5, <2>6, <3>1, GreatestNat
  <2>8. d \in Nat /\ d > c /\ d <= Len(l) /\ l[d] = a.term
    <3>1. d \in c + 1 .. Len(l) /\ l[d] = a.term
      BY <2>4, <2>7
    <3> QED
      BY ONLY <3>1, <2>5, c \in Nat
  <2>9. x = Commit(a, d)
    BY <1>1, <1>3, <2>3, <2>6 DEF AdvanceCommit
  <2>10. /\ x.commit = d /\ x.applied = node[n].applied \o SubSeq(l, Len(node[n].applied) + 1, d)
         /\ x.log = l /\ x.role = "leader" /\ x.term = a.term
    <3>1. CommittedTo(a, d, x)
      BY <2>9, CommitSets
    <3> QED
      BY <2>1, <3>1 DEF CommittedTo
  <2>11. PICK Q \in SUBSET Server : HasQuorum(Q) /\ \A p \in Q : p = n \/ a.match[p] >= d
    <3>1. {p \in Server : p = n \/ a.match[p] >= d} \in SUBSET Server
      OBVIOUS
    <3> QED
      BY <2>4, <2>7, <3>1
  <2>12. ASSUME NEW p \in Q, p # n PROVE Acked(p, a.term, d)
    <3>1. PICK i \in Nat : i = a.match[p] /\ d <= i
      BY <2>8, <2>11, <2>12 DEF ProgressOK
    <3>2. i # 0
      BY <2>8, <3>1
    <3>3. Acked(p, a.term, i)
      BY <2>12, <3>1, <3>2 DEF Bounded
    <3>4. \A r \in msgs : r.type = "AppendResponse" => r.match \in Nat
      BY DEF Between, Canonical, AppendOK
    <3> QED
      BY <2>8, <3>1, <3>3, <3>4, AckedBelow
  <2>13. Tallied(n, x)
    BY <2>8, <2>10, <2>11, <2>12 DEF Tallied
  <2>14. CommitFits(E, n, x)
    BY <2>2, <2>8, <2>10, <2>13 DEF CommitFits
  <2> QED
    BY <1>1, <2>14
<1> QED
  BY <1>2, <1>3

(* What the leader says is committed, and is covered by its append.         *)
LEMMA FollowFits ==
    ASSUME NEW E, NEW n \in Server, Commits(E), NEW m \in msgs,
           m.type = "AppendEntries", NEW last \in Nat, m.commit <= last,
           NEW a, Shape(a), a.term = m.term, a.log \in Seq(Nat), E[m.term] \in Seq(Nat),
           SameTo(a.log, E[m.term], last),
           a.commit = node[n].commit, a.applied = node[n].applied
    PROVE  CommitFits(E, n, FollowCommit(a, m))
<1>1. PICK x : x = FollowCommit(a, m)
  OBVIOUS
<1>2. PICK c \in Nat : c = node[n].commit
  BY DEF Commits, NodeSettled
<1>3. PICK d \in Nat : d = m.commit
  BY DEF Commits, MsgSettled
<1>4. CASE ~(d > c)
  <2>1. x = a
    BY <1>1, <1>2, <1>3, <1>4 DEF FollowCommit
  <2> QED
    BY <1>1, <2>1 DEF CommitFits
<1>5. CASE d > c
  <2>1. PICK l \in Seq(Nat) : l = a.log
    OBVIOUS
  <2>2. PICK e \in Seq(Nat) : e = E[m.term]
    OBVIOUS
  <2>3. SameTo(l, e, last) /\ d <= last
    BY <1>3, <2>1, <2>2
  <2>4. SameTo(l, e, d) /\ d <= Len(l) /\ Len(l) \in Nat
    BY <2>3 DEF SameTo
  <2>5. Min2(d, Len(l)) = d
    BY <2>4 DEF Min2
  <2>6. x = Commit(a, d)
    BY <1>1, <1>2, <1>3, <1>5, <2>1, <2>5 DEF FollowCommit
  <2>7. /\ x.commit = d /\ x.applied = node[n].applied \o SubSeq(l, Len(node[n].applied) + 1, d)
        /\ x.log = l /\ x.term = m.term
    <3>1. CommittedTo(a, d, x)
      BY <2>6, CommitSets
    <3> QED
      BY <2>1, <3>1 DEF CommittedTo
  <2>8. Told(E, x)
    <3>1. d <= m.commit
      BY <1>3
    <3> QED
      BY <2>2, <2>4, <2>7, <3>1 DEF Told
  <2>9. CommitFits(E, n, x)
    BY <1>2, <1>5, <2>7, <2>8 DEF CommitFits
  <2> QED
    BY <1>1, <2>9
<1> QED
  BY <1>4, <1>5

(* A new leader.                                                            *)
LEMMA BecomeLeaderFits ==
    ASSUME NEW E, NEW F, Between(E, F), NEW n \in Server,
           NEW s, Shape(s), Keeps(node[n], s)
    PROVE  LET x == BecomeLeader(n, s)
           IN /\ x.stopped = FALSE /\ Bounded(n, x)
              /\ Commits(E) => CommitFits(E, n, x)
<1>h. /\ node[n].log \in Seq(Nat) /\ node[n].stopped = FALSE
  BY HereSafe
<1>0. /\ s.log = node[n].log /\ s.commit = node[n].commit /\ s.applied = node[n].applied
      /\ s.stopped = FALSE
  BY <1>h DEF Keeps
<1>1. PICK last \in Nat : last = Len(s.log)
  BY <1>h, <1>0
<1>2. PICK next : next = [p \in Server |-> IF p = n THEN last + 2 ELSE last + 1]
  OBVIOUS
<1>3. PICK match : match = [p \in Server |-> IF p = n THEN last + 1 ELSE 0]
  OBVIOUS
<1>4. PICK l : l = Append(s.log, s.term) /\ Len(l) = last + 1
  <2>1. PICK k \in Seq(Nat) : k = s.log
    BY <1>h, <1>0
  <2>2. PICK t \in Nat : t = s.term
    BY DEF Shape
  <2>3. Len(Append(k, t)) = Len(k) + 1
    BY ONLY k \in Seq(Nat), t \in Nat
  <2> QED
    BY <1>1, <2>1, <2>2, <2>3
<1>5. PICK a : a = [s EXCEPT !.role = "leader", !.leader = n, !.votes = {}, !.log = l,
                             !.next = next, !.match = match, !.mode = [p \in Server |-> "probe"]]
  OBVIOUS
<1>6. BecomeLeader(n, s) = CommitAlone(a)
  BY <1>1, <1>2, <1>3, <1>4, <1>5 DEF BecomeLeader
<1>7. /\ Shape(a) /\ a.role = "leader" /\ a.log = l /\ a.term = s.term /\ a.next = next
      /\ a.match = match /\ a.commit = s.commit /\ a.applied = s.applied /\ a.stopped = s.stopped
  BY <1>5 DEF Shape, Fields, Roles
<1>8. Bounded(n, a)
  <2>1. ASSUME NEW p \in Server
        PROVE  next[p] <= Len(l) + 1 /\ match[p] <= Len(l) /\ (match[p] = 0 \/ p = n)
    BY <1>2, <1>3, <1>4
  <2> QED
    BY <1>7, <2>1 DEF Bounded
<1>9. Commits(E) => CommitFits(E, n, CommitAlone(a))
  <2>1. a.log = Append(node[n].log, a.term)
    BY <1>0, <1>4, <1>7
  <2> QED
    BY <1>0, <1>7, <2>1, AloneFits
<1>10. PICK x : x = CommitAlone(a)
  OBVIOUS
<1>11. x.stopped = a.stopped /\ Bounded(n, x)
  BY <1>7, <1>8, <1>10, CommitBounded
<1> QED
  BY <1>0, <1>6, <1>7, <1>9, <1>10, <1>11

(* Fields other than these are no matter for it.                            *)
LEMMA CommitFitsSame ==
    ASSUME NEW E, NEW n, NEW s, NEW s1, Keeps(s, s1), s1.role = s.role, s1.term = s.term,
           CommitFits(E, n, s)
    PROVE  CommitFits(E, n, s1)
<1>1. s1.log = s.log /\ s1.commit = s.commit /\ s1.applied = s.applied
  BY DEF Keeps
<1>2. Told(E, s) => Told(E, s1)
  BY <1>1 DEF Told
<1>3. Tallied(n, s) => Tallied(n, s1)
  BY <1>1 DEF Tallied
<1> QED
  BY <1>1, <1>2, <1>3 DEF CommitFits

-----------------------------------------------------------------------------
(* The actions.  A step that commits nothing and sends no append.           *)
LEMMA QuietHonest ==
    ASSUME NEW E, NEW n, NEW s1, Keeps(node[n], s1), NEW ms, \A m \in ms : m.type # "AppendEntries"
    PROVE  Honest(E, n, s1, ms)
BY DEF Honest, CommitFits, Tells, Keeps

(* Answering without changing anything.                                     *)
LEMMA AnswerProceeds ==
    ASSUME NEW E, NEW F, Between(E, F), NEW n \in Server, NEW ms,
           UNCHANGED <<node, disk, leaders>>, Send(ms),
           \A m \in ms : Suits(E, n, node[n], m) /\ m.type # "AppendEntries"
    PROVE  Proceeding(E, F)
<1>h. /\ IInv /\ Shape(node[n]) /\ node[n].term \in Nat /\ node[n].stopped = FALSE
  BY HereSafe
<1>1. Update(n, node[n])
  BY <1>h DEF IInv, Typed, LeadersRecorded, Update
<1>2. PICK s : s = node[n]
  OBVIOUS
<1>3. Keeps(node[n], s) /\ s.term >= node[n].term /\ s.term \in Nat
  BY <1>h, <1>2 DEF Keeps
<1>4. Update(n, s) /\ \A m \in ms : Suits(E, n, s, m)
  BY <1>1, <1>2
<1>5. CASE s.role # "leader"
  <2>1. Candidacy(n, s)
    BY <1>2 DEF Candidacy
  <2> QED
    BY <1>3, <1>4, <1>5, <2>1, QuietProceeds
<1>6. CASE s.role = "leader"
  <2>1. Bounded(n, s)
    BY <1>2, <1>6, LeaderBounded
  <2>2. Honest(E, n, s, ms)
    BY <1>3, QuietHonest
  <2>3. /\ node[n].role = "leader" /\ s.term = node[n].term /\ s.log = node[n].log
        /\ s.stopped = FALSE
    BY <1>2, <1>6, <1>h
  <2> QED
    BY <1>4, <1>6, <2>1, <2>2, <2>3, LeaderProceeds
<1> QED
  BY <1>5, <1>6

(* A leader that replicates to all.                                         *)
LEMMA ReplicateProceeds ==
    ASSUME NEW E, NEW F, Between(E, F), NEW n \in Server, node[n].role = "leader",
           NEW s, Shape(s), LogSame(node[n], s), Bounded(n, s), s.stopped = FALSE,
           Commits(E) => CommitFits(E, n, s), ReplicateToAll(n, s)
    PROVE  Proceeding(E, F)
<1>1. PICK full \in FullWindows(s) :
         Update(n, MarkSent(n, s, full)) /\ Send(AppendRequests(n, s, full))
  BY DEF ReplicateToAll
<1>2. /\ ProgressOK(s) /\ s.log = node[n].log /\ s.log \in Seq(Nat)
      /\ s.role = "leader" /\ s.term = node[n].term
  BY HereSafe DEF LogSame
<1>3. PICK s1 : s1 = MarkSent(n, s, full)
  OBVIOUS
<1>4. PICK ms : ms = AppendRequests(n, s, full)
  OBVIOUS
<1>5. /\ Keeps(s, s1) /\ LogSame(s, s1) /\ Bounded(n, s1)
      /\ \A r \in ms : r.commit = s.commit /\ Suits(E, n, s1, r)
  BY <1>2, <1>3, <1>4, SendFits
<1>6. /\ s1.role = "leader" /\ s1.term = node[n].term /\ s1.log = node[n].log
      /\ s1.stopped = FALSE /\ s1.commit = s.commit
  BY <1>2, <1>5 DEF Keeps, LogSame
<1>7. Commits(E) => CommitFits(E, n, s1)
  BY <1>2, <1>5, <1>6, CommitFitsSame
<1>8. Honest(E, n, s1, ms)
  BY <1>5, <1>6, <1>7 DEF Honest, Tells
<1> QED
  BY <1>1, <1>3, <1>4, <1>5, <1>6, <1>8, LeaderProceeds

(* begin_election() from a state with the node's log.                       *)
LEMMA ElectionProceeds ==
    ASSUME NEW E, NEW F, Between(E, F), NEW n \in Server,
           NEW s, Shape(s), Keeps(node[n], s), s.term >= node[n].term,
           Update(n, BeginElection(n, s)), Send(VoteRequests(n, Candidate(n, s), FALSE))
    PROVE  Proceeding(E, F)
<1>h. /\ IInv /\ Shape(node[n]) /\ node[n].term \in Nat /\ node[n].log \in Seq(Nat) /\ s.term \in Nat
  BY HereSafe DEF Shape
<1>1. PICK c : c = Candidate(n, s)
  OBVIOUS
<1>2. Shape(c) /\ c.role = "candidate" /\ c.term = s.term + 1 /\ Keeps(s, c)
  BY <1>1, CandidateAdvances, MethodsKeep
<1>3. Keeps(node[n], c)
  BY <1>2 DEF Keeps
<1>4. PICK t \in Nat : t = c.term /\ t > node[n].term
  BY <1>h, <1>2
<1>5. PICK ms : ms = VoteRequests(n, c, FALSE)
  OBVIOUS
<1>6. Send(ms) /\ \A m \in ms : m.type # "AppendEntries"
  BY <1>1, <1>5 DEF VoteRequests
<1>7. CASE ~HasQuorum({n})
  <2>1. Update(n, c)
    BY <1>1, <1>7 DEF BeginElection
  <2>2. Candidacy(n, c)
    BY <1>4 DEF Candidacy
  <2>3. \A m \in ms : Suits(E, n, c, m)
    BY <1>4, <1>5, AskSuits
  <2>4. c.term \in Nat /\ c.term >= node[n].term /\ c.role # "leader"
    BY <1>h, <1>2, <1>4
  <2> QED
    BY <1>3, <1>6, <2>1, <2>2, <2>3, <2>4, QuietProceeds
<1>8. CASE HasQuorum({n})
  <2>1. PICK s1 : s1 = BecomeLeader(n, c)
    OBVIOUS
  <2>2. Update(n, s1)
    BY <1>1, <1>8, <2>1 DEF BeginElection
  <2>3. s1.role = "leader" /\ s1.term = t
    BY <1>2, <1>4, <2>1, BecomeLeaderKeeps
  <2>4. s1.log = Append(node[n].log, s1.term)
    <3>1. c.log = node[n].log
      BY <1>3 DEF Keeps
    <3> QED
      BY <1>h, <1>2, <1>4, <2>1, <2>3, <3>1, BecomeLeaderAppends
  <2>5. s1.stopped = FALSE /\ Bounded(n, s1) /\ (Commits(E) => CommitFits(E, n, s1))
    BY <1>2, <1>3, <2>1, BecomeLeaderFits
  <2>6. Wins(n, s1.term)
    <3>1. ~VotedFor(n, t, n)
      BY <1>h, <1>4 DEF VotedFor
    <3>2. <<t, n>> \notin leaders
      BY <1>h, <3>1 DEF IInv, LeadersElected
    <3>3. {n} \in SUBSET Server /\ \A v \in {n} : v = n
      OBVIOUS
    <3> QED
      BY <1>8, <2>3, <3>2, <3>3 DEF Wins
  <2>7. \A m \in ms : Suits(F, n, s1, m)
    BY <1>4, <1>5, <2>3, AskSuits
  <2>8. Honest(E, n, s1, ms)
    BY <1>6, <2>5 DEF Honest, Tells
  <2>9. s1.term \in Nat /\ s1.term >= node[n].term
    BY <1>h, <1>4, <2>3
  <2> QED
    BY <1>6, <2>2, <2>3, <2>4, <2>5, <2>6, <2>7, <2>8, <2>9, LeadProceeds
<1> QED
  BY <1>7, <1>8

(* Timers, client commands and restarts.                                    *)
LEMMA TimersProceed ==
    ASSUME NEW E, NEW F, Between(E, F), NEW n \in Server,
           \/ ElectionTimeout(n) \/ CheckQuorum(n) \/ Heartbeat(n)
           \/ AppendCommand(n) \/ Restart(n)
    PROVE  Proceeding(E, F)
<1>1. PICK s : s = node[n]
  OBVIOUS
<1>h. /\ IInv /\ Shape(s) /\ s.term \in Nat /\ ProgressOK(s) /\ s.log \in Seq(Nat) /\ s.stopped = FALSE
  BY <1>1, HereSafe
<1>k. s.term >= node[n].term /\ Keeps(node[n], s)
  BY <1>1, <1>h DEF Keeps
<1>2. CASE ElectionTimeout(n)
  <2>1. CASE setup.preVote
    <3>1. PICK s1 : s1 = BeginPreVote(n, s)
      OBVIOUS
    <3>2. PICK ms : ms = VoteRequests(n, s, TRUE)
      OBVIOUS
    <3>3. Update(n, s1) /\ Send(ms)
      BY <1>1, <1>2, <2>1, <3>1, <3>2 DEF ElectionTimeout
    <3>4. s1.role = "pre_candidate" /\ s1.term = s.term /\ Keeps(node[n], s1)
      <4>1. Keeps(s, s1)
        BY <1>h, <3>1, MethodsKeep
      <4> QED
        BY <1>1, <1>h, <3>1, <4>1 DEF BeginPreVote, Shape, Fields
    <3>5. \A m \in ms : Suits(E, n, s1, m)
      BY <3>2 DEF VoteRequests, Suits
    <3>6. Candidacy(n, s1) /\ s1.role # "leader"
      BY <3>4 DEF Candidacy
    <3> QED
      BY <1>h, <1>k, <3>3, <3>4, <3>5, <3>6, QuietProceeds
  <2>2. CASE ~setup.preVote
    <3>1. Update(n, BeginElection(n, s)) /\ Send(VoteRequests(n, Candidate(n, s), FALSE))
      BY <1>1, <1>2, <2>2 DEF ElectionTimeout
    <3> QED
      BY <1>h, <1>k, <3>1, ElectionProceeds
  <2> QED
    BY <2>1, <2>2
<1>3. CASE CheckQuorum(n)
  <2>1. PICK s1 : s1 = StepDown(s, s.term)
    OBVIOUS
  <2>2. Update(n, s1) /\ Send({})
    BY <1>1, <1>3, <2>1 DEF CheckQuorum, Send
  <2>3. s.term >= s.term
    BY <1>h
  <2>4. s1.role = "follower" /\ s1.term = s.term /\ Keeps(node[n], s1)
    BY <1>1, <1>h, <2>1, <2>3, StepDownAdvances, MethodsKeep
  <2>5. Candidacy(n, s1) /\ s1.role # "leader"
    BY <2>4 DEF Candidacy
  <2>6. \A m \in {} : Suits(E, n, s1, m)
    OBVIOUS
  <2> QED
    BY <1>h, <1>k, <2>2, <2>4, <2>5, <2>6, QuietProceeds
<1>4. CASE Heartbeat(n)
  <2>1. node[n].role = "leader" /\ ReplicateToAll(n, s)
    BY <1>1, <1>4 DEF Heartbeat
  <2>2. LogSame(node[n], s)
    BY <1>1, <1>h DEF LogSame
  <2>3. Bounded(n, s)
    BY <1>1, <2>1, LeaderBounded
  <2>4. CommitFits(E, n, s)
    BY <1>k DEF CommitFits, Keeps
  <2> QED
    BY <1>h, <2>1, <2>2, <2>3, <2>4, ReplicateProceeds
<1>5. CASE AppendCommand(n)
  <2>1. PICK l \in Seq(Nat) : l = s.log
    BY <1>h
  <2>2. PICK t \in Nat : t = s.term
    BY <1>h
  <2>3. PICK k \in Seq(Nat) : k = Append(l, t)
    <3>1. Append(l, t) \in Seq(Nat)
      BY ONLY l \in Seq(Nat), t \in Nat
    <3> QED
      BY ONLY <3>1
  <2>4. Len(k) = Len(l) + 1 /\ Len(l) \in Nat
    BY <2>3
  <2>5. PICK a : a = [s EXCEPT !.log = k]
    OBVIOUS
  <2>6. PICK s1 : s1 = CommitAlone(a)
    OBVIOUS
  <2>7. s.role = "leader" /\ Update(n, s1) /\ Send({})
    <3>1. [s EXCEPT !.log = Append(@, s.term)] = a
      BY <1>h, <2>1, <2>2, <2>3, <2>5 DEF Shape, Fields
    <3> QED
      BY <1>1, <1>5, <2>6, <3>1 DEF AppendCommand, Send
  <2>8. /\ Shape(a) /\ a.log = k /\ a.role = s.role /\ a.term = t /\ a.stopped = FALSE
        /\ a.next = s.next /\ a.match = s.match /\ a.commit = s.commit /\ a.applied = s.applied
    BY <1>h, <2>2, <2>5 DEF Shape, Fields
  <2>9. Bounded(n, s)
    BY <1>1, <2>7, LeaderBounded
  <2>10. Bounded(n, a)
    <3>1. ASSUME NEW p \in Server PROVE s.next[p] <= Len(k) + 1 /\ s.match[p] <= Len(k)
      <4>1. PICK i \in Nat : i = s.next[p]
        BY <1>h DEF ProgressOK
      <4>2. PICK j \in Nat : j = s.match[p]
        BY <1>h DEF ProgressOK
      <4>3. i <= Len(l) + 1 /\ j <= Len(l)
        BY <2>1, <2>9, <4>1, <4>2 DEF Bounded
      <4> QED
        BY <2>4, <4>1, <4>2, <4>3
    <3> QED
      BY <2>2, <2>8, <2>9, <3>1 DEF Bounded
  <2>11. s1.log = k /\ s1.role = "leader" /\ s1.term = t /\ s1.stopped = FALSE /\ Bounded(n, s1)
    BY <2>6, <2>7, <2>8, <2>10, CommitBounded
  <2>12. Commits(E) => CommitFits(E, n, s1)
    <3>1. a.role = "leader" /\ a.log = Append(node[n].log, a.term)
      BY <1>1, <2>1, <2>3, <2>7, <2>8
    <3>2. a.commit = node[n].commit /\ a.applied = node[n].applied
      BY <1>1, <2>8
    <3> QED
      BY <2>6, <2>8, <3>1, <3>2, AloneFits
  <2>e. PICK ms : ms = {}
    OBVIOUS
  <2>13. Honest(E, n, s1, ms) /\ Send(ms)
    BY <2>7, <2>12, <2>e DEF Honest, Tells
  <2>14. /\ s1.log = Append(node[n].log, s1.term) /\ s1.term \in Nat /\ s1.term >= node[n].term
         /\ node[n].role = "leader" /\ node[n].term = s1.term
    BY <1>1, <2>1, <2>2, <2>3, <2>7, <2>11
  <2>15. \A m \in ms : F[s1.term] = s1.log => Suits(F, n, s1, m)
    BY <2>e
  <2> QED
    BY <2>7, <2>11, <2>13, <2>14, <2>15, LeadProceeds
<1>6. CASE Restart(n)
  <2>1. PICK s1 : s1 = RestoredFrom(s, disk[n], s.log)
    OBVIOUS
  <2>2. Update(n, s1) /\ Send({})
    BY <1>1, <1>6, <2>1 DEF Restart, Send
  <2>3. disk[n].term = s.term
    BY <1>1, <1>h DEF IInv, Typed, HardState
  <2>4. /\ s1.role = "follower" /\ s1.term = s.term /\ s1.log = s.log
        /\ s1.commit = s.commit /\ s1.applied = s.applied /\ s1.stopped = FALSE
    BY <2>1, <2>3 DEF RestoredFrom, Restored
  <2>5. Keeps(node[n], s1) /\ Candidacy(n, s1) /\ s1.role # "leader"
    BY <1>1, <1>h, <2>4 DEF Keeps, Candidacy
  <2>6. \A m \in {} : Suits(E, n, s1, m)
    OBVIOUS
  <2> QED
    BY <1>h, <1>k, <2>2, <2>4, <2>5, <2>6, QuietProceeds
<1> QED
  BY <1>2, <1>3, <1>4, <1>5, <1>6

(* Stepping down.                                                           *)
LEMMA StepDownProceeds ==
    ASSUME NEW E, NEW F, Between(E, F), NEW n \in Server, NEW t \in Nat, t >= node[n].term,
           Update(n, StepDown(node[n], t)), UNCHANGED msgs
    PROVE  Proceeding(E, F)
<1>1. PICK s1 : s1 = StepDown(node[n], t)
  OBVIOUS
<1>2. PICK ms : ms = {}
  OBVIOUS
<1>3. s1.role = "follower" /\ s1.term = t /\ Keeps(node[n], s1)
  BY <1>1, HereSafe, StepDownAdvances, MethodsKeep
<1>4. Candidacy(n, s1) /\ s1.role # "leader" /\ s1.term \in Nat /\ s1.term >= node[n].term
  BY <1>3 DEF Candidacy
<1>5. Send(ms) /\ \A m \in ms : Suits(E, n, s1, m)
  BY <1>2 DEF Send
<1> QED
  BY <1>1, <1>3, <1>4, <1>5, QuietProceeds

(* Requests for votes.                                                      *)
LEMMA RequestVoteProceeds ==
    ASSUME NEW E, NEW F, Between(E, F), NEW m \in msgs, HandlePreVote(m) \/ HandleRequestVote(m)
    PROVE  Proceeding(E, F)
<1>0. IInv
  BY DEF Between
<1>1. PICK n \in Server : n = m.to
  BY <1>0, MessageHere
<1>2. PICK s : s = node[n]
  OBVIOUS
<1>m. m.from \in Server /\ m.term \in Nat
  BY <1>0, MessageHere
<1>h. /\ Shape(s) /\ s.term \in Nat /\ ProgressOK(s) /\ s.log \in Seq(Nat) /\ s.stopped = FALSE
  BY <1>2, HereSafe
<1>3. ASSUME NEW t, NEW b, ~b \/ m.pre, Send({VoteResponse(m, t, b)}), UNCHANGED <<node, disk, leaders>>
      PROVE  Proceeding(E, F)
  <2>1. PICK ms : ms = {VoteResponse(m, t, b)}
    OBVIOUS
  <2>2. \A r \in ms : r.type # "AppendEntries"
    BY <2>1 DEF VoteResponse
  <2>3. \A r \in ms : Suits(E, n, node[n], r)
    BY <1>3, <2>1 DEF VoteResponse, Suits
  <2> QED
    BY <1>3, <2>1, <2>2, <2>3, AnswerProceeds
<1>4. CASE HandlePreVote(m)
  <2>1. PICK b : b = (~s.stopped /\ m.term >= s.term /\ UpToDate(s.log, m.lastIndex, m.lastTerm))
    OBVIOUS
  <2>2. m.pre /\ Send({VoteResponse(m, s.term, b)}) /\ UNCHANGED <<node, disk, leaders>>
    BY <1>1, <1>2, <1>4, <2>1 DEF HandlePreVote
  <2> QED
    BY <1>3, <2>2
<1>5. CASE HandleRequestVote(m) /\ m.term < s.term
  <2>1. Send({VoteResponse(m, s.term, FALSE)}) /\ UNCHANGED <<node, disk, leaders>>
    BY <1>1, <1>2, <1>5 DEF HandleRequestVote
  <2> QED
    BY <1>3, <2>1
<1>6. CASE HandleRequestVote(m) /\ m.term >= s.term
  <2>1. PICK d : d = IF m.term > s.term THEN StepDown(s, m.term) ELSE s
    OBVIOUS
  <2>2. PICK s1 : s1 = Voted(s, m)
    OBVIOUS
  <2>3. PICK b : b = MayGrant(d, m)
    OBVIOUS
  <2>4. PICK ms : ms = {VoteResponse(m, m.term, b)}
    OBVIOUS
  <2>5. m.type = "RequestVote" /\ ~m.pre /\ Update(n, s1) /\ Send(ms)
    BY <1>1, <1>2, <1>6, <1>h, <1>m, <2>1, <2>2, <2>3, <2>4 DEF HandleRequestVote
  <2>6. /\ Keeps(s, s1) /\ s1.term = m.term /\ s1.role \in {"follower", s.role}
        /\ s1.role # "follower" => s.term = m.term
        /\ s1.next = s.next /\ s1.match = s.match
    BY <1>6, <1>h, <1>m, <2>2, VotedKeeps
  <2>7. d.log = s.log
    BY <1>h, <2>1, StepDownKeepsLog
  <2>8. ASSUME NEW r \in ms PROVE Suits(E, n, s1, r) /\ r.type # "AppendEntries"
    <3>1. /\ r.type = "VoteResponse" /\ r.pre = m.pre /\ r.from = n /\ r.to = m.from
          /\ r.term = m.term /\ r.granted = b
      BY <1>1, <2>4, <2>8 DEF VoteResponse
    <3>2. ASSUME r.granted PROVE GrantFits(n, s1, r)
      <4>1. UpToDate(node[n].log, m.lastIndex, m.lastTerm)
        BY <1>2, <2>3, <2>7, <3>1, <3>2 DEF MayGrant
      <4> QED
        BY <1>2, <2>5, <2>6, <3>1, <4>1 DEF GrantFits, Keeps
    <3> QED
      BY <3>1, <3>2 DEF Suits
  <2>9. CASE s1.role # "leader"
    <3>1. Candidacy(n, s1)
      BY <1>2, <2>6 DEF Candidacy
    <3>2. s1.term \in Nat /\ s1.term >= node[n].term /\ Keeps(node[n], s1)
      BY <1>2, <1>6, <1>m, <2>6
    <3> QED
      BY <2>5, <2>8, <2>9, <3>1, <3>2, QuietProceeds
  <2>10. CASE s1.role = "leader"
    <3>1. node[n].role = "leader" /\ s1.term = node[n].term /\ s1.log = node[n].log /\ s1.stopped = FALSE
      BY <1>2, <1>h, <2>6, <2>10 DEF Keeps
    <3>2. Bounded(n, s1)
      <4>1. Bounded(n, node[n])
        BY <3>1, LeaderBounded
      <4> QED
        BY <1>2, <2>6, <3>1, <4>1 DEF Bounded
    <3>3. Honest(E, n, s1, ms)
      BY <1>2, <2>6, <2>8, QuietHonest
    <3> QED
      BY <2>5, <2>8, <2>10, <3>1, <3>2, <3>3, LeaderProceeds
  <2> QED
    BY <2>9, <2>10
<1> QED
  BY <1>4, <1>5, <1>6, <1>h, <1>m

(* Votes that come in.                                                      *)
LEMMA VoteResponseProceeds ==
    ASSUME NEW E, NEW F, Between(E, F), NEW m \in msgs, HandleVoteResponse(m)
    PROVE  Proceeding(E, F)
<1>0. IInv /\ FreshTerms
  BY DEF Between
<1>1. PICK n \in Server : n = m.to
  BY <1>0, MessageHere
<1>2. PICK s : s = node[n]
  OBVIOUS
<1>m. m.from \in Server /\ m.term \in Nat /\ m \in VoteResponses
  BY <1>0, MessageHere DEF HandleVoteResponse, MessageOK
<1>h. /\ Shape(s) /\ s.term \in Nat /\ ProgressOK(s) /\ s.log \in Seq(Nat) /\ s.stopped = FALSE
  BY <1>2, HereSafe
<1>3. PICK s1 : s1 = [s EXCEPT !.votes = s.votes \cup {m.from}]
  OBVIOUS
<1>4. /\ Shape(s1) /\ s1.role = s.role /\ s1.term = s.term /\ s1.votes = s.votes \cup {m.from}
      /\ Keeps(s, s1) /\ ProgressOK(s1) /\ s1.log = s.log /\ s1.votes \in SUBSET Server
  BY <1>m, <1>h, <1>3 DEF Shape, Fields, ProgressOK, Keeps
<1>5. \/ m.term > s.term /\ Update(n, StepDown(s, m.term)) /\ UNCHANGED msgs
      \/ s.role \in {"candidate", "pre_candidate"} /\ Update(n, s1) /\ UNCHANGED msgs
      \/ Update(n, BeginElection(n, s1)) /\ Send(VoteRequests(n, Candidate(n, s1), FALSE))
      \/ /\ m.term = s.term /\ ~m.pre /\ s.role = "candidate" /\ m.granted
         /\ HasQuorum(s1.votes) /\ ReplicateToAll(n, BecomeLeader(n, s1))
  <2>1. s1 = [s EXCEPT !.votes = @ \cup {m.from}]
    BY <1>3, <1>h DEF Shape, Fields
  <2> QED
    BY <1>1, <1>2, <2>1 DEF HandleVoteResponse
<1>6. CASE m.term > s.term /\ Update(n, StepDown(s, m.term)) /\ UNCHANGED msgs
  <2>1. m.term >= node[n].term
    BY <1>2, <1>6, <1>h, <1>m
  <2> QED
    BY <1>2, <1>6, <1>m, <2>1, StepDownProceeds
<1>7. CASE s.role \in {"candidate", "pre_candidate"} /\ Update(n, s1) /\ UNCHANGED msgs
  <2>1. PICK ms : ms = {}
    OBVIOUS
  <2>2. Send(ms) /\ \A r \in ms : Suits(E, n, s1, r)
    BY <1>7, <2>1 DEF Send
  <2>3. /\ Candidacy(n, s1) /\ s1.role # "leader" /\ s1.term \in Nat /\ s1.term >= node[n].term
        /\ Keeps(node[n], s1)
    BY <1>2, <1>4, <1>7, <1>h DEF Candidacy
  <2> QED
    BY <1>7, <2>2, <2>3, QuietProceeds
<1>8. CASE Update(n, BeginElection(n, s1)) /\ Send(VoteRequests(n, Candidate(n, s1), FALSE))
  <2>1. s1.term >= node[n].term /\ Keeps(node[n], s1)
    BY <1>2, <1>4, <1>h
  <2> QED
    BY <1>4, <1>8, <2>1, ElectionProceeds
<1>9. CASE /\ m.term = s.term /\ ~m.pre /\ s.role = "candidate" /\ m.granted
           /\ HasQuorum(s1.votes) /\ ReplicateToAll(n, BecomeLeader(n, s1))
  <2>1. PICK l : l = BecomeLeader(n, s1)
    OBVIOUS
  <2>2. PICK t \in Nat : t = s.term
    BY <1>h
  <2>3. Shape(l) /\ l.role = "leader" /\ l.term = t
    BY <1>4, <2>1, <2>2, BecomeLeaderKeeps
  <2>4. l.log = Append(s.log, t) /\ ProgressOK(l)
    BY <1>4, <1>h, <2>1, <2>2, BecomeLeaderAppends
  <2>5. l.stopped = FALSE /\ Bounded(n, l) /\ (Commits(E) => CommitFits(E, n, l))
    BY <1>2, <1>4, <2>1, BecomeLeaderFits
  <2>6. l.log \in Seq(Nat)
    <3>1. PICK k \in Seq(Nat) : k = s.log
      BY <1>h
    <3>2. Append(k, t) \in Seq(Nat)
      BY ONLY k \in Seq(Nat), t \in Nat
    <3> QED
      BY <2>4, <3>1, <3>2
  <2>7. PICK full \in FullWindows(l) :
           Update(n, MarkSent(n, l, full)) /\ Send(AppendRequests(n, l, full))
    BY <1>9, <2>1 DEF ReplicateToAll
  <2>8. PICK k : k = MarkSent(n, l, full)
    OBVIOUS
  <2>9. PICK ms : ms = AppendRequests(n, l, full)
    OBVIOUS
  <2>10. /\ Keeps(l, k) /\ LogSame(l, k) /\ Bounded(n, k)
         /\ \A r \in ms : r.commit = l.commit /\ Suits(F, n, k, r)
    BY <2>3, <2>4, <2>5, <2>6, <2>8, <2>9, SendFits
  <2>11. /\ k.role = "leader" /\ k.term = t /\ k.log = Append(node[n].log, k.term)
         /\ k.stopped = FALSE /\ k.commit = l.commit
    BY <1>2, <2>3, <2>4, <2>5, <2>10 DEF Keeps, LogSame
  <2>12. Wins(n, k.term)
    <3>1. <<t, n>> \notin leaders
      BY <1>0, <1>2, <1>9, <2>2 DEF FreshTerms
    <3>2. m = Grant(m.from, t, n)
      BY <1>1, <1>9, <1>m, <2>2 DEF VoteResponses, Grant
    <3>3. Supports(msgs, s.votes, t, n)
      BY <1>0, <1>2, <1>9, <2>2 DEF IInv, CandidatesCount
    <3>4. ASSUME NEW v \in s1.votes PROVE v = n \/ Grant(v, t, n) \in msgs
      <4>1. CASE v = m.from
        BY <3>2, <4>1
      <4>2. CASE v # m.from
        BY <1>4, <3>3, <4>2 DEF Supports
      <4> QED
        BY <4>1, <4>2
    <3>5. node[n].role = "candidate" /\ node[n].term = t
      BY <1>2, <1>9, <2>2
    <3> QED
      BY <1>4, <1>9, <2>11, <3>1, <3>4, <3>5 DEF Wins
  <2>13. Commits(E) => CommitFits(E, n, k)
    BY <2>3, <2>5, <2>10, <2>11, CommitFitsSame
  <2>14. Honest(E, n, k, ms)
    BY <2>10, <2>11, <2>13 DEF Honest, Tells
  <2>15. k.term \in Nat /\ k.term >= node[n].term
    BY <1>2, <2>2, <2>11
  <2>16. Update(n, k) /\ Send(ms)
    BY <2>7, <2>8, <2>9
  <2> QED
    BY <2>10, <2>11, <2>12, <2>14, <2>15, <2>16, LeadProceeds
<1> QED
  BY <1>5, <1>6, <1>7, <1>8, <1>9

(* Leader transfer.                                                         *)
LEMMA TransferProceeds ==
    ASSUME NEW E, NEW F, Between(E, F), NEW n \in Server, NEW p \in Server, TransferLeader(n, p)
    PROVE  Proceeding(E, F)
<1>h. /\ Shape(node[n]) /\ node[n].term \in Nat /\ ProgressOK(node[n]) /\ node[n].stopped = FALSE
  BY HereSafe
<1>1. PICK s : s = [node[n] EXCEPT !.transfer = p]
  OBVIOUS
<1>2. /\ Shape(s) /\ LogSame(node[n], s) /\ Keeps(node[n], s)
      /\ s.next = node[n].next /\ s.match = node[n].match
  BY <1>1, <1>h DEF Shape, Fields, LogSame, ProgressOK, Keeps
<1>3. node[n].role = "leader" /\ s.role = "leader" /\ s.log = node[n].log /\ s.term = node[n].term
  BY <1>1, <1>2 DEF TransferLeader, LogSame
<1>4. Bounded(n, s)
  <2>1. Bounded(n, node[n])
    BY <1>3, LeaderBounded
  <2> QED
    BY <1>2, <1>3, <2>1 DEF Bounded
<1>5. CASE Update(n, [s EXCEPT !.transfer = Nil]) /\ Send({TimeoutNow(n, s, p)})
  <2>1. PICK s1 : s1 = [s EXCEPT !.transfer = Nil]
    OBVIOUS
  <2>2. PICK ms : ms = {TimeoutNow(n, s, p)}
    OBVIOUS
  <2>3. /\ s1.role = "leader" /\ s1.term = node[n].term /\ s1.log = node[n].log
        /\ s1.stopped = s.stopped /\ s1.commit = s.commit /\ s1.applied = s.applied
        /\ s1.next = s.next /\ s1.match = s.match
    BY <1>2, <1>3, <2>1 DEF Shape, Fields
  <2>4. Bounded(n, s1)
    BY <1>3, <1>4, <2>3 DEF Bounded
  <2>5. Keeps(node[n], s1) /\ s1.stopped = FALSE
    BY <1>2, <1>h, <2>3 DEF Keeps
  <2>6. \A r \in ms : Suits(E, n, s1, r) /\ r.type # "AppendEntries"
    BY <2>2 DEF TimeoutNow, Suits
  <2>7. Honest(E, n, s1, ms)
    BY <2>5, <2>6, QuietHonest
  <2>8. Update(n, s1) /\ Send(ms)
    BY <1>5, <2>1, <2>2
  <2> QED
    BY <1>3, <2>3, <2>4, <2>5, <2>6, <2>7, <2>8, LeaderProceeds
<1>6. CASE ReplicateToAll(n, s)
  <2>1. CommitFits(E, n, s) /\ s.stopped = FALSE
    BY <1>2, <1>h DEF CommitFits, Keeps
  <2> QED
    BY <1>2, <1>3, <1>4, <1>6, <2>1, ReplicateProceeds
<1> QED
  BY <1>1, <1>5, <1>6 DEF TransferLeader

(* handle_timeout_now() starts an election at once.                         *)
LEMMA TimeoutNowProceeds ==
    ASSUME NEW E, NEW F, Between(E, F), NEW m \in msgs, HandleTimeoutNow(m)
    PROVE  Proceeding(E, F)
<1>0. IInv
  BY DEF Between
<1>1. PICK n \in Server : n = m.to
  BY <1>0, MessageHere
<1>2. PICK s : s = node[n]
  OBVIOUS
<1>m. m.term \in Nat
  BY <1>0, MessageHere
<1>h. /\ Shape(s) /\ s.term \in Nat /\ s.stopped = FALSE
  BY <1>2, HereSafe
<1>3. PICK d : d = IF m.term > s.term THEN StepDown(s, m.term) ELSE s
  OBVIOUS
<1>4. /\ m.term >= s.term
      /\ \/ Update(n, d) /\ UNCHANGED msgs
         \/ Update(n, BeginElection(n, d)) /\ Send(VoteRequests(n, Candidate(n, d), FALSE))
  BY <1>1, <1>2, <1>3 DEF HandleTimeoutNow
<1>5. Shape(d) /\ d.term >= node[n].term /\ Keeps(node[n], d) /\ Keeps(s, s)
  <2>1. PICK x : x = StepDown(s, m.term)
    OBVIOUS
  <2>2. Shape(x) /\ x.term = m.term /\ Keeps(s, x)
    BY <1>4, <1>h, <1>m, <2>1, StepDownAdvances, MethodsKeep
  <2>3. Keeps(s, s)
    BY DEF Keeps
  <2> QED
    BY <1>2, <1>3, <1>4, <1>h, <1>m, <2>1, <2>2, <2>3
<1>6. CASE Update(n, BeginElection(n, d)) /\ Send(VoteRequests(n, Candidate(n, d), FALSE))
  BY <1>5, <1>6, ElectionProceeds
<1>7. CASE Update(n, d) /\ UNCHANGED msgs
  <2>1. CASE m.term > s.term
    <3>1. Update(n, StepDown(node[n], m.term)) /\ m.term >= node[n].term
      BY <1>2, <1>3, <1>4, <1>7, <2>1
    <3> QED
      BY <1>7, <1>m, <3>1, StepDownProceeds
  <2>2. CASE ~(m.term > s.term)
    <3>1. d = node[n]
      BY <1>2, <1>3, <2>2
    <3>2. UNCHANGED <<node, disk, leaders>>
      BY <1>0, <1>7, <3>1 DEF Update, IInv, Typed, LeadersRecorded
    <3>3. PICK ms : ms = {}
      OBVIOUS
    <3>4. Send(ms) /\ \A r \in ms : Suits(E, n, node[n], r) /\ r.type # "AppendEntries"
      BY <1>7, <3>3 DEF Send
    <3> QED
      BY <3>2, <3>4, AnswerProceeds
  <2> QED
    BY <2>1, <2>2
<1> QED
  BY <1>4, <1>6, <1>7

(* Acknowledgements and rejections.                                         *)
LEMMA AppendResponseProceeds ==
    ASSUME NEW E, NEW F, Between(E, F), NEW m \in msgs, HandleAppendResponse(m)
    PROVE  Proceeding(E, F)
<1>0. IInv /\ NoStaleAnswers /\ MsgSafe(E, m) /\ AppendOK(E, m)
  BY DEF Between, Safe, Canonical
<1>1. PICK n \in Server : n = m.to
  BY <1>0, MessageHere
<1>2. PICK s : s = node[n]
  OBVIOUS
<1>m. /\ m.from \in Server /\ m.term \in Nat /\ m.type = "AppendResponse"
      /\ m.match \in Nat /\ m.conflict \in Nat
  BY <1>0, MessageHere DEF HandleAppendResponse, AppendOK
<1>h. /\ Shape(s) /\ s.term \in Nat /\ ProgressOK(s) /\ s.log \in Seq(Nat) /\ s.stopped = FALSE
      /\ s.role = "leader" => s.log = E[s.term]
  BY <1>2, HereSafe
<1>3. PICK a : a = MarkReplicated(s, m.from, m.match)
  OBVIOUS
<1>4. PICK s1 : s1 = IF m.success THEN AdvanceCommit(n, a) ELSE MarkRejected(s, m)
  OBVIOUS
<1>5. \/ m.term > s.term /\ Update(n, StepDown(s, m.term)) /\ UNCHANGED msgs
      \/ /\ m.term = s.term /\ s.role = "leader"
         /\ \/ Update(n, [s1 EXCEPT !.transfer = Nil]) /\ Send({TimeoutNow(n, s1, m.from)})
            \/ ReplicateToAll(n, s1)
            \/ Update(n, s1) /\ UNCHANGED msgs
  BY <1>1, <1>2, <1>3, <1>4 DEF HandleAppendResponse
<1>6. CASE m.term > s.term /\ Update(n, StepDown(s, m.term)) /\ UNCHANGED msgs
  <2>1. m.term >= node[n].term
    BY <1>2, <1>6, <1>h, <1>m
  <2> QED
    BY <1>2, <1>6, <1>m, <2>1, StepDownProceeds
<1>7. ASSUME m.term = s.term, s.role = "leader"
      PROVE  /\ Shape(s1) /\ LogSame(s, s1) /\ Bounded(n, s1) /\ s1.stopped = FALSE
             /\ Commits(E) => CommitFits(E, n, s1)
  <2>1. Bounded(n, s) /\ <<s.term, n>> \in leaders
    BY <1>2, <1>7, LeaderBounded
  <2>2. CASE m.success
    <3>1. AckSafe(E, m)
      BY <1>0, <1>m, <2>2 DEF MsgSafe
    <3>2. m.match <= Len(s.log)
      BY <1>7, <1>h, <3>1 DEF AckSafe
    <3>3. Acked(m.from, s.term, m.match)
      <4>1. m.match >= m.match
        BY <1>m
      <4> QED
        BY <1>7, <1>m, <2>2, <4>1 DEF Acked, Acks
    <3>4. Bounded(n, a)
      BY <1>3, <1>h, <1>m, <2>1, <3>2, <3>3, ReplicatedBounded
    <3>5. Same(s, a) /\ LogSame(s, a) /\ Keeps(s, a)
      BY <1>3, <1>h, <1>m, ProgressKeeps, MarksKeepLog, MethodsKeep
    <3>6. Shape(a) /\ ProgressOK(a) /\ a.log \in Seq(Nat) /\ a.role = "leader" /\ a.stopped = FALSE
      BY <1>7, <1>h, <3>5, SameShape DEF LogSame, Keeps
    <3>7. s1 = AdvanceCommit(n, a)
      BY <1>4, <2>2
    <3>8. Same(a, s1) /\ LogSame(a, s1)
      BY <3>6, <3>7, CommitKeeps, CommitKeepsLog
    <3>9. Shape(s1) /\ LogSame(s, s1)
      BY <3>5, <3>6, <3>8, SameShape DEF LogSame
    <3>10. Bounded(n, s1) /\ s1.stopped = FALSE
      BY <3>4, <3>6, <3>7, CommitBounded
    <3>11. Commits(E) => CommitFits(E, n, s1)
      <4>1. a.commit = node[n].commit /\ a.applied = node[n].applied
        BY <1>2, <3>5 DEF Keeps
      <4> QED
        BY <3>4, <3>6, <3>7, <4>1, AdvanceFits
    <3> QED
      BY <3>9, <3>10, <3>11
  <2>3. CASE ~m.success
    <3>1. s1 = MarkRejected(s, m)
      BY <1>4, <2>3
    <3>2. m.conflict # 0
      BY <1>0, <1>1, <1>7, <1>m, <2>1, <2>3 DEF NoStaleAnswers
    <3>3. m.conflict <= Len(s.log)
      BY <1>0, <1>7, <1>h, <1>m, <2>3 DEF MsgSafe
    <3>4. Bounded(n, s1)
      BY <1>h, <1>m, <2>1, <3>1, <3>2, <3>3, RejectedBounded
    <3>5. Same(s, s1) /\ LogSame(s, s1) /\ Keeps(s, s1)
      BY <1>h, <1>m, <3>1, ProgressKeeps, RejectKeepsLog, MethodsKeep
    <3>6. Shape(s1) /\ s1.stopped = FALSE
      BY <1>h, <3>5, SameShape DEF Keeps
    <3>7. CommitFits(E, n, s1)
      BY <1>2, <3>5 DEF CommitFits, Keeps
    <3> QED
      BY <3>4, <3>5, <3>6, <3>7
  <2> QED
    BY <2>2, <2>3
<1>8. CASE m.term = s.term /\ s.role = "leader"
  <2>0. /\ Shape(s1) /\ LogSame(s, s1) /\ Bounded(n, s1) /\ s1.stopped = FALSE
        /\ Commits(E) => CommitFits(E, n, s1)
    BY <1>7, <1>8
  <2>1. /\ node[n].role = "leader" /\ s1.role = "leader" /\ s1.term = node[n].term
        /\ s1.log = node[n].log /\ LogSame(node[n], s1)
    BY <1>2, <1>8, <2>0 DEF LogSame
  <2>2. CASE Update(n, [s1 EXCEPT !.transfer = Nil]) /\ Send({TimeoutNow(n, s1, m.from)})
    <3>1. PICK s2 : s2 = [s1 EXCEPT !.transfer = Nil]
      OBVIOUS
    <3>2. PICK ms : ms = {TimeoutNow(n, s1, m.from)}
      OBVIOUS
    <3>3. /\ s2.role = s1.role /\ s2.term = s1.term /\ Keeps(s1, s2)
          /\ s2.next = s1.next /\ s2.match = s1.match
      BY <2>0, <3>1 DEF Shape, Fields, Keeps
    <3>4. s2.log = node[n].log /\ s2.stopped = FALSE /\ Bounded(n, s2)
      BY <2>0, <2>1, <3>3 DEF Keeps, Bounded
    <3>5. Commits(E) => CommitFits(E, n, s2)
      BY <2>0, <3>3, CommitFitsSame
    <3>6. \A r \in ms : Suits(E, n, s2, r) /\ r.type # "AppendEntries"
      BY <3>2 DEF TimeoutNow, Suits
    <3>7. Honest(E, n, s2, ms)
      BY <3>5, <3>6 DEF Honest, Tells
    <3>8. Update(n, s2) /\ Send(ms)
      BY <2>2, <3>1, <3>2
    <3> QED
      BY <2>1, <3>3, <3>4, <3>6, <3>7, <3>8, LeaderProceeds
  <2>3. CASE ReplicateToAll(n, s1)
    BY <2>0, <2>1, <2>3, ReplicateProceeds
  <2>4. CASE Update(n, s1) /\ UNCHANGED msgs
    <3>1. PICK ms : ms = {}
      OBVIOUS
    <3>2. Send(ms) /\ \A r \in ms : Suits(E, n, s1, r)
      BY <2>4, <3>1 DEF Send
    <3>3. Honest(E, n, s1, ms)
      BY <2>0, <3>1 DEF Honest, Tells
    <3> QED
      BY <2>0, <2>1, <2>4, <3>2, <3>3, LeaderProceeds
  <2> QED
    BY <1>5, <1>8, <1>h, <1>m, <2>2, <2>3, <2>4
<1> QED
  BY <1>5, <1>6, <1>8

-----------------------------------------------------------------------------
(* What putting the entries of an append in place does to a log: it agrees  *)
(* with the leader's up to the last of them, and no less far than before;   *)
(* cut for them, no less far than before.                                   *)
LEMMA SpliceGrafts ==
    ASSUME NEW E \in LogTable, E[0] = << >>, NEW l, Follows(E, l), NEW e, Follows(E, e),
           NEW m, PieceOf(e, m), m.prev <= Len(e), TermAt(l, m.prev) = TermAt(e, m.prev),
           TermAt(l, m.prev) = m.prevTerm
    PROVE  LET k == Spliced(l, m.prev, m.entries)
               h == Truncated(l, m)
           IN /\ k \in Seq(Nat) /\ h \in Seq(Nat)
              /\ SameTo(k, e, m.prev + Len(m.entries))
              /\ k = l \/ SameTo(k, e, Len(k))
              /\ h = l \/ SameTo(h, e, Len(h))
              /\ \A i \in Nat : SameTo(l, e, i) => SameTo(k, e, i) /\ SameTo(h, e, i)
<1>1. PICK a \in Seq(Nat) : a = l
  BY DEF Follows
<1>2. PICK b \in Seq(Nat) : b = e
  BY DEF Follows
<1>3. PICK p \in Nat : p = m.prev
  BY DEF PieceOf
<1>4. PICK es \in Seq(Nat) : es = m.entries
  BY DEF PieceOf
<1>5. PICK c \in Nat : c = Len(es)
  BY <1>4
<1>6. PICK k : k = Spliced(l, m.prev, m.entries)
  OBVIOUS
<1>7. PICK h : h = Truncated(l, m)
  OBVIOUS
<1>8. CASE Conflicts(l, m.prev, m.entries) = {}
  <2>1. k = a /\ h = a
    BY <1>1, <1>6, <1>7, <1>8 DEF Spliced, Truncated
  <2>2. \A i \in 1 .. c : TermAt(a, p + i) = es[i]
    BY <1>1, <1>3, <1>4, <1>5, <1>8 DEF Conflicts
  <2>3. \A j \in 1 .. Len(b) : b[j] # 0
    BY <1>2, EntryHasTerm
  <2>4. p + c <= Len(b) /\ \A i \in 1 .. c : es[i] = b[p + i]
    <3>1. CASE es = << >>
      BY <1>2, <1>3, <1>5, <3>1
    <3>2. CASE es # << >>
      BY <1>2, <1>3, <1>4, <1>5, <3>2 DEF PieceOf
    <3> QED
      BY <3>1, <3>2
  <2>5. SameTo(a, b, p)
    <3>1. CASE p = 0
      BY <3>1 DEF SameTo
    <3>2. CASE p # 0
      <4>1. p \in 1 .. Len(b)
        BY <2>4, <3>2
      <4>2. TermAt(a, p) = TermAt(b, p)
        BY <1>1, <1>2, <1>3
      <4>3. p \in 1 .. Len(a) /\ a[p] = b[p] /\ a[p] \in Nat
        BY ONLY <2>3, <4>1, <4>2, a \in Seq(Nat), b \in Seq(Nat), p \in Nat DEF TermAt
      <4>4. SameTo(a, E[a[p]], p) /\ SameTo(b, E[a[p]], p)
        BY <1>1, <1>2, <4>1, <4>3 DEF Follows
      <4>5. E[a[p]] \in Seq(Nat)
        BY <4>3 DEF LogTable
      <4> QED
        BY <4>4, <4>5, SameToFacts
    <3> QED
      BY <3>1, <3>2
  <2>6. ASSUME NEW i \in 1 .. c PROVE p + i \in 1 .. Len(a) /\ a[p + i] = b[p + i]
    <3>1. p + i \in 1 .. Len(b)
      BY <2>4
    <3>2. TermAt(a, p + i) = b[p + i] /\ b[p + i] # 0
      BY <2>2, <2>3, <2>4, <3>1
    <3> QED
      BY <3>2 DEF TermAt
  <2>7. SameTo(a, b, p + c)
    <3>1. p + c <= Len(a)
      <4>1. CASE c = 0
        BY <2>5, <4>1 DEF SameTo
      <4>2. CASE c # 0
        <5>1. c \in 1 .. c
          BY <4>2
        <5>2. p + c \in 1 .. Len(a)
          BY <2>6, <5>1
        <5> QED
          BY <5>2
      <4> QED
        BY <4>1, <4>2
    <3>2. ASSUME NEW j \in 1 .. p + c PROVE a[j] = b[j]
      <4>1. CASE j <= p
        <5>1. j \in 1 .. p
          BY ONLY <4>1, j \in 1 .. p + c, p \in Nat, c \in Nat
        <5> QED
          BY ONLY <2>5, <5>1 DEF SameTo
      <4>2. CASE j > p
        <5>1. j - p \in 1 .. c /\ p + (j - p) = j
          BY ONLY <4>2, j \in 1 .. p + c, p \in Nat, c \in Nat
        <5> QED
          BY <2>6, <5>1
      <4> QED
        BY <4>1, <4>2
    <3> QED
      BY <2>4, <3>1, <3>2 DEF SameTo
  <2> QED
    BY <1>1, <1>2, <1>3, <1>4, <1>5, <1>6, <1>7, <2>1, <2>7
<1>9. CASE Conflicts(l, m.prev, m.entries) # {}
  <2>1. PICK i0 \in 1 .. Len(m.entries) :
           LET hh == Truncated(l, m)
               kk == Spliced(l, m.prev, m.entries)
           IN /\ TermAt(l, m.prev + i0) # e[m.prev + i0]
              /\ hh \in Seq(Nat) /\ SameTo(hh, e, Len(hh)) /\ Len(hh) = m.prev + i0 - 1
              /\ SameTo(hh, l, Len(hh))
              /\ kk \in Seq(Nat) /\ SameTo(kk, e, Len(kk)) /\ Len(kk) = m.prev + Len(m.entries)
    BY <1>9, SplicePoint
  <2>2. /\ i0 \in 1 .. c /\ TermAt(a, p + i0) # b[p + i0]
        /\ h \in Seq(Nat) /\ SameTo(h, b, Len(h)) /\ Len(h) = p + i0 - 1
        /\ k \in Seq(Nat) /\ SameTo(k, b, Len(k)) /\ Len(k) = p + c
    BY <1>1, <1>2, <1>3, <1>4, <1>5, <1>6, <1>7, <2>1
  <2>3. ASSUME NEW i \in Nat, SameTo(a, b, i) PROVE SameTo(k, b, i) /\ SameTo(h, b, i)
    <3>1. i <= p + i0 - 1
      <4>1. SUFFICES ASSUME p + i0 <= i PROVE FALSE
        BY <2>2
      <4>2. p + i0 \in 1 .. i /\ p + i0 \in 1 .. Len(a)
        BY <2>2, <2>3, <4>1 DEF SameTo
      <4>3. a[p + i0] = b[p + i0]
        BY <2>3, <4>2 DEF SameTo
      <4> QED
        BY <2>2, <4>2, <4>3 DEF TermAt
    <3>2. i <= Len(h) /\ i <= Len(k) /\ Len(h) \in Nat /\ Len(k) \in Nat
      BY <2>2, <3>1
    <3> QED
      BY <2>2, <3>2, SameToFacts
  <2> QED
    BY <1>1, <1>2, <1>3, <1>4, <1>5, <1>6, <1>7, <2>2, <2>3
<1> QED
  BY <1>8, <1>9

(* The index a follower answers a mismatch with is not past prev.           *)
LEMMA ConflictWithin ==
    ASSUME NEW l \in Seq(Nat), \A j \in 1 .. Len(l) : l[j] # 0, NEW p \in Nat, p # 0
    PROVE  ConflictIndex(l, p) <= p
<1>1. CASE TermAt(l, p) = 0
  <2>1. ~(p \in 1 .. Len(l))
    BY <1>1 DEF TermAt
  <2>2. Len(l) + 1 <= p
    BY <2>1
  <2> QED
    BY <1>1, <2>2 DEF ConflictIndex
<1>2. CASE TermAt(l, p) # 0
  <2> DEFINE S == {i \in 1 .. p : \A j \in i .. p : l[j] = l[p]}
  <2>1. p \in S /\ S \in SUBSET Nat
    BY <1>2 DEF TermAt
  <2>2. ConflictIndex(l, p) = Min(S)
    BY <1>2 DEF ConflictIndex
  <2> HIDE DEF S
  <2> QED
    BY <2>1, <2>2, LeastNat
<1> QED
  BY <1>1, <1>2

(* Appends from the leader, and a crash in the middle of one.               *)
LEMMA AppendsProceed ==
    ASSUME NEW E, NEW F, Between(E, F), NEW m \in msgs, HandleAppendEntries(m) \/ CrashInAppend(m)
    PROVE  Proceeding(E, F)
<1>0. /\ IInv /\ FreshTerms /\ E \in LogTable /\ Canonical(E) /\ MsgSafe(E, m) /\ AppendOK(E, m)
  BY DEF Between, Safe, Canonical
<1>1. PICK n \in Server : n = m.to
  BY <1>0, MessageHere
<1>2. PICK s : s = node[n]
  OBVIOUS
<1>3. PICK t \in Nat : t = m.term
  BY <1>0, MessageHere
<1>4. PICK e \in Seq(Nat) : e = E[t] /\ Follows(E, e) /\ Len(e) \in Nat
  BY <1>0, TableFacts
<1>m. /\ m.from \in Server /\ m.type = "AppendEntries"
      /\ PieceOf(e, m) /\ m.prev \in Nat /\ m.entries \in Seq(Nat)
      /\ Led(t) /\ m.prev <= Len(e) /\ m.prevTerm = TermAt(e, m.prev)
  <2>1. m.from \in Server /\ m.type = "AppendEntries"
    BY <1>0, MessageHere DEF HandleAppendEntries, CrashInAppend, Accepts
  <2>2. AppendSafe(E, m) /\ PieceOf(e, m)
    BY <1>0, <1>3, <1>4, <2>1 DEF MsgSafe, AppendOK
  <2> QED
    BY <1>3, <1>4, <2>1, <2>2 DEF AppendSafe, PieceOf, Led
<1>h. /\ Shape(s) /\ s.term \in Nat /\ ProgressOK(s) /\ s.log \in Seq(Nat) /\ s.stopped = FALSE
      /\ Follows(E, s.log)
  BY <1>2, HereSafe
<1>5. PICK l \in Seq(Nat) : l = s.log
  BY <1>h
<1>6. PICK f : f = Follow(s, m)
  OBVIOUS
<1>f. t >= s.term =>
        /\ Shape(f) /\ f.role = "follower" /\ f.term = t
        /\ f.log = l /\ ProgressOK(f) /\ f.stopped = FALSE /\ Keeps(s, f)
  BY <1>3, <1>5, <1>6, <1>h, FollowKeepsLog, VotedKeeps DEF Keeps
<1>7. PICK last \in Nat : last = m.prev + Len(m.entries)
  BY <1>m
<1>8. PICK k : k = Spliced(l, m.prev, m.entries)
  OBVIOUS
<1>9. PICK h : h = Truncated(l, m)
  OBVIOUS
<1>g. TermAt(l, m.prev) = m.prevTerm =>
        /\ k \in Seq(Nat) /\ h \in Seq(Nat) /\ SameTo(k, e, last)
        /\ k = l \/ SameTo(k, e, Len(k))
        /\ h = l \/ SameTo(h, e, Len(h))
        /\ \A i \in Nat : SameTo(l, e, i) => SameTo(k, e, i) /\ SameTo(h, e, i)
  <2>1. E[0] = << >> /\ Follows(E, l)
    BY <1>0, <1>5, <1>h, TableFacts
  <2> QED
    BY <1>0, <1>4, <1>7, <1>8, <1>9, <1>m, <2>1, SpliceGrafts
<1>10. CASE /\ Send({AppendResponse(m, s.term, FALSE, Len(s.log), 0)})
            /\ UNCHANGED <<node, disk, leaders>>
  <2>1. PICK ms : ms = {AppendResponse(m, s.term, FALSE, Len(s.log), 0)}
    OBVIOUS
  <2>2. ASSUME NEW r \in ms PROVE Suits(E, n, node[n], r) /\ r.type # "AppendEntries"
    <3>1. r.type = "AppendResponse" /\ r.success = FALSE /\ r.conflict = 0 /\ r.term = s.term
      BY <2>1, <2>2 DEF AppendResponse
    <3>2. Len(E[s.term]) \in Nat
      BY <1>0, <1>h, TableFacts
    <3> QED
      BY <3>1, <3>2 DEF Suits
  <2> QED
    BY <1>10, <2>1, <2>2, AnswerProceeds
<1>11. CASE /\ t >= s.term /\ TermAt(l, m.prev) # m.prevTerm /\ Update(n, f)
            /\ Send({AppendResponse(m, m.term, FALSE, IF m.prev > 0 THEN m.prev - 1 ELSE 0,
                                    ConflictIndex(l, m.prev))})
  <2>1. PICK j : j = ConflictIndex(l, m.prev)
    OBVIOUS
  <2>2. PICK i : i = IF m.prev > 0 THEN m.prev - 1 ELSE 0
    OBVIOUS
  <2>3. PICK ms : ms = {AppendResponse(m, m.term, FALSE, i, j)}
    OBVIOUS
  <2>4. j <= Len(e)
    <3>1. m.prev # 0
      BY <1>11, <1>m DEF TermAt
    <3>2. \A x \in 1 .. Len(l) : l[x] # 0
      <4>1. E[0] = << >> /\ Follows(E, l)
        BY <1>0, <1>5, <1>h, TableFacts
      <4> QED
        BY <1>0, <4>1, EntryHasTerm
    <3>3. j <= m.prev /\ j \in Nat
      BY <1>m, <2>1, <3>1, <3>2, ConflictWithin, ConflictIsNat
    <3> QED
      BY <1>4, <1>m, <3>3
  <2>5. ASSUME NEW r \in ms PROVE Suits(E, n, f, r)
    <3>1. r.type = "AppendResponse" /\ r.success = FALSE /\ r.conflict = j /\ r.term = t
      BY <1>3, <2>3, <2>5 DEF AppendResponse
    <3> QED
      BY <1>4, <2>4, <3>1 DEF Suits
  <2>6. Update(n, f) /\ Send(ms)
    BY <1>11, <2>1, <2>2, <2>3
  <2>7. /\ f.term \in Nat /\ f.term >= node[n].term /\ f.role # "leader"
        /\ Keeps(node[n], f) /\ Candidacy(n, f)
    BY <1>2, <1>11, <1>f DEF Candidacy
  <2> QED
    BY <2>5, <2>6, <2>7, QuietProceeds
<1>12. CASE /\ t >= s.term /\ TermAt(l, m.prev) = m.prevTerm
            /\ Update(n, FollowCommit([f EXCEPT !.log = Spliced(f.log, m.prev, m.entries)], m))
            /\ Send({AppendResponse(m, m.term, TRUE, m.prev + Len(m.entries), 0)})
  <2>1. PICK s2 : s2 = [f EXCEPT !.log = k]
    OBVIOUS
  <2>2. PICK s3 : s3 = FollowCommit(s2, m)
    OBVIOUS
  <2>3. PICK ms : ms = {AppendResponse(m, t, TRUE, last, 0)}
    OBVIOUS
  <2>4. Update(n, s3) /\ Send(ms)
    BY <1>3, <1>7, <1>8, <1>12, <1>f, <2>1, <2>2, <2>3
  <2>5. /\ Shape(s2) /\ s2.role = "follower" /\ s2.term = t /\ s2.log = k /\ s2.stopped = FALSE
        /\ s2.commit = node[n].commit /\ s2.applied = node[n].applied
    BY <1>2, <1>12, <1>f, <2>1 DEF Shape, Fields, Keeps
  <2>6. s3.log = k /\ s3.role = "follower" /\ s3.term = t /\ s3.stopped = FALSE
    BY <2>2, <2>5, CommitBounded
  <2>7. /\ k \in Seq(Nat) /\ SameTo(k, e, last)
        /\ k = l \/ SameTo(k, e, Len(k))
        /\ \A i \in Nat : SameTo(l, e, i) => SameTo(k, e, i)
    BY <1>12, <1>g
  <2>8. ASSUME NEW r \in ms PROVE Suits(E, n, s3, r) /\ r.type # "AppendEntries"
    <3>1. /\ r.type = "AppendResponse" /\ r.success = TRUE /\ r.from = n /\ r.term = t
          /\ r.match = last
      BY <1>1, <2>3, <2>8 DEF AppendResponse
    <3>2. AckFits(E, n, s3, r)
      BY <1>4, <2>6, <2>7, <3>1 DEF AckFits
    <3> QED
      BY <3>1, <3>2 DEF Suits
  <2>9. CommitsCovered /\ Commits(E) => CommitFits(E, n, s3)
    <3>1. SUFFICES ASSUME CommitsCovered, Commits(E) PROVE CommitFits(E, n, s3)
      OBVIOUS
    <3>2. m.commit <= last
      BY <1>7, <1>m, <3>1 DEF CommitsCovered
    <3>3. E[m.term] \in Seq(Nat) /\ SameTo(s2.log, E[m.term], last) /\ s2.log \in Seq(Nat) /\ s2.term = m.term
      BY <1>3, <1>4, <2>5, <2>7
    <3> QED
      BY <1>m, <2>2, <2>5, <3>1, <3>2, <3>3, FollowFits
  <2>10. Honest(E, n, s3, ms)
    BY <2>8, <2>9 DEF Honest, Tells
  <2>11. /\ s3.term \in Nat /\ s3.term >= node[n].term /\ Led(s3.term) /\ s3.log \in Seq(Nat)
         /\ \A i \in Nat : SameTo(node[n].log, E[s3.term], i) => SameTo(s3.log, E[s3.term], i)
         /\ s3.log = node[n].log \/ SameTo(s3.log, E[s3.term], Len(s3.log))
    BY <1>2, <1>4, <1>5, <1>12, <1>m, <2>6, <2>7
  <2> QED
    BY <2>4, <2>6, <2>8, <2>10, <2>11, GraftProceeds
<1>13. CASE CrashInAppend(m)
  <2>1. PICK r : r = RestoredFrom(f, HardState(f), h)
    OBVIOUS
  <2>2. PICK ms : ms = {}
    OBVIOUS
  <2>3. t >= s.term /\ TermAt(l, m.prev) = m.prevTerm
    BY <1>1, <1>2, <1>3, <1>5, <1>13 DEF CrashInAppend, Accepts
  <2>4. Update(n, r) /\ Send(ms)
    BY <1>1, <1>2, <1>6, <1>9, <1>13, <1>f, <2>1, <2>2, <2>3 DEF CrashInAppend, Send
  <2>5. /\ r.role = "follower" /\ r.term = t /\ r.log = h /\ r.stopped = FALSE
        /\ r.commit = node[n].commit /\ r.applied = node[n].applied
    BY <1>2, <1>f, <2>1, <2>3 DEF RestoredFrom, Restored, HardState, Keeps
  <2>6. /\ h \in Seq(Nat) /\ (h = l \/ SameTo(h, e, Len(h)))
        /\ \A i \in Nat : SameTo(l, e, i) => SameTo(h, e, i)
    BY <1>g, <2>3
  <2>7. Honest(E, n, r, ms) /\ \A q \in ms : Suits(E, n, r, q)
    BY <2>2, <2>5 DEF Honest, CommitFits, Tells
  <2>8. /\ r.term \in Nat /\ r.term >= node[n].term /\ Led(r.term) /\ r.log \in Seq(Nat)
        /\ \A i \in Nat : SameTo(node[n].log, E[r.term], i) => SameTo(r.log, E[r.term], i)
        /\ r.log = node[n].log \/ SameTo(r.log, E[r.term], Len(r.log))
    BY <1>2, <1>4, <1>5, <1>m, <2>3, <2>5, <2>6
  <2> QED
    BY <2>4, <2>5, <2>7, <2>8, GraftProceeds
<1> QED
  BY <1>1, <1>2, <1>3, <1>5, <1>6, <1>10, <1>11, <1>12, <1>13 DEF HandleAppendEntries

-----------------------------------------------------------------------------
(* Messages and the record of who led only grow.                            *)
LEMMA HistoryGrows ==
    ASSUME [Next]_vars
    PROVE  msgs \subseteq msgs' /\ leaders \subseteq leaders'
<1>u. ASSUME NEW n, NEW s, Update(n, s) PROVE leaders \subseteq leaders'
  BY <1>u DEF Update
<1>s. ASSUME NEW ms, Send(ms) PROVE msgs \subseteq msgs'
  BY <1>s DEF Send
<1>r. ASSUME NEW n, NEW s, ReplicateToAll(n, s) PROVE msgs \subseteq msgs' /\ leaders \subseteq leaders'
  BY <1>r, <1>u, <1>s DEF ReplicateToAll
<1>f. ASSUME NEW n, NEW s, NEW h, Fail(n, s, h) PROVE leaders \subseteq leaders'
  BY <1>f DEF Fail
<1>1. CASE UNCHANGED vars
  BY <1>1 DEF vars
<1>2. ASSUME NEW n \in Server,
             \/ ElectionTimeout(n) \/ CheckQuorum(n)
             \/ Heartbeat(n) \/ HeartbeatAwait(n) \/ HeartbeatResume(n)
             \/ AppendCommand(n) \/ Restart(n) \/ FailElection(n) \/ FailHeartbeat(n)
             \/ \E p \in Server : TransferLeader(n, p)
      PROVE  msgs \subseteq msgs' /\ leaders \subseteq leaders'
  BY <1>2, <1>u, <1>s, <1>r, <1>f
     DEF ElectionTimeout, CheckQuorum, Heartbeat, HeartbeatAwait, HeartbeatResume,
         AppendCommand, Restart, FailElection, FailHeartbeat, TransferLeader
<1>3. ASSUME NEW m \in msgs,
             \/ HandlePreVote(m) \/ HandleRequestVote(m) \/ HandleVoteResponse(m)
             \/ HandleAppendEntries(m) \/ HandleAppendResponse(m)
             \/ HandleTimeoutNow(m)
             \/ CrashInAppend(m) \/ FailVote(m) \/ FailAppend(m)
      PROVE  msgs \subseteq msgs' /\ leaders \subseteq leaders'
  BY <1>3, <1>u, <1>s, <1>r, <1>f
     DEF HandlePreVote, HandleRequestVote, HandleVoteResponse, HandleAppendEntries,
         HandleAppendResponse, HandleTimeoutNow, CrashInAppend, FailVote, FailAppend
<1> QED
  BY <1>1, <1>2, <1>3 DEF Next, Step

(* Every step is one of those that keep the invariant.                      *)
LEMMA NextProceeds ==
    ASSUME NEW E, NEW F, Between(E, F), Next, StorageWorked', NeverAwaits'
    PROVE  Proceeding(E, F)
<1>0. IInv /\ E \in LogTable /\ Canonical(E) /\ [Next]_vars
  BY DEF Between
<1>1. ~Spend("failure") /\ ~Spend("await")
  BY <1>0, CountsGrow DEF IInv, Typed, Counted, StorageWorked, NeverAwaits, Events
<1>2. ASSUME NEW n \in Server
      PROVE  ~FailElection(n) /\ ~FailHeartbeat(n) /\ ~HeartbeatAwait(n) /\ ~HeartbeatResume(n)
  <2>1. node[n].awaiting = FALSE
    BY <1>0, LogHere
  <2> QED
    BY <1>1, <2>1 DEF FailElection, FailHeartbeat, Fail, HeartbeatAwait, HeartbeatResume
<1>3. \A m \in msgs : ~FailVote(m) /\ ~FailAppend(m)
  BY <1>1 DEF FailVote, FailAppend, Fail
<1>4. ASSUME NEW n \in Server,
             \/ ElectionTimeout(n) \/ CheckQuorum(n) \/ Heartbeat(n)
             \/ AppendCommand(n) \/ Restart(n)
      PROVE  Proceeding(E, F)
  BY <1>4, TimersProceed
<1>5. ASSUME NEW n \in Server, NEW p \in Server, TransferLeader(n, p) PROVE Proceeding(E, F)
  BY <1>5, TransferProceeds
<1>6. ASSUME NEW m \in msgs, HandlePreVote(m) \/ HandleRequestVote(m) PROVE Proceeding(E, F)
  BY <1>6, RequestVoteProceeds
<1>7. ASSUME NEW m \in msgs, HandleVoteResponse(m) PROVE Proceeding(E, F)
  BY <1>7, VoteResponseProceeds
<1>8. ASSUME NEW m \in msgs, HandleAppendEntries(m) \/ CrashInAppend(m) PROVE Proceeding(E, F)
  BY <1>8, AppendsProceed
<1>9. ASSUME NEW m \in msgs, HandleAppendResponse(m) PROVE Proceeding(E, F)
  BY <1>9, AppendResponseProceeds
<1>10. ASSUME NEW m \in msgs, HandleTimeoutNow(m) PROVE Proceeding(E, F)
  BY <1>10, TimeoutNowProceeds
<1> QED
  BY <1>2, <1>3, <1>4, <1>5, <1>6, <1>7, <1>8, <1>9, <1>10 DEF Next, Step

(* The invariant.  Commits hold only while appends cover what they say is   *)
(* committed.                                                               *)
SInv ==
    FreshTerms /\ \E E \in LogTable : Canonical(E) /\ Safe(E) /\ (CommitsCovered => Commits(E))

Undisturbed == StorageWorked /\ NeverAwaits /\ NoStaleAnswers

(* Empty logs commit nothing.                                               *)
LEMMA InitSafe == Init => SInv
<1> SUFFICES ASSUME Init PROVE SInv
  OBVIOUS
<1> DEFINE E == [t \in Nat |-> << >>]
<1>1. E \in LogTable /\ \A t \in Nat : E[t] = << >>
  BY DEF LogTable
<1> HIDE DEF E
<1>2. Follows(E, << >>)
  BY DEF Follows
<1>3. ASSUME NEW n \in Server
      PROVE  /\ NodeOK(E, node[n]) /\ node[n].role = "follower" /\ node[n].stopped = FALSE
             /\ node[n].log = << >> /\ node[n].commit = 0 /\ node[n].applied = << >>
  BY <1>2 DEF Init, Restored, NodeOK, ProgressOK
<1>4. msgs = {} /\ leaders = {}
  BY DEF Init
<1>5. FreshTerms
  BY <1>3, <1>4 DEF FreshTerms
<1>6. Canonical(E)
  BY <1>1, <1>2, <1>3, <1>4 DEF Canonical
<1>7. \A t \in Nat, i \in Nat : ~Own(E, t, i)
  BY <1>1 DEF Own
<1>a. TableSafe(E)
  BY <1>1 DEF TableSafe
<1>b. AcksSafe(E) /\ TermsSafe(E)
  BY <1>7 DEF AcksSafe, TermsSafe
<1>c. VotesSafe(E)
  BY <1>7 DEF VotesSafe
<1>8. TableSafe(E) /\ AcksSafe(E) /\ VotesSafe(E) /\ TermsSafe(E)
  BY <1>a, <1>b, <1>c
<1>d. << >> \in Seq(Nat) /\ Len(<< >>) = 0 /\ 0 \in Nat
  OBVIOUS
<1>9. ASSUME NEW n \in Server PROVE NodeSafe(node[n])
  <2>1. node[n].role # "leader" /\ node[n].stopped = FALSE /\ Len(node[n].log) = 0
    BY <1>3, <1>d
  <2>2. \A j \in 1 .. Len(node[n].log) : node[n].log[j] <= node[n].term
    BY <2>1
  <2> QED
    BY <2>1, <2>2 DEF NodeSafe
<1>10. Safe(E)
  BY <1>4, <1>8, <1>9 DEF Safe
<1>e. SameTo(<< >>, << >>, 0)
  BY <1>d DEF SameTo
<1>11. ASSUME NEW n \in Server PROVE NodeSettled(E, node[n])
  BY <1>3, <1>d, <1>e DEF NodeSettled, Settled
<1>12. Commits(E)
  BY <1>4, <1>11 DEF Commits
<1> QED
  BY <1>1, <1>5, <1>6, <1>10, <1>12 DEF SInv

(* Every step keeps the invariant, as long as nothing disturbs it.          *)
LEMMA NextSafe ==
    ASSUME IInv, IInv', SInv, [Next]_vars, Undisturbed'
    PROVE  SInv'
<1>0. StorageWorked' /\ NeverAwaits' /\ FreshTerms
  BY DEF Undisturbed, SInv
<1>1. msgs \subseteq msgs' /\ leaders \subseteq leaders'
  BY HistoryGrows
<1>2. NoStaleAnswers /\ (CommitsCovered' => CommitsCovered)
  BY <1>1 DEF Undisturbed, NoStaleAnswers, CommitsCovered
<1>3. PICK E \in LogTable : Canonical(E) /\ Safe(E) /\ (CommitsCovered => Commits(E))
  BY DEF SInv
<1>4. Advanced(E)
  BY <1>0, <1>3, NextAdvances
<1>5. PICK F \in LogTable : Canonical(F)' /\ Extends(E, F)
  BY <1>4 DEF Advanced
<1>6. FreshTerms'
  BY <1>4 DEF Advanced
<1>7. Between(E, F)
  BY <1>0, <1>2, <1>3, <1>5, <1>6 DEF Between
<1>8. CASE Next
  <2>1. Proceeding(E, F)
    BY <1>0, <1>7, <1>8, NextProceeds
  <2>2. PICK n \in Server : \E s1, ms : Proceeds(E, F, n, s1, ms) /\ Honest(E, n, s1, ms)
    BY <2>1 DEF Proceeding
  <2>3. PICK s1, ms : Proceeds(E, F, n, s1, ms) /\ Honest(E, n, s1, ms)
    BY <2>2
  <2>4. StepFrom(E, F, n, s1, ms)
    BY <1>7, <2>3 DEF StepFrom, Between
  <2>5. Safe(F)'
    BY <2>4, SafeStep
  <2>6. CommitsCovered' => Commits(F)'
    <3>1. SUFFICES ASSUME CommitsCovered' PROVE Commits(F)'
      OBVIOUS
    <3>2. CommitsCovered /\ Commits(E)
      BY <1>2, <1>3, <3>1
    <3>3. CommitFits(E, n, s1) /\ Tells(s1, ms)
      BY <2>3, <3>2 DEF Honest
    <3> QED
      BY <2>4, <3>2, <3>3, CommitsMove
  <2> QED
    BY <1>5, <1>6, <2>5, <2>6 DEF SInv
<1>9. CASE UNCHANGED vars
  <2>1. SInv' = SInv
    BY <1>9 DEF vars, SInv, FreshTerms, Canonical, Safe, Commits, CommitsCovered, NodeSafe, MsgSafe,
                AcksSafe, VotesSafe, TermsSafe, Counts, Acked, Acks, AppendSafe, AckSafe, AskSafe,
                Kept, Dead, Led, NodeSettled, MsgSettled, Settled, Decided
  <2> QED
    BY <2>1
<1> QED
  BY <1>8, <1>9

-----------------------------------------------------------------------------
(* Two logs that have the same beginning in common, in the words of the     *)
(* properties.                                                              *)
LEMMA SameAgrees ==
    ASSUME NEW a \in Seq(Nat), NEW b \in Seq(Nat), NEW i \in Nat, SameTo(a, b, i)
    PROVE  Agree(a, b, i)
<1>1. i <= Len(a) /\ i <= Len(b) /\ \A j \in 1 .. i : a[j] = b[j]
  BY DEF SameTo
<1>2. PICK x \in Seq(Nat) : x = SubSeq(a, 1, i) /\ Len(x) = i /\ \A j \in 1 .. i : x[j] = a[j]
  BY <1>1, FrontOf
<1>3. PICK y \in Seq(Nat) : y = SubSeq(b, 1, i) /\ Len(y) = i /\ \A j \in 1 .. i : y[j] = b[j]
  BY <1>1, FrontOf
<1>4. Len(x) = Len(y) /\ \A j \in 1 .. Len(x) : x[j] = y[j]
  BY ONLY <1>1, <1>2, <1>3
<1>5. x = y
  BY ONLY <1>4, x \in Seq(Nat), y \in Seq(Nat), SeqEqual
<1> QED
  BY <1>1, <1>2, <1>3, <1>5 DEF Agree

(* A log that another begins with is a prefix of it.                        *)
LEMMA SamePrefix ==
    ASSUME NEW a \in Seq(Nat), NEW b \in Seq(Nat), SameTo(a, b, Len(a))
    PROVE  IsPrefix(a, b)
<1>1. Len(a) \in Nat
  OBVIOUS
<1>2. Agree(a, b, Len(a))
  BY <1>1, SameAgrees
<1> QED
  BY <1>2 DEF Agree, IsPrefix

(* What was decided in a term, the log of every later one has.              *)
LEMMA DecidedCarried ==
    ASSUME NEW E \in LogTable, Canonical(E), TermsSafe(E), NEW t \in Nat, NEW u \in Nat, NEW i \in Nat,
           Decided(E, t, i), t <= u, Led(u)
    PROVE  SameTo(E[u], E[t], i)
<1>1. Own(E, t, i) /\ ~Dead(t, i)
  BY DecidedAlive DEF Decided
<1>2. CASE t = u
  <2>1. E[t] \in Seq(Nat) /\ i <= Len(E[t])
    BY <1>1 DEF Own, LogTable
  <2> QED
    BY <1>2, <2>1, SameToFacts
<1>3. CASE t < u
  BY <1>1, <1>3 DEF TermsSafe, Kept
<1> QED
  BY <1>2, <1>3

(* Whoever leads has led, and has the log of its term.                      *)
LEMMA LeaderHere ==
    ASSUME IInv, NEW E \in LogTable, Canonical(E), NEW l \in Server, node[l].role = "leader"
    PROVE  <<node[l].term, l>> \in leaders /\ Led(node[l].term) /\ node[l].log = E[node[l].term]
<1>1. <<node[l].term, l>> \in leaders
  BY DEF IInv, LeadersRecorded
<1> QED
  BY <1>1, LogHere DEF Led

(* match_index: a peer that has not moved on to a later term still has what *)
(* it acknowledged, and that is the leader's log.                           *)
LEMMA CountsAreStored == IInv /\ SInv => MatchIsStored
<1> SUFFICES ASSUME IInv, SInv, NEW l \in Server, NEW p \in Server,
                    node[l].role = "leader", node[p].term <= node[l].term
             PROVE  Agree(node[l].log, node[p].log, node[l].match[p])
  BY DEF MatchIsStored
<1>1. PICK E \in LogTable : Canonical(E) /\ Safe(E)
  BY DEF SInv
<1>2. PICK u \in Nat : u = node[l].term
  BY <1>1, LogHere
<1>3. PICK k \in Seq(Nat) : k = node[l].log
  BY <1>1, LogHere
<1>4. PICK h \in Seq(Nat) : h = node[p].log
  BY <1>1, LogHere
<1>5. PICK i \in Nat : i = node[l].match[p]
  BY <1>1, LogHere DEF ProgressOK
<1>6. <<u, l>> \in leaders /\ k = E[u]
  BY <1>1, <1>2, <1>3, LeaderHere
<1>7. i <= Len(k) /\ (i = 0 \/ Acked(p, u, i))
  BY <1>1, <1>2, <1>3, <1>5 DEF Safe, NodeSafe, Counts
<1>8. SameTo(k, h, i)
  <2>1. CASE i = 0
    BY <2>1 DEF SameTo
  <2>2. CASE <<u, p>> \in leaders
    <3>1. ElectionSafety
      BY InvariantElectsOne
    <3>2. p = l
      BY <1>6, <2>2, <3>1 DEF ElectionSafety
    <3> QED
      BY <1>3, <1>4, <1>7, <3>2 DEF SameTo
  <2>3. ASSUME NEW r \in msgs, Acks(r, p, u, i) PROVE SameTo(k, h, i)
    <3>1. /\ r.type = "AppendResponse" /\ r.success /\ r.from = p /\ r.term = u /\ r.match >= i
      BY <2>3 DEF Acks
    <3>2. AckSafe(E, r) /\ AppendOK(E, r)
      BY <1>1, <3>1 DEF Safe, MsgSafe, Canonical
    <3>3. PICK j \in Nat : j = r.match
      BY <3>1, <3>2 DEF AppendOK
    <3>4. node[p].term \in Nat
      BY <1>1, LogHere
    <3>5. SameTo(h, k, j)
      BY <1>2, <1>4, <1>6, <3>1, <3>2, <3>3, <3>4 DEF AckSafe
    <3> QED
      BY <3>1, <3>3, <3>5, SameToFacts
  <2> QED
    BY <1>7, <2>1, <2>2, <2>3 DEF Acked
<1>9. Agree(k, h, i)
  BY <1>8, SameAgrees
<1> QED
  BY <1>3, <1>4, <1>5, <1>9

(* What is known of a node that has committed.                              *)
LEMMA CommitHere ==
    ASSUME IInv, NEW E \in LogTable, Canonical(E), Commits(E), NEW n \in Server
    PROVE  /\ node[n].log \in Seq(Nat) /\ node[n].applied \in Seq(Nat) /\ node[n].commit \in Nat
           /\ Len(node[n].applied) = node[n].commit
           /\ SameTo(node[n].applied, node[n].log, node[n].commit)
           /\ node[n].term \in Nat
           /\ Settled(E, node[n].log, node[n].term, node[n].commit)
<1>1. NodeSettled(E, node[n])
  BY DEF Commits
<1> QED
  BY <1>1, LogHere DEF NodeSettled

(* What a node has applied is the beginning of its log.                     *)
LEMMA StoredIsApplied == IInv /\ SInv /\ CommitsCovered => AppliedIsStored
<1> SUFFICES ASSUME IInv, SInv, CommitsCovered, NEW n \in Server
             PROVE  IsPrefix(node[n].applied, node[n].log)
  BY DEF AppliedIsStored
<1>1. PICK E \in LogTable : Canonical(E) /\ Commits(E)
  BY DEF SInv
<1> QED
  BY <1>1, CommitHere, SamePrefix

(* What a node has applied, every leader of its term or a later one has.    *)
LEMMA AppliedCarried ==
    ASSUME IInv, NEW E \in LogTable, Canonical(E), Safe(E), Commits(E), NEW n \in Server,
           NEW u \in Nat, node[n].term <= u, Led(u)
    PROVE  IsPrefix(node[n].applied, E[u])
<1>1. PICK a \in Seq(Nat) : a = node[n].applied
  BY CommitHere
<1>2. PICK k \in Seq(Nat) : k = node[n].log
  BY CommitHere
<1>3. PICK c \in Nat : c = node[n].commit
  BY CommitHere
<1>4. PICK v \in Nat : v = node[n].term
  BY CommitHere
<1>5. Len(a) = c /\ SameTo(a, k, c) /\ Settled(E, k, v, c) /\ v <= u
  BY <1>1, <1>2, <1>3, <1>4, CommitHere
<1>6. E[u] \in Seq(Nat)
  BY DEF LogTable
<1>7. SameTo(a, E[u], c)
  <2>1. CASE c = 0
    BY <2>1, <1>6 DEF SameTo
  <2>2. ASSUME NEW t \in Nat, NEW i \in Nat, t <= v, c <= i, Decided(E, t, i), SameTo(k, E[t], c)
        PROVE  SameTo(a, E[u], c)
    <3>1. SameTo(E[u], E[t], i)
      BY <1>5, <2>2, DecidedCarried DEF Safe
    <3>2. E[t] \in Seq(Nat)
      BY DEF LogTable
    <3>3. SameTo(E[t], E[u], c)
      BY <1>6, <2>2, <3>1, <3>2, SameToFacts
    <3>4. SameTo(a, E[t], c)
      BY <1>5, <2>2, <3>2, SameToFacts
    <3> QED
      BY <1>6, <3>2, <3>3, <3>4, SameToFacts
  <2> QED
    BY <1>5, <2>1, <2>2 DEF Settled
<1> QED
  BY <1>1, <1>5, <1>6, <1>7, SamePrefix

(* A leader has what was applied in its term or before.                     *)
LEMMA LeadersAreComplete == IInv /\ SInv /\ CommitsCovered => LeaderCompleteness
<1> SUFFICES ASSUME IInv, SInv, CommitsCovered, NEW l \in Server, NEW n \in Server,
                    node[l].role = "leader", node[l].term >= node[n].term
             PROVE  IsPrefix(node[n].applied, node[l].log)
  BY DEF LeaderCompleteness
<1>1. PICK E \in LogTable : Canonical(E) /\ Safe(E) /\ Commits(E)
  BY DEF SInv
<1>2. Led(node[l].term) /\ node[l].log = E[node[l].term]
  BY <1>1, LeaderHere
<1>3. node[l].term \in Nat /\ node[n].term \in Nat /\ node[n].term <= node[l].term
  BY <1>1, LogHere
<1> QED
  BY <1>1, <1>2, <1>3, AppliedCarried

-----------------------------------------------------------------------------
(* The term from which on every leader has what was applied.                *)
Since(E, a, t) == t \in Nat /\ Led(t) /\ \A u \in Nat : t <= u /\ Led(u) => SameTo(a, E[u], Len(a))

(* There is such a term: the one in which it was decided.                   *)
LEMMA AppliedSince ==
    ASSUME IInv, FreshTerms, NEW E \in LogTable, Canonical(E), Safe(E), Commits(E), NEW n \in Server
    PROVE  /\ node[n].applied \in Seq(Nat)
           /\ node[n].applied = << >> \/ \E t \in Nat : Since(E, node[n].applied, t)
<1>1. PICK a \in Seq(Nat) : a = node[n].applied
  BY CommitHere
<1>2. PICK k \in Seq(Nat) : k = node[n].log
  BY CommitHere
<1>3. PICK c \in Nat : c = node[n].commit
  BY CommitHere
<1>4. Len(a) = c /\ SameTo(a, k, c) /\ Settled(E, k, node[n].term, c)
  BY <1>1, <1>2, <1>3, CommitHere
<1>5. CASE c = 0
  BY <1>1, <1>4, <1>5
<1>6. ASSUME NEW t \in Nat, NEW i \in Nat, c <= i, Decided(E, t, i), SameTo(k, E[t], c)
      PROVE  Since(E, a, t)
  <2>1. Own(E, t, i)
    BY <1>6 DEF Decided
  <2>2. E[t] # << >>
    BY <2>1 DEF Own
  <2>3. Led(t)
    BY <2>2, TableFacts
  <2>4. ASSUME NEW u \in Nat, t <= u, Led(u) PROVE SameTo(a, E[u], c)
    <3>1. SameTo(E[u], E[t], i)
      BY <1>6, <2>4, DecidedCarried DEF Safe
    <3>2. E[t] \in Seq(Nat) /\ E[u] \in Seq(Nat)
      BY DEF LogTable
    <3>3. SameTo(E[t], E[u], c)
      BY <1>6, <3>1, <3>2, SameToFacts
    <3>4. SameTo(a, E[t], c)
      BY <1>4, <1>6, <3>2, SameToFacts
    <3> QED
      BY <3>2, <3>3, <3>4, SameToFacts
  <2> QED
    BY <1>4, <2>3, <2>4 DEF Since
<1> QED
  BY <1>1, <1>4, <1>5, <1>6 DEF Settled

(* Two beginnings of one log: one is a prefix of the other.                 *)
LEMMA PrefixesCompare ==
    ASSUME NEW a \in Seq(Nat), NEW b \in Seq(Nat), NEW e \in Seq(Nat),
           SameTo(a, e, Len(a)), SameTo(b, e, Len(b))
    PROVE  IsPrefix(a, b) \/ IsPrefix(b, a)
<1>1. PICK i \in Nat : i = Len(a)
  OBVIOUS
<1>2. PICK j \in Nat : j = Len(b)
  OBVIOUS
<1>3. SameTo(a, e, i) /\ SameTo(b, e, j)
  BY <1>1, <1>2
<1>4. CASE i <= j
  <2>1. SameTo(e, b, i)
    BY <1>3, <1>4, SameToFacts
  <2>2. SameTo(a, b, i)
    BY <1>3, <2>1, SameToFacts
  <2> QED
    BY <1>1, <2>2, SamePrefix
<1>5. CASE j <= i
  <2>1. SameTo(e, a, j)
    BY <1>3, <1>5, SameToFacts
  <2>2. SameTo(b, a, j)
    BY <1>3, <2>1, SameToFacts
  <2> QED
    BY <1>2, <2>2, SamePrefix
<1> QED
  BY <1>4, <1>5

(* Nothing is a prefix of everything.                                       *)
LEMMA EmptyPrefix ==
    ASSUME NEW b \in Seq(Nat)
    PROVE  IsPrefix(<< >>, b)
<1>1. << >> \in Seq(Nat) /\ Len(<< >>) = 0 /\ Len(b) \in Nat
  OBVIOUS
<1>2. SameTo(<< >>, b, Len(<< >>))
  BY <1>1 DEF SameTo
<1> QED
  BY <1>1, <1>2, SamePrefix

(* Of two nodes, both have applied a beginning of the log of the later of   *)
(* the two terms.                                                           *)
LEMMA ReplicasAreSafe == IInv /\ SInv /\ CommitsCovered => StateMachineSafety
<1> SUFFICES ASSUME IInv, SInv, CommitsCovered, NEW m \in Server, NEW n \in Server
             PROVE  IsPrefix(node[m].applied, node[n].applied) \/ IsPrefix(node[n].applied, node[m].applied)
  BY DEF StateMachineSafety
<1>1. PICK E \in LogTable : Canonical(E) /\ Safe(E) /\ Commits(E)
  BY DEF SInv
<1>2. FreshTerms
  BY DEF SInv
<1>3. PICK a \in Seq(Nat) : a = node[m].applied
  BY <1>1, CommitHere
<1>4. PICK b \in Seq(Nat) : b = node[n].applied
  BY <1>1, CommitHere
<1>5. a = << >> \/ \E t \in Nat : Since(E, a, t)
  BY <1>1, <1>2, <1>3, AppliedSince
<1>6. b = << >> \/ \E t \in Nat : Since(E, b, t)
  BY <1>1, <1>2, <1>4, AppliedSince
<1>7. IsPrefix(a, b) \/ IsPrefix(b, a)
  <2>1. CASE a = << >> \/ b = << >>
    BY <2>1, EmptyPrefix
  <2>2. ASSUME NEW t \in Nat, NEW u \in Nat, Since(E, a, t), Since(E, b, u)
        PROVE  IsPrefix(a, b) \/ IsPrefix(b, a)
    <3>1. PICK v \in Nat : t <= v /\ u <= v /\ Led(v)
      BY <2>2 DEF Since
    <3>2. SameTo(a, E[v], Len(a)) /\ SameTo(b, E[v], Len(b))
      BY <2>2, <3>1 DEF Since
    <3>3. E[v] \in Seq(Nat)
      BY <1>1 DEF LogTable
    <3> QED
      BY <3>2, <3>3, PrefixesCompare
  <2> QED
    BY <1>5, <1>6, <2>1, <2>2
<1> QED
  BY <1>3, <1>4, <1>7

(* A set of voters that contains a majority is one.                         *)
LEMMA QuorumGrows ==
    ASSUME NEW P \in SUBSET Server, NEW Q \in SUBSET Server, HasQuorum(Q), Q \subseteq P
    PROVE  HasQuorum(P)
<1>1. IsFiniteSet(Server) /\ IsFiniteSet(P) /\ IsFiniteSet(Q)
  BY RaftAssumption, FS_Subset
<1>2. Cardinality(Server) \in Nat /\ Cardinality(P) \in Nat /\ Cardinality(Q) \in Nat
  BY <1>1, FS_CardinalityType
<1>3. Cardinality(Q) <= Cardinality(P)
  BY <1>1, FS_Subset
<1> QED
  BY <1>2, <1>3 DEF HasQuorum

(* All voters are a majority.                                               *)
LEMMA EveryoneIsQuorum ==
    ASSUME NEW l \in Server
    PROVE  HasQuorum(Server)
<1>1. IsFiniteSet(Server)
  BY RaftAssumption
<1>2. Cardinality(Server) \in Nat /\ Cardinality(Server) # 0
  BY <1>1, FS_CardinalityType, FS_EmptySet
<1> QED
  BY <1>2 DEF HasQuorum

(* The quorum that decided what a leader has committed still has it.        *)
LEMMA CommitsAreHeld == IInv /\ SInv /\ CommitsCovered => CommittedIsHeld
<1> SUFFICES ASSUME IInv, SInv, CommitsCovered, NEW l \in Server
             PROVE  HasQuorum({p \in Server : Agree(node[l].log, node[p].log, node[l].commit)})
  BY DEF CommittedIsHeld
<1>1. PICK E \in LogTable : Canonical(E) /\ Safe(E) /\ Commits(E)
  BY DEF SInv
<1>2. PICK k \in Seq(Nat) : k = node[l].log
  BY <1>1, CommitHere
<1>3. PICK c \in Nat : c = node[l].commit
  BY <1>1, CommitHere
<1>4. Settled(E, k, node[l].term, c)
  BY <1>1, <1>2, <1>3, CommitHere
<1>5. PICK P \in SUBSET Server : P = {p \in Server : Agree(k, node[p].log, c)}
  OBVIOUS
<1>6. PICK Q \in SUBSET Server : HasQuorum(Q) /\ \A p \in Q : SameTo(k, node[p].log, c)
  <2>1. CASE c = 0
    <3>1. ASSUME NEW p \in Server PROVE SameTo(k, node[p].log, c)
      <4>1. node[p].log \in Seq(Nat)
        BY <1>1, LogHere
      <4> QED
        BY <2>1, <4>1 DEF SameTo
    <3> QED
      BY <3>1, EveryoneIsQuorum
  <2>2. ASSUME NEW t \in Nat, NEW i \in Nat, c <= i, Decided(E, t, i), SameTo(k, E[t], c)
        PROVE  \E Q \in SUBSET Server : HasQuorum(Q) /\ \A p \in Q : SameTo(k, node[p].log, c)
    <3>1. PICK Q \in SUBSET Server : HasQuorum(Q) /\ \A p \in Q : Acked(p, t, i)
      BY <2>2 DEF Decided
    <3>2. Own(E, t, i) /\ ~Dead(t, i)
      BY <2>2, DecidedAlive DEF Decided
    <3>3. ASSUME NEW p \in Q PROVE SameTo(k, node[p].log, c)
      <4>1. PICK h \in Seq(Nat) : h = node[p].log
        BY <1>1, LogHere
      <4>2. SameTo(h, E[t], i)
        BY <1>1, <3>1, <3>2, <3>3, <4>1 DEF Safe, AcksSafe, Kept
      <4>3. E[t] \in Seq(Nat)
        BY DEF LogTable
      <4>4. SameTo(E[t], h, c)
        BY <2>2, <4>2, <4>3, SameToFacts
      <4> QED
        BY <2>2, <4>1, <4>3, <4>4, SameToFacts
    <3> QED
      BY <3>1, <3>3
  <2> QED
    BY <1>4, <2>1, <2>2 DEF Settled
<1>7. ASSUME NEW p \in Q PROVE Agree(k, node[p].log, c)
  BY <1>1, <1>6, LogHere, SameAgrees
<1>8. Q \subseteq P
  BY <1>5, <1>7
<1>9. HasQuorum(P)
  BY <1>6, <1>8, QuorumGrows
<1> QED
  BY <1>2, <1>3, <1>5, <1>9

-----------------------------------------------------------------------------
(* The inductive invariant, as long as nothing disturbs it.                 *)
LEMMA RaftSafe == Spec => [](Counted /\ (Undisturbed => IInv /\ SInv))
<1> DEFINE Inv == Counted /\ (Undisturbed => IInv /\ SInv)
<1>1. Init => Inv
  BY InitEstablishes, InitSafe DEF Init, Counted
<1>2. Inv /\ [Next]_vars => Inv'
  <2> SUFFICES ASSUME Inv, [Next]_vars PROVE Inv'
    OBVIOUS
  <2>1. Counted' /\ (StorageWorked' => StorageWorked) /\ (NeverAwaits' => NeverAwaits)
    BY CountsGrow DEF StorageWorked, NeverAwaits, Events
  <2>2. NoStaleAnswers' => NoStaleAnswers
    BY HistoryGrows DEF NoStaleAnswers
  <2>3. ASSUME Undisturbed' PROVE IInv' /\ SInv'
    <3>1. Undisturbed /\ StorageWorked'
      BY <2>1, <2>2, <2>3 DEF Undisturbed
    <3>2. IInv /\ SInv
      BY <3>1
    <3>3. IInv'
      BY <3>1, <3>2, NextPreserves
    <3> QED
      BY <2>3, <3>2, <3>3, NextSafe
  <2> QED
    BY <2>1, <2>3
<1> QED
  BY <1>1, <1>2, PTL DEF Spec

(* match_index tells the truth (progress.cpp, mark_replicated): a follower  *)
(* that has not moved on to a later term holds the leader's log up to       *)
(* there. Until a storage call fails, a heartbeat is left waiting for its   *)
(* cleanup, or a rejection of an earlier term's append reaches the term its *)
(* receiver has led since.                                                  *)
THEOREM RaftMatchIsTrue ==
    Spec => [](StorageWorked /\ NeverAwaits /\ NoStaleAnswers => MatchIsStored)
<1>1. (Undisturbed => IInv /\ SInv) => (StorageWorked /\ NeverAwaits /\ NoStaleAnswers => MatchIsStored)
  BY CountsAreStored DEF Undisturbed
<1> QED
  BY <1>1, RaftSafe, PTL

(* A leader has every entry that anybody in its term or before has applied: *)
(* the vote is given to logs at least as up to date (node.cpp,              *)
(* handle_request_vote) and only entries of the leader's term are counted   *)
(* (advance_commit_index). With the conditions above, as long as every      *)
(* append covers the commit index it tells of.                              *)
THEOREM RaftLeadersComplete ==
    Spec => [](StorageWorked /\ NeverAwaits /\ NoStaleAnswers /\ CommitsCovered => LeaderCompleteness)
<1>1. (Undisturbed => IInv /\ SInv) =>
        (StorageWorked /\ NeverAwaits /\ NoStaleAnswers /\ CommitsCovered => LeaderCompleteness)
  BY LeadersAreComplete DEF Undisturbed
<1> QED
  BY <1>1, RaftSafe, PTL

(* What a node has applied is still in its log: the truncation of a         *)
(* conflicting suffix (log_manager.cpp, append_from_leader) never reaches a *)
(* committed entry, under the same conditions.                              *)
THEOREM RaftAppliedIsStored ==
    Spec => [](StorageWorked /\ NeverAwaits /\ NoStaleAnswers /\ CommitsCovered => AppliedIsStored)
<1>1. (Undisturbed => IInv /\ SInv) =>
        (StorageWorked /\ NeverAwaits /\ NoStaleAnswers /\ CommitsCovered => AppliedIsStored)
  BY StoredIsApplied DEF Undisturbed
<1> QED
  BY <1>1, RaftSafe, PTL

(* All replicas apply the same command stream: of any two, one has applied  *)
(* a prefix of what the other has, under the same conditions.               *)
THEOREM RaftReplicasAgree ==
    Spec => [](StorageWorked /\ NeverAwaits /\ NoStaleAnswers /\ CommitsCovered => StateMachineSafety)
<1>1. (Undisturbed => IInv /\ SInv) =>
        (StorageWorked /\ NeverAwaits /\ NoStaleAnswers /\ CommitsCovered => StateMachineSafety)
  BY ReplicasAreSafe DEF Undisturbed
<1> QED
  BY <1>1, RaftSafe, PTL

(* What a leader has committed, a majority of the voters has in its log,    *)
(* under the same conditions.                                               *)
THEOREM RaftCommitsAreHeld ==
    Spec => [](StorageWorked /\ NeverAwaits /\ NoStaleAnswers /\ CommitsCovered => CommittedIsHeld)
<1>1. (Undisturbed => IInv /\ SInv) =>
        (StorageWorked /\ NeverAwaits /\ NoStaleAnswers /\ CommitsCovered => CommittedIsHeld)
  BY CommitsAreHeld DEF Undisturbed
<1> QED
  BY <1>1, RaftSafe, PTL
=============================================================================
