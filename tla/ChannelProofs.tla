---------------------------- MODULE ChannelProofs ----------------------------
(***************************************************************************)
(* Proofs about the channel, for every number of coroutines and event       *)
(* loops, every capacity and any number of values: no value is lost or      *)
(* delivered twice, and on one loop the channel is the FIFO it documents.   *)
(***************************************************************************)
EXTENDS Channel, WaiterQueueProofs, SequenceTheorems

-----------------------------------------------------------------------------
(* What a concatenation holds, and when it holds nothing twice.             *)
Apart(p, q) == \A x : ~(Contains(p, x) /\ Contains(q, x))

LEMMA ConcatQueue ==
    ASSUME NEW S, NEW p \in Seq(S), NEW q \in Seq(S)
    PROVE  /\ p \o q \in Seq(S) /\ Len(p \o q) = Len(p) + Len(q)
           /\ \A x : Contains(p \o q, x) <=> Contains(p, x) \/ Contains(q, x)
           /\ IsInjective(p \o q) <=> IsInjective(p) /\ IsInjective(q) /\ Apart(p, q)
<1> DEFINE c == p \o q
<1>1. /\ c \in Seq(S) /\ Len(c) = Len(p) + Len(q) /\ Len(p) \in Nat /\ Len(q) \in Nat
      /\ \A i \in 1 .. Len(c) : c[i] = IF i <= Len(p) THEN p[i] ELSE q[i - Len(p)]
  BY ConcatProperties
<1> HIDE DEF c
<1>2. \A i \in 1 .. Len(p) : i \in 1 .. Len(c) /\ c[i] = p[i]
  BY <1>1
<1>3. \A i \in 1 .. Len(q) : i + Len(p) \in 1 .. Len(c) /\ c[i + Len(p)] = q[i]
  <2> TAKE i \in 1 .. Len(q)
  <2>1. i + Len(p) \in 1 .. Len(c) /\ ~(i + Len(p) <= Len(p)) /\ (i + Len(p)) - Len(p) = i
    BY <1>1
  <2> QED
    BY <1>1, <2>1
<1>4. \A i \in 1 .. Len(c) : i \in 1 .. Len(p) \/ (i - Len(p) \in 1 .. Len(q) /\ (i - Len(p)) + Len(p) = i)
  BY <1>1
<1>5. DOMAIN p = 1 .. Len(p) /\ DOMAIN q = 1 .. Len(q) /\ DOMAIN c = 1 .. Len(c)
  BY <1>1
<1>6. \A x : Contains(c, x) <=> Contains(p, x) \/ Contains(q, x)
  BY <1>2, <1>3, <1>4 DEF Contains
<1>7. ASSUME IsInjective(c) PROVE IsInjective(p) /\ IsInjective(q) /\ Apart(p, q)
  <2>1. IsInjective(p)
    BY <1>2, <1>5, <1>7 DEF IsInjective
  <2>2. IsInjective(q)
    <3> SUFFICES ASSUME NEW a \in 1 .. Len(q), NEW b \in 1 .. Len(q), q[a] = q[b] PROVE a = b
      BY <1>5 DEF IsInjective
    <3>1. a + Len(p) = b + Len(p)
      BY <1>3, <1>5, <1>7 DEF IsInjective
    <3> QED
      BY <1>1, <3>1
  <2>3. Apart(p, q)
    <3> SUFFICES ASSUME NEW a \in 1 .. Len(p), NEW b \in 1 .. Len(q), p[a] = q[b] PROVE FALSE
      BY DEF Apart, Contains
    <3>1. a = b + Len(p)
      BY <1>2, <1>3, <1>5, <1>7 DEF IsInjective
    <3> QED
      BY <1>1, <3>1
  <2> QED
    BY <2>1, <2>2, <2>3
<1>8. ASSUME IsInjective(p), IsInjective(q), Apart(p, q) PROVE IsInjective(c)
  <2> SUFFICES ASSUME NEW a \in 1 .. Len(c), NEW b \in 1 .. Len(c), c[a] = c[b] PROVE a = b
    BY <1>5 DEF IsInjective
  <2>1. CASE a \in 1 .. Len(p) /\ b \in 1 .. Len(p)
    BY <1>2, <1>5, <1>8, <2>1 DEF IsInjective
  <2>2. CASE /\ a - Len(p) \in 1 .. Len(q) /\ (a - Len(p)) + Len(p) = a
             /\ b - Len(p) \in 1 .. Len(q) /\ (b - Len(p)) + Len(p) = b
    <3>1. q[a - Len(p)] = q[b - Len(p)]
      BY <1>3, <2>2
    <3>2. a - Len(p) = b - Len(p)
      BY <1>5, <1>8, <2>2, <3>1 DEF IsInjective
    <3> QED
      BY <1>1, <3>2
  <2>3. CASE a \in 1 .. Len(p) /\ b - Len(p) \in 1 .. Len(q) /\ (b - Len(p)) + Len(p) = b
    BY <1>2, <1>3, <1>8, <2>3 DEF Apart, Contains
  <2>4. CASE b \in 1 .. Len(p) /\ a - Len(p) \in 1 .. Len(q) /\ (a - Len(p)) + Len(p) = a
    BY <1>2, <1>3, <1>8, <2>4 DEF Apart, Contains
  <2> QED
    BY <1>4, <2>1, <2>2, <2>3, <2>4
<1> QED
  BY <1>1, <1>6, <1>7, <1>8 DEF c

(* A list is its first n elements and the rest.                             *)
LEMMA SplitQueue ==
    ASSUME NEW S, NEW q \in Seq(S), NEW n \in 0 .. Len(q)
    PROVE  /\ SubSeq(q, 1, n) \in Seq(S) /\ Len(SubSeq(q, 1, n)) = n
           /\ SubSeq(q, n + 1, Len(q)) \in Seq(S) /\ Len(SubSeq(q, n + 1, Len(q))) = Len(q) - n
           /\ \A i \in 1 .. n : SubSeq(q, 1, n)[i] = q[i]
           /\ SubSeq(q, 1, n) \o SubSeq(q, n + 1, Len(q)) = q
<1>1. Len(q) \in Nat /\ n \in Int /\ n + 1 \in Int /\ \A i \in 1 .. Len(q) : q[i] \in S
  OBVIOUS
<1>2. /\ SubSeq(q, 1, n) \in Seq(S) /\ Len(SubSeq(q, 1, n)) = n
      /\ \A i \in 1 .. n : SubSeq(q, 1, n)[i] = q[i]
  <2>1. \A i \in 1 .. n : q[i] \in S
    BY <1>1
  <2> QED
    BY <1>1, <2>1, SubSeqProperties
<1>3. SubSeq(q, n + 1, Len(q)) \in Seq(S) /\ Len(SubSeq(q, n + 1, Len(q))) = Len(q) - n
  <2>1. \A i \in n + 1 .. Len(q) : q[i] \in S
    BY <1>1
  <2>2. /\ SubSeq(q, n + 1, Len(q)) \in Seq(S)
        /\ Len(SubSeq(q, n + 1, Len(q))) = IF n + 1 <= Len(q) THEN Len(q) - (n + 1) + 1 ELSE 0
    BY <1>1, <2>1, SubSeqProperties
  <2> QED
    BY <1>1, <2>2
<1>4. SubSeq(q, 1, n) \o SubSeq(q, n + 1, Len(q)) = q
  <2>1. 1 \in 1 .. Len(q) + 1 /\ n \in 1 - 1 .. Len(q) /\ Len(q) \in n .. Len(q)
    BY <1>1
  <2>2. SubSeq(q, 1, n) \o SubSeq(q, n + 1, Len(q)) = SubSeq(q, 1, Len(q))
    BY <2>1, ConcatAdjacentSubSeq
  <2> QED
    BY <2>2, SubSeqFull
<1> QED
  BY <1>2, <1>3, <1>4

(* The head and the rest; one element more at the end.                      *)
LEMMA HeadQueue ==
    ASSUME NEW S, NEW q \in Seq(S), q # << >>
    PROVE  /\ Head(q) \in S /\ Tail(q) \in Seq(S) /\ <<Head(q)>> \in Seq(S)
           /\ <<Head(q)>> \o Tail(q) = q /\ Len(Tail(q)) = Len(q) - 1 /\ Len(q) # 0
<1>1. /\ Head(q) \in S /\ Tail(q) \in Seq(S) /\ Len(Tail(q)) = Len(q) - 1 /\ Len(q) \in Nat /\ Len(q) # 0
      /\ Head(q) = q[1]
  OBVIOUS
<1>2. 1 \in 0 .. Len(q)
  BY <1>1
<1>3. SubSeq(q, 1, 1) \o SubSeq(q, 1 + 1, Len(q)) = q /\ SubSeq(q, 1, 1) \in Seq(S) /\ Len(SubSeq(q, 1, 1)) = 1
      /\ SubSeq(q, 1, 1)[1] = q[1]
  BY <1>2, SplitQueue
<1>4. SubSeq(q, 1 + 1, Len(q)) = Tail(q)
  BY TailIsSubSeq
<1>5. <<Head(q)>> \in Seq(S) /\ Len(<<Head(q)>>) = 1 /\ <<Head(q)>>[1] = q[1]
  BY <1>1
<1>6. SubSeq(q, 1, 1) = <<Head(q)>>
  <2> DEFINE a == SubSeq(q, 1, 1)
             b == <<Head(q)>>
  <2>1. a \in Seq(S) /\ b \in Seq(S) /\ Len(a) = Len(b) /\ \A i \in 1 .. Len(a) : a[i] = b[i]
    BY <1>3, <1>5
  <2> HIDE DEF a, b
  <2>2. a = b
    BY <2>1, SeqEqual
  <2> QED
    BY <2>2 DEF a, b
<1> QED
  BY <1>1, <1>3, <1>4, <1>5, <1>6

(* What a list of one holds.                                                *)
LEMMA OneQueue ==
    ASSUME NEW S, NEW x \in S
    PROVE  <<x>> \in Seq(S) /\ Len(<<x>>) = 1 /\ IsInjective(<<x>>) /\ \A y : Contains(<<x>>, y) <=> y = x
<1>1. <<x>> \in Seq(S) /\ Len(<<x>>) = 1 /\ <<x>>[1] = x /\ DOMAIN <<x>> = 1 .. 1
  OBVIOUS
<1>2. IsInjective(<<x>>)
  BY <1>1 DEF IsInjective
<1>3. \A y : Contains(<<x>>, y) <=> y = x
  BY <1>1 DEF Contains
<1> QED
  BY <1>1, <1>2, <1>3

-----------------------------------------------------------------------------
(* The invariant.  What the variables range over:                           *)
ChPlaces == {"idle", "suspending", "waiting", "granted"}

ChTyped ==
    /\ capacity \in Nat /\ loops \in Nat \ {0}
    /\ buffer \in Seq(Nat) /\ accepted \in Seq(Nat) /\ delivered \in Seq(Nat)
    /\ sendq \in Seq(Senders) /\ recvq \in Seq(Receivers)
    /\ value \in [Senders -> Nat] /\ chPc \in [Parties -> ChPlaces]
    /\ result = [r \in Receivers |-> result[r]]
    /\ offered \in Nat /\ refused \in SUBSET Nat
    /\ Len(buffer) <= capacity

(* the lists hold those that wait, each once;                               *)
ChQueues ==
    /\ IsInjective(sendq) /\ IsInjective(recvq)
    /\ \A s : Contains(sendq, s) => s \in Senders /\ chPc[s] = "waiting"
    /\ \A r : Contains(recvq, r) => r \in Receivers /\ chPc[r] = "waiting"

(* a value is with a sender, refused, delivered or buffered, and in one     *)
(* place;                                                                   *)
IsPending(s) == chPc[s] \in {"suspending", "waiting"}

ChValues ==
    /\ IsInjective(delivered \o buffer)
    /\ \A x : Contains(accepted, x) <=> Contains(delivered \o buffer, x)
    /\ \A x : Contains(accepted, x) => x \in 1 .. offered /\ x \notin refused
    /\ refused \subseteq 1 .. offered
    /\ \A s \in Senders : IsPending(s) =>
          value[s] \in 1 .. offered /\ value[s] \notin refused /\ ~Contains(accepted, value[s])
    /\ \A s, z \in Senders : IsPending(s) /\ IsPending(z) /\ value[s] = value[z] => s = z

(* and on one loop, whoever is about to suspend is alone and still has to.  *)
ChAlone ==
    /\ \A t, u \in Parties : chPc[t] = "suspending" /\ chPc[u] = "suspending" => t = u
    /\ \A s \in Senders : chPc[s] = "suspending" => recvq = << >> /\ Len(buffer) = capacity
    /\ \A r \in Receivers : chPc[r] = "suspending" =>
          buffer = << >> /\ sendq = << >> /\ result[r] = Pending

ChFifo == loops = 1 => DocumentedInvariants /\ accepted = delivered \o buffer /\ ChAlone

ChInv == ChTyped /\ ChQueues /\ ChValues /\ ChFifo

(* Values vs, none of them seen before, come to be delivered or buffered,   *)
(* and values rs are refused; whoever is left with a value had it before,   *)
(* or (z) has the newest.                                                   *)
Moves(vs, rs, z) ==
    /\ vs \in Seq(Nat) /\ IsInjective(vs) /\ rs \in SUBSET Nat
    /\ accepted' = accepted \o vs /\ refused' = refused \cup rs
    /\ offered' \in Nat /\ offered <= offered'
    /\ IsInjective(delivered' \o buffer')
    /\ \A x : Contains(delivered' \o buffer', x) <=> Contains(delivered \o buffer, x) \/ Contains(vs, x)
    /\ \A x : Contains(vs, x) => x \in 1 .. offered' /\ x \notin refused /\ x \notin rs
    /\ \A x \in rs : x \in 1 .. offered' /\ ~Contains(accepted, x)
    /\ \A s \in Senders : chPc'[s] \in {"suspending", "waiting"} =>
          \/ /\ IsPending(s) /\ value'[s] = value[s]
             /\ ~Contains(vs, value[s]) /\ value[s] \notin rs
          \/ /\ s = z /\ value'[s] = offered + 1 /\ offered' = offered + 1
             /\ ~Contains(vs, offered + 1) /\ offered + 1 \notin rs

LEMMA ValuesStep ==
    ASSUME ChInv, NEW vs, NEW rs, NEW z, Moves(vs, rs, z)
    PROVE  ChValues'
<1>m. /\ vs \in Seq(Nat) /\ IsInjective(vs) /\ rs \in SUBSET Nat
      /\ accepted' = accepted \o vs /\ refused' = refused \cup rs
      /\ offered' \in Nat /\ offered <= offered'
      /\ IsInjective(delivered' \o buffer')
      /\ \A x : Contains(delivered' \o buffer', x) <=> Contains(delivered \o buffer, x) \/ Contains(vs, x)
      /\ \A x : Contains(vs, x) => x \in 1 .. offered' /\ x \notin refused /\ x \notin rs
      /\ \A x \in rs : x \in 1 .. offered' /\ ~Contains(accepted, x)
      /\ \A s \in Senders : chPc'[s] \in {"suspending", "waiting"} =>
            \/ /\ IsPending(s) /\ value'[s] = value[s]
               /\ ~Contains(vs, value[s]) /\ value[s] \notin rs
            \/ /\ s = z /\ value'[s] = offered + 1 /\ offered' = offered + 1
               /\ ~Contains(vs, offered + 1) /\ offered + 1 \notin rs
  BY DEF Moves
<1>t. /\ accepted \in Seq(Nat) /\ offered \in Nat /\ ChValues
      /\ \A x : Contains(accepted, x) => x \in 1 .. offered /\ x \notin refused
  BY DEF ChInv, ChTyped, ChValues
<1>1. \A x : Contains(accepted', x) <=> Contains(accepted, x) \/ Contains(vs, x)
  BY <1>m, <1>t, ConcatQueue
<1>2. \A x \in 1 .. offered : x \in 1 .. offered' /\ x # offered + 1
  BY <1>m, <1>t
<1>3. \A x : Contains(accepted', x) <=> Contains(delivered' \o buffer', x)
  BY <1>m, <1>t, <1>1 DEF ChValues
<1>4. \A x : Contains(accepted', x) => x \in 1 .. offered' /\ x \notin refused'
  BY <1>m, <1>t, <1>1, <1>2
<1>5. refused' \subseteq 1 .. offered'
  BY <1>m, <1>t, <1>2 DEF ChValues
<1>6. ASSUME NEW s \in Senders, chPc'[s] \in {"suspending", "waiting"}
      PROVE  value'[s] \in 1 .. offered' /\ value'[s] \notin refused' /\ ~Contains(accepted', value'[s])
  <2>1. CASE /\ IsPending(s) /\ value'[s] = value[s]
             /\ ~Contains(vs, value[s]) /\ value[s] \notin rs
    BY <1>m, <1>t, <1>1, <1>2, <2>1 DEF ChValues
  <2>2. CASE /\ value'[s] = offered + 1 /\ offered' = offered + 1
             /\ ~Contains(vs, offered + 1) /\ offered + 1 \notin rs
    <3>1. offered + 1 \in 1 .. offered' /\ offered + 1 \notin 1 .. offered
      BY <1>m, <1>t, <2>2
    <3> QED
      BY <1>m, <1>t, <1>1, <2>2, <3>1 DEF ChValues
  <2> QED
    BY <1>m, <1>6, <2>1, <2>2
<1>7. ASSUME NEW s \in Senders, NEW u \in Senders, chPc'[s] \in {"suspending", "waiting"},
             chPc'[u] \in {"suspending", "waiting"}, value'[s] = value'[u]
      PROVE  s = u
  <2>1. offered + 1 \notin 1 .. offered
    BY <1>m, <1>t
  <2> QED
    BY <1>m, <1>t, <1>7, <2>1 DEF ChValues
<1> QED
  BY <1>m, <1>3, <1>4, <1>5, <1>6, <1>7 DEF ChValues, IsPending

(* The same when the values stay where they are.                            *)
LEMMA ValuesStay ==
    ASSUME ChInv, UNCHANGED <<accepted, delivered, buffer, refused, offered, value>>,
           \A s \in Senders : chPc'[s] \in {"suspending", "waiting"} => IsPending(s)
    PROVE  ChValues'
BY DEF ChInv, ChValues, IsPending

-----------------------------------------------------------------------------
(* The receiving side: the values vs of the first waiting senders come in   *)
(* and those senders are resumed.                                           *)
Serves(vs) ==
    /\ vs \in Seq(Nat) /\ IsInjective(vs)
    /\ \A x : Contains(vs, x) =>
          \E s \in Senders : Contains(sendq, s) /\ value[s] = x /\ chPc'[s] = "granted"
    /\ accepted' = accepted \o vs
    /\ sendq' \in Seq(Senders) /\ IsInjective(sendq')
    /\ \A s : Contains(sendq', s) => Contains(sendq, s) /\ chPc'[s] = chPc[s]
    /\ chPc' \in [Parties -> ChPlaces]
    /\ \A t \in Parties : chPc'[t] = chPc[t] \/ (chPc'[t] = "granted" /\ Contains(sendq, t))

LEMMA ServeNone ==
    ASSUME ChInv, UNCHANGED <<accepted, sendq, chPc>>
    PROVE  Serves(<< >>)
<1>1. IsInjective(<< >>) /\ \A x : ~Contains(<< >>, x)
  BY EmptyQueue
<1>2. accepted' = accepted \o << >>
  BY ConcatEmptySeq DEF ChInv, ChTyped
<1> QED
  BY <1>1, <1>2 DEF Serves, ChInv, ChTyped, ChQueues

(* The first waiting sender is served.                                      *)
LEMMA ServeHead ==
    ASSUME ChInv, sendq # << >>, sendq' = Tail(sendq), ChGoto(Head(sendq), "granted"),
           accepted' = Append(accepted, value[Head(sendq)])
    PROVE  Serves(<<value[Head(sendq)]>>)
<1> DEFINE s == Head(sendq)
           q == Tail(sendq)
           v == value[Head(sendq)]
<1>1. /\ sendq \in Seq(Senders) /\ accepted \in Seq(Nat) /\ value \in [Senders -> Nat]
      /\ chPc \in [Parties -> ChPlaces] /\ IsInjective(sendq)
  BY DEF ChInv, ChTyped, ChQueues
<1>2. /\ s \in Senders /\ q \in Seq(Senders) /\ Contains(sendq, s) /\ IsInjective(q)
      /\ \A y : Contains(q, y) <=> (y # s /\ Contains(sendq, y))
  BY <1>1, TailQueue
<1>3. s \in Parties /\ v \in Nat /\ Append(accepted, v) = accepted \o <<v>>
  BY <1>1, <1>2, AppendIsConcat DEF Parties
<1>4. <<v>> \in Seq(Nat) /\ IsInjective(<<v>>) /\ \A y : Contains(<<v>>, y) <=> y = v
  BY <1>3, OneQueue
<1>7. chPc' = [chPc EXCEPT ![s] = "granted"]
  BY DEF ChGoto
<1>8. /\ chPc' \in [Parties -> ChPlaces] /\ chPc'[s] = "granted"
      /\ \A t \in Parties : t # s => chPc'[t] = chPc[t]
  BY <1>1, <1>3, <1>7 DEF ChPlaces
<1>9. \A y : Contains(q, y) => y \in Senders
  BY <1>2 DEF Contains
<1> HIDE DEF s, q, v
<1>10. sendq' = q /\ accepted' = accepted \o <<v>> /\ value[s] = v
  BY <1>3 DEF s, q, v
<1>11. Serves(<<v>>)
  BY <1>1, <1>2, <1>4, <1>8, <1>9, <1>10 DEF Serves, Parties
<1> QED
  BY <1>11 DEF v

(* The first k of them are.                                                 *)
LEMMA ServeMany ==
    ASSUME ChInv, NEW k \in 0 .. Len(sendq), NEW vs,
           vs = [i \in 1 .. k |-> value[sendq[i]]],
           sendq' = SubSeq(sendq, k + 1, Len(sendq)),
           chPc' = [t \in Parties |-> IF Contains(SubSeq(sendq, 1, k), t) THEN "granted" ELSE chPc[t]],
           accepted' = accepted \o vs
    PROVE  Serves(vs) /\ Len(vs) = k
<1> DEFINE p == SubSeq(sendq, 1, k)
           q == SubSeq(sendq, k + 1, Len(sendq))
<1>1. /\ sendq \in Seq(Senders) /\ accepted \in Seq(Nat) /\ value \in [Senders -> Nat]
      /\ chPc \in [Parties -> ChPlaces] /\ IsInjective(sendq)
      /\ \A s : Contains(sendq, s) => s \in Senders /\ chPc[s] = "waiting"
      /\ \A s, z \in Senders : IsPending(s) /\ IsPending(z) /\ value[s] = value[z] => s = z
  BY DEF ChInv, ChTyped, ChQueues, ChValues
<1>2. /\ p \in Seq(Senders) /\ Len(p) = k /\ q \in Seq(Senders) /\ p \o q = sendq
      /\ \A i \in 1 .. k : p[i] = sendq[i]
  BY <1>1, SplitQueue
<1>3. k \in Nat /\ Len(sendq) \in Nat /\ \A i \in 1 .. k : i \in 1 .. Len(sendq) /\ sendq[i] \in Senders
  BY <1>1
<1>4. vs \in [1 .. k -> Nat]
  BY <1>1, <1>3
<1>5. vs \in Seq(Nat) /\ Len(vs) = k /\ DOMAIN vs = 1 .. k
  BY <1>3, <1>4
<1> HIDE DEF p, q
<1>6. /\ \A y : Contains(sendq, y) <=> Contains(p, y) \/ Contains(q, y)
      /\ IsInjective(q) /\ Apart(p, q)
  <2>1. /\ \A y : Contains(p \o q, y) <=> Contains(p, y) \/ Contains(q, y)
        /\ IsInjective(p \o q) <=> IsInjective(p) /\ IsInjective(q) /\ Apart(p, q)
    BY <1>2, ConcatQueue
  <2> QED
    BY <1>1, <1>2, <2>1
<1>7. \A i \in 1 .. k : Contains(p, p[i]) /\ Contains(sendq, p[i]) /\ vs[i] = value[p[i]] /\ p[i] \in Senders
  BY <1>2, <1>3, <1>6 DEF Contains
<1>8. IsInjective(vs)
  <2> SUFFICES ASSUME NEW a \in 1 .. k, NEW b \in 1 .. k, vs[a] = vs[b] PROVE a = b
    BY <1>5 DEF IsInjective
  <2>0. IsPending(p[a]) /\ IsPending(p[b]) /\ p[a] \in Senders /\ p[b] \in Senders
    BY <1>1, <1>7 DEF IsPending
  <2>1. p[a] = p[b]
    <3>1. value[p[a]] = value[p[b]]
      BY <1>7
    <3> QED
      BY <1>1, <2>0, <3>1
  <2>2. sendq[a] = sendq[b] /\ a \in DOMAIN sendq /\ b \in DOMAIN sendq
    BY <1>1, <1>2, <1>3, <2>1
  <2> QED
    BY <1>1, <2>2 DEF IsInjective
<1>9. chPc' = [t \in Parties |-> IF Contains(p, t) THEN "granted" ELSE chPc[t]]
  BY DEF p
<1>10. chPc' \in [Parties -> ChPlaces]
  BY <1>1, <1>9 DEF ChPlaces
<1>11. /\ \A t \in Parties : Contains(p, t) => chPc'[t] = "granted"
       /\ \A t \in Parties : ~Contains(p, t) => chPc'[t] = chPc[t]
  BY <1>9
<1>12. ASSUME NEW x, Contains(vs, x)
       PROVE  \E s \in Senders : Contains(sendq, s) /\ value[s] = x /\ chPc'[s] = "granted"
  <2>1. PICK i \in 1 .. k : vs[i] = x
    BY <1>5, <1>12 DEF Contains
  <2> QED
    BY <1>7, <1>11, <2>1 DEF Parties
<1>13. \A s : Contains(q, s) => Contains(sendq, s) /\ s \in Senders /\ chPc'[s] = chPc[s]
  BY <1>1, <1>6, <1>11 DEF Apart, Parties
<1>14. sendq' = q
  BY DEF q
<1> QED
  BY <1>2, <1>5, <1>6, <1>8, <1>10, <1>11, <1>12, <1>13, <1>14 DEF Serves

(* Whoever may run finds, on one loop, nobody between await_ready() and     *)
(* await_suspend().                                                         *)
LEMMA NobodySuspends ==
    ASSUME ChInv, MayRun, loops = 1
    PROVE  \A t \in Parties : chPc[t] # "suspending"
BY DEF MayRun

(* The values that come in are fresh: they were pending.                    *)
LEMMA ServedValues ==
    ASSUME ChInv, NEW vs, Serves(vs), UNCHANGED <<value, offered, refused>>,
           delivered' \o buffer' = (delivered \o buffer) \o vs
    PROVE  ChValues'
<1> DEFINE held == delivered \o buffer
<1>1. /\ delivered \in Seq(Nat) /\ buffer \in Seq(Nat) /\ value \in [Senders -> Nat] /\ offered \in Nat
      /\ \A s : Contains(sendq, s) => s \in Senders /\ chPc[s] = "waiting"
  BY DEF ChInv, ChTyped, ChQueues
<1>2. /\ vs \in Seq(Nat) /\ IsInjective(vs) /\ accepted' = accepted \o vs
      /\ \A x : Contains(vs, x) =>
            \E s \in Senders : Contains(sendq, s) /\ value[s] = x /\ chPc'[s] = "granted"
      /\ \A t \in Parties : chPc'[t] = chPc[t] \/ (chPc'[t] = "granted" /\ Contains(sendq, t))
  BY DEF Serves
<1>3. /\ IsInjective(held) /\ \A x : Contains(accepted, x) <=> Contains(held, x)
      /\ \A s \in Senders : IsPending(s) =>
            value[s] \in 1 .. offered /\ value[s] \notin refused /\ ~Contains(accepted, value[s])
      /\ \A s, z \in Senders : IsPending(s) /\ IsPending(z) /\ value[s] = value[z] => s = z
  BY DEF ChInv, ChValues
<1>4. held \in Seq(Nat)
  BY <1>1, ConcatQueue
<1> HIDE DEF held
<1>5. \A x : Contains(vs, x) => x \in 1 .. offered /\ x \notin refused /\ ~Contains(held, x)
  <2> SUFFICES ASSUME NEW x, Contains(vs, x)
               PROVE  x \in 1 .. offered /\ x \notin refused /\ ~Contains(held, x)
    OBVIOUS
  <2>1. PICK s \in Senders : Contains(sendq, s) /\ value[s] = x
    BY <1>2
  <2>2. IsPending(s)
    BY <1>1, <2>1 DEF IsPending
  <2> QED
    BY <1>3, <2>1, <2>2
<1>6. /\ IsInjective(held \o vs)
      /\ \A x : Contains(held \o vs, x) <=> Contains(held, x) \/ Contains(vs, x)
  <2>1. Apart(held, vs)
    BY <1>5 DEF Apart
  <2> QED
    BY <1>2, <1>3, <1>4, <2>1, ConcatQueue
<1>7. \A s \in Senders : chPc'[s] \in {"suspending", "waiting"} =>
         /\ IsPending(s) /\ value'[s] = value[s]
         /\ ~Contains(vs, value[s]) /\ value[s] \notin {}
  <2> SUFFICES ASSUME NEW s \in Senders, chPc'[s] \in {"suspending", "waiting"}
               PROVE  IsPending(s) /\ ~Contains(vs, value[s])
    OBVIOUS
  <2>1. IsPending(s)
    BY <1>2 DEF IsPending, Parties
  <2>2. ASSUME Contains(vs, value[s]) PROVE FALSE
    <3>1. PICK z \in Senders : Contains(sendq, z) /\ value[z] = value[s] /\ chPc'[z] = "granted"
      BY <1>2, <2>2
    <3>2. IsPending(z)
      BY <1>1, <3>1 DEF IsPending
    <3>3. s = z
      BY <1>3, <2>1, <3>1, <3>2
    <3> QED
      BY <3>1, <3>3
  <2> QED
    BY <2>1, <2>2
<1>8. /\ IsInjective(delivered' \o buffer')
      /\ \A x : Contains(delivered' \o buffer', x) <=> Contains(delivered \o buffer, x) \/ Contains(vs, x)
  BY <1>6 DEF held
<1>9. offered' \in Nat /\ offered <= offered'
  BY <1>1
<1> DEFINE rs == {}
<1>10. rs \in SUBSET Nat /\ refused' = refused \cup rs
  OBVIOUS
<1>11. \A x \in rs : x \in 1 .. offered' /\ ~Contains(accepted, x)
  OBVIOUS
<1>12. \A x : Contains(vs, x) => x \in 1 .. offered' /\ x \notin refused /\ x \notin rs
  BY <1>5
<1>13. \A s \in Senders : chPc'[s] \in {"suspending", "waiting"} =>
          \/ /\ IsPending(s) /\ value'[s] = value[s]
             /\ ~Contains(vs, value[s]) /\ value[s] \notin rs
          \/ /\ s = rs /\ value'[s] = offered + 1 /\ offered' = offered + 1
             /\ ~Contains(vs, offered + 1) /\ offered + 1 \notin rs
  BY <1>7
<1> HIDE DEF rs
<1>14. Moves(vs, rs, rs)
  BY <1>2, <1>8, <1>9, <1>10, <1>11, <1>12, <1>13 DEF Moves
<1> QED
  BY <1>14, ValuesStep

(* What a step on the receiving side keeps.                                 *)
LEMMA ReceiveSide ==
    ASSUME ChInv, MayRun, NEW vs, Serves(vs),
           UNCHANGED <<capacity, loops, recvq, value, offered, refused>>,
           delivered' \in Seq(Nat), buffer' \in Seq(Nat), Len(buffer') <= capacity,
           delivered' \o buffer' = (delivered \o buffer) \o vs,
           result' = [r \in Receivers |-> result'[r]],
           loops = 1 => DocumentedInvariants'
    PROVE  ChInv'
<1>1. ChValues'
  BY ServedValues
<1>2. /\ vs \in Seq(Nat) /\ accepted' = accepted \o vs /\ sendq' \in Seq(Senders) /\ IsInjective(sendq')
      /\ \A s : Contains(sendq', s) => Contains(sendq, s) /\ chPc'[s] = chPc[s]
      /\ chPc' \in [Parties -> ChPlaces]
      /\ \A t \in Parties : chPc'[t] = chPc[t] \/ (chPc'[t] = "granted" /\ Contains(sendq, t))
  BY DEF Serves
<1>3. ChTyped'
  <2>1. accepted' \in Seq(Nat)
    BY <1>2, ConcatQueue DEF ChInv, ChTyped
  <2> QED
    BY <1>2, <2>1 DEF ChInv, ChTyped
<1>4. ChQueues'
  <2>1. \A r : Contains(recvq, r) => r \in Receivers /\ chPc[r] = "waiting"
    BY DEF ChInv, ChQueues
  <2>2. \A r \in Receivers : ~Contains(sendq, r)
    BY ChannelAssumption DEF ChInv, ChQueues
  <2>3. \A r : Contains(recvq, r) => r \in Receivers /\ chPc'[r] = "waiting"
    BY <1>2, <2>1, <2>2 DEF Parties
  <2>4. \A s : Contains(sendq', s) => s \in Senders /\ chPc'[s] = "waiting"
    BY <1>2 DEF ChInv, ChQueues
  <2> QED
    BY <1>2, <2>3, <2>4 DEF ChInv, ChQueues
<1>5. ASSUME loops = 1 PROVE accepted' = delivered' \o buffer' /\ ChAlone'
  <2>1. accepted' = delivered' \o buffer'
    BY <1>2, <1>5 DEF ChInv, ChFifo
  <2>2. \A t \in Parties : chPc'[t] # "suspending"
    BY <1>2, <1>5, NobodySuspends
  <2> QED
    BY <2>1, <2>2 DEF ChAlone, Parties
<1> QED
  BY <1>1, <1>3, <1>4, <1>5 DEF ChInv, ChFifo

(* Nothing but the receivers' results changes.                              *)
LEMMA NothingMoves ==
    ASSUME ChInv, MayRun,
           UNCHANGED <<capacity, loops, recvq, sendq, chPc, value, offered, refused, accepted,
                       delivered, buffer>>,
           result' = [r \in Receivers |-> result'[r]]
    PROVE  ChInv'
<1>1. Serves(<< >>)
  BY ServeNone
<1>2. delivered \in Seq(Nat) /\ buffer \in Seq(Nat) /\ Len(buffer) <= capacity
  BY DEF ChInv, ChTyped
<1>3. (delivered \o buffer) \o << >> = delivered \o buffer
  BY <1>2, ConcatQueue, ConcatEmptySeq
<1>4. loops = 1 => DocumentedInvariants'
  BY DEF ChInv, ChFifo, DocumentedInvariants
<1> QED
  BY <1>1, <1>2, <1>3, <1>4, ReceiveSide

-----------------------------------------------------------------------------
(* Concatenations in another grouping: of three lists,                      *)
SameJoin(p, q, r) == (p \o q) \o r = p \o (q \o r)

LEMMA Rejoin ==
    ASSUME NEW S, NEW p \in Seq(S), NEW q \in Seq(S), NEW r \in Seq(S)
    PROVE  SameJoin(p, q, r)
BY ConcatAssociative DEF SameJoin

(* and of four.                                                             *)
SameCut(p, q, r, s) == (p \o q) \o (r \o s) = (p \o (q \o r)) \o s

LEMMA Regroup ==
    ASSUME NEW S, NEW p \in Seq(S), NEW q \in Seq(S), NEW r \in Seq(S), NEW s \in Seq(S)
    PROVE  SameCut(p, q, r, s)
<1> DEFINE c == p \o q
<1>1. c \in Seq(S)
  BY ConcatQueue
<1> HIDE DEF c
<1>c. (c \o r) \o s = c \o (r \o s)
  BY <1>1, ConcatAssociative
<1>2. (p \o q) \o (r \o s) = ((p \o q) \o r) \o s
  BY <1>c DEF c
<1>3. (p \o q) \o r = p \o (q \o r)
  BY ConcatAssociative
<1> QED
  BY <1>2, <1>3 DEF SameCut

(* The oldest value leaves the buffer, at most one sender refills it.       *)
LEMMA PopStep ==
    ASSUME ChInv, MayRun, buffer # << >>, PopAndRefill,
           UNCHANGED <<capacity, loops, recvq, value, offered, refused>>,
           result' = [r \in Receivers |-> result'[r]]
    PROVE  ChInv'
<1> DEFINE h == Head(buffer)
           rest == Tail(buffer)
<1>1. /\ delivered \in Seq(Nat) /\ buffer \in Seq(Nat) /\ Len(buffer) <= capacity /\ capacity \in Nat
      /\ sendq \in Seq(Senders) /\ value \in [Senders -> Nat] /\ accepted \in Seq(Nat)
  BY DEF ChInv, ChTyped
<1>2. /\ h \in Nat /\ rest \in Seq(Nat) /\ <<h>> \in Seq(Nat) /\ <<h>> \o rest = buffer
      /\ Len(rest) = Len(buffer) - 1
  BY <1>1, HeadQueue
<1>3. delivered' = delivered \o <<h>>
  BY <1>1, <1>2, AppendIsConcat DEF PopAndRefill
<1>4. delivered' \in Seq(Nat)
  BY <1>1, <1>2, <1>3, ConcatQueue
<1>5. loops = 1 => recvq = << >> /\ (sendq # << >> => Len(buffer) = capacity)
  BY DEF ChInv, ChFifo, DocumentedInvariants
<1>6. CASE sendq = << >>
  <2>1. buffer' = rest /\ UNCHANGED <<sendq, accepted, chPc>>
    BY <1>6 DEF PopAndRefill
  <2> HIDE DEF h, rest
  <2>2. rest \o << >> = rest
    BY <1>2, ConcatEmptySeq
  <2>e. << >> \in Seq(Nat)
    OBVIOUS
  <2>r. SameCut(delivered, <<h>>, rest, << >>)
    BY <1>1, <1>2, <2>e, Regroup
  <2>3. delivered' \o buffer' = (delivered \o buffer) \o << >>
    BY <1>2, <1>3, <2>1, <2>2, <2>r DEF SameCut
  <2>4. Serves(<< >>)
    BY <2>1, ServeNone
  <2>5. Len(buffer') <= capacity
    BY <1>1, <1>2, <2>1
  <2>6. loops = 1 => DocumentedInvariants'
    BY <1>5, <1>6, <2>1, <2>5 DEF DocumentedInvariants
  <2> QED
    BY <1>2, <1>4, <2>1, <2>3, <2>4, <2>5, <2>6, ReceiveSide
<1>7. CASE sendq # << >>
  <2> DEFINE v == value[Head(sendq)]
  <2>1. /\ buffer' = Append(rest, v) /\ sendq' = Tail(sendq) /\ accepted' = Append(accepted, v)
        /\ ChGoto(Head(sendq), "granted")
    BY <1>7 DEF PopAndRefill
  <2>2. Serves(<<v>>)
    BY <1>7, <2>1, ServeHead
  <2>3. v \in Nat /\ <<v>> \in Seq(Nat) /\ Len(<<v>>) = 1
    BY <1>1, <1>7, HeadQueue
  <2> HIDE DEF h, rest, v
  <2>4. buffer' = rest \o <<v>>
    BY <1>2, <2>1, <2>3, AppendIsConcat
  <2>r. SameCut(delivered, <<h>>, rest, <<v>>)
    BY <1>1, <1>2, <2>3, Regroup
  <2>5. delivered' \o buffer' = (delivered \o buffer) \o <<v>>
    BY <1>2, <1>3, <2>4, <2>r DEF SameCut
  <2>6. buffer' \in Seq(Nat) /\ Len(buffer') = Len(rest) + 1
    BY <1>2, <2>3, <2>4, ConcatQueue
  <2>7. Len(buffer') <= capacity /\ (Len(buffer) = capacity => Len(buffer') = capacity)
    BY <1>1, <1>2, <2>6
  <2>8. loops = 1 => DocumentedInvariants'
    BY <1>5, <1>7, <2>7 DEF DocumentedInvariants
  <2> QED
    BY <1>4, <2>2, <2>5, <2>6, <2>7, <2>8, ReceiveSide
<1> QED
  BY <1>6, <1>7

(* The buffer is empty and the first waiting sender's value is taken.       *)
LEMMA TakeStep ==
    ASSUME ChInv, MayRun, buffer = << >>, sendq # << >>, TakeFromSender,
           UNCHANGED <<capacity, loops, recvq, value, offered, refused>>,
           result' = [r \in Receivers |-> result'[r]]
    PROVE  ChInv'
<1> DEFINE v == value[Head(sendq)]
<1>1. /\ delivered \in Seq(Nat) /\ buffer \in Seq(Nat) /\ Len(buffer) <= capacity
      /\ sendq \in Seq(Senders) /\ value \in [Senders -> Nat]
  BY DEF ChInv, ChTyped
<1>2. /\ sendq' = Tail(sendq) /\ accepted' = Append(accepted, v) /\ delivered' = Append(delivered, v)
      /\ ChGoto(Head(sendq), "granted") /\ buffer' = buffer
  BY DEF TakeFromSender
<1>3. Serves(<<v>>)
  BY <1>2, ServeHead
<1>4. v \in Nat /\ <<v>> \in Seq(Nat)
  BY <1>1, HeadQueue
<1> HIDE DEF v
<1>5. delivered' = delivered \o <<v>> /\ delivered' \in Seq(Nat)
  BY <1>1, <1>2, <1>4, AppendIsConcat
<1>6. delivered' \o buffer' = (delivered \o buffer) \o <<v>>
  <2>1. delivered \o buffer = delivered /\ delivered' \o buffer' = delivered'
    BY <1>1, <1>2, <1>5, ConcatEmptySeq
  <2> QED
    BY <1>5, <2>1
<1>7. loops = 1 => DocumentedInvariants'
  BY <1>2 DEF ChInv, ChFifo, DocumentedInvariants
<1> QED
  BY <1>1, <1>2, <1>3, <1>5, <1>6, <1>7, ReceiveSide

(* The first n values leave the buffer, waiting senders refill it.          *)
LEMMA DrainStep ==
    ASSUME ChInv, MayRun, NEW n \in 0 .. Len(buffer), ChDrain(n),
           UNCHANGED <<capacity, loops, recvq, value, offered, refused>>,
           result' = [r \in Receivers |-> result'[r]]
    PROVE  ChInv'
<1> DEFINE out == SubSeq(buffer, 1, n)
           left == SubSeq(buffer, n + 1, Len(buffer))
           room == capacity - Len(left)
           k == IF Len(sendq) <= room THEN Len(sendq) ELSE room
           refill == [i \in 1 .. k |-> value[sendq[i]]]
<1>1. /\ delivered \in Seq(Nat) /\ buffer \in Seq(Nat) /\ Len(buffer) <= capacity /\ capacity \in Nat
      /\ sendq \in Seq(Senders) /\ value \in [Senders -> Nat] /\ accepted \in Seq(Nat)
      /\ Len(sendq) \in Nat /\ Len(buffer) \in Nat
  BY DEF ChInv, ChTyped
<1>2. /\ out \in Seq(Nat) /\ left \in Seq(Nat) /\ out \o left = buffer
      /\ Len(left) = Len(buffer) - n
  BY <1>1, SplitQueue
<1>n. n \in Nat
  BY <1>1
<1>3. /\ buffer' = left \o refill /\ delivered' = delivered \o out
      /\ sendq' = SubSeq(sendq, k + 1, Len(sendq)) /\ accepted' = accepted \o refill
      /\ chPc' = [t \in Parties |-> IF Contains(SubSeq(sendq, 1, k), t) THEN "granted" ELSE chPc[t]]
  BY DEF ChDrain
<1> HIDE DEF out, left
<1>4. room \in Nat /\ Len(left) \in Nat
  BY <1>1, <1>2, <1>n
<1>5. /\ k \in 0 .. Len(sendq) /\ k <= room /\ (Len(sendq) = 0 => k = 0)
      /\ k # Len(sendq) => k = room
  BY <1>1, <1>4
<1>6. Len(left) + room = capacity
  BY <1>1, <1>4
<1> HIDE DEF k, room
<1>7. Serves(refill) /\ Len(refill) = k
  BY <1>3, <1>5, ServeMany
<1>8. refill \in Seq(Nat)
  BY <1>7 DEF Serves
<1> HIDE DEF refill
<1>9. /\ buffer' \in Seq(Nat) /\ Len(buffer') = Len(left) + k /\ delivered' \in Seq(Nat)
  BY <1>1, <1>2, <1>3, <1>7, <1>8, ConcatQueue
<1>r. SameCut(delivered, out, left, refill)
  BY <1>1, <1>2, <1>8, Regroup
<1>10. delivered' \o buffer' = (delivered \o buffer) \o refill
  BY <1>2, <1>3, <1>r DEF SameCut
<1>11. Len(buffer') <= capacity /\ (k = room => Len(buffer') = capacity)
  BY <1>1, <1>4, <1>5, <1>6, <1>9
<1>12. Len(sendq') = Len(sendq) - k /\ sendq' \in Seq(Senders)
  BY <1>1, <1>3, <1>5, SplitQueue
<1>13. sendq' # << >> => Len(buffer') = capacity
  <2>1. k = Len(sendq) => Len(sendq') = 0
    BY <1>1, <1>12
  <2> QED
    BY <1>5, <1>11, <1>12, <2>1
<1>14. ASSUME loops = 1, recvq # << >> PROVE buffer' = << >> /\ sendq' = << >>
  <2>1. buffer = << >> /\ sendq = << >>
    BY <1>14 DEF ChInv, ChFifo, DocumentedInvariants
  <2>2. Len(buffer) = 0 /\ Len(sendq) = 0
    BY <2>1
  <2>3. Len(buffer') = 0 /\ Len(sendq') = 0
    BY <1>2, <1>4, <1>5, <1>9, <1>12, <2>2
  <2> QED
    BY <1>9, <1>12, <2>3
<1>15. loops = 1 => DocumentedInvariants'
  BY <1>11, <1>13, <1>14 DEF DocumentedInvariants
<1> QED
  BY <1>7, <1>9, <1>10, <1>11, <1>15, ReceiveSide

-----------------------------------------------------------------------------
(* The sending side: of the values vs, the first go to waiting receivers    *)
(* and the others, when nobody waits any more, into the buffer.             *)
Splits(vs, handed, pushed) ==
    /\ handed \in Seq(Nat) /\ pushed \in Seq(Nat) /\ vs = handed \o pushed
    /\ delivered' = delivered \o handed /\ buffer' = buffer \o pushed
    /\ recvq = << >> => handed = << >>
    /\ pushed # << >> => recvq' = << >>

Takes(vs) ==
    /\ vs \in Seq(Nat)
    /\ \E handed, pushed : Splits(vs, handed, pushed)
    /\ Len(buffer') <= capacity
    /\ accepted' = accepted \o vs
    /\ recvq' \in Seq(Receivers) /\ IsInjective(recvq') /\ (recvq' # << >> => recvq # << >>)
    /\ \A r : Contains(recvq', r) => Contains(recvq, r) /\ chPc'[r] = chPc[r]
    /\ chPc' \in [Parties -> ChPlaces]
    /\ \A t \in Parties : chPc'[t] = chPc[t] \/ (chPc'[t] = "granted" /\ t \in Receivers)
    /\ result' = [r \in Receivers |-> result'[r]]
    /\ \A r \in Receivers : result'[r] = result[r] \/ result'[r] \in Nat

LEMMA AcceptTakes ==
    ASSUME ChInv, NEW vs \in Seq(Nat), Len(vs) <= CanAccept, Accept(vs)
    PROVE  Takes(vs)
<1> DEFINE k == IF Len(vs) <= Len(recvq) THEN Len(vs) ELSE Len(recvq)
           handed == SubSeq(vs, 1, k)
           pushed == SubSeq(vs, k + 1, Len(vs))
           p == SubSeq(recvq, 1, k)
           q == SubSeq(recvq, k + 1, Len(recvq))
           Index(r) == CHOOSE i \in 1 .. Len(recvq) : recvq[i] = r
<1>1. /\ recvq \in Seq(Receivers) /\ Len(recvq) \in Nat /\ Len(vs) \in Nat /\ IsInjective(recvq)
      /\ buffer \in Seq(Nat) /\ Len(buffer) \in Nat /\ capacity \in Nat /\ Len(buffer) <= capacity
      /\ chPc \in [Parties -> ChPlaces]
      /\ \A r : Contains(recvq, r) => r \in Receivers /\ chPc[r] = "waiting"
  BY DEF ChInv, ChTyped, ChQueues
<1>2. /\ recvq' = q /\ buffer' = buffer \o pushed /\ accepted' = accepted \o vs
      /\ delivered' = delivered \o handed
      /\ result' = [r \in Receivers |-> IF Contains(p, r) THEN vs[Index(r)] ELSE result[r]]
      /\ chPc' = [t \in Parties |-> IF t \in Receivers /\ Contains(p, t) THEN "granted" ELSE chPc[t]]
  BY DEF Accept
<1>3. /\ k \in Nat /\ k \in 0 .. Len(recvq) /\ k \in 0 .. Len(vs) /\ (k # Len(vs) => k = Len(recvq))
      /\ Len(recvq) = 0 => k = 0
  BY <1>1
<1> HIDE DEF k
<1>4. /\ p \in Seq(Receivers) /\ Len(p) = k /\ q \in Seq(Receivers) /\ p \o q = recvq
      /\ Len(q) = Len(recvq) - k /\ \A i \in 1 .. k : p[i] = recvq[i]
  BY <1>1, <1>3, SplitQueue
<1>5. /\ handed \in Seq(Nat) /\ pushed \in Seq(Nat) /\ handed \o pushed = vs
      /\ Len(handed) = k /\ Len(pushed) = Len(vs) - k
  BY <1>3, SplitQueue
<1> HIDE DEF p, q, handed, pushed
<1>6. /\ \A y : Contains(recvq, y) <=> Contains(p, y) \/ Contains(q, y)
      /\ IsInjective(q) /\ Apart(p, q)
  <2>1. /\ \A y : Contains(p \o q, y) <=> Contains(p, y) \/ Contains(q, y)
        /\ IsInjective(p \o q) <=> IsInjective(p) /\ IsInjective(q) /\ Apart(p, q)
    BY <1>4, ConcatQueue
  <2> QED
    BY <1>1, <1>4, <2>1
<1>7. Len(buffer') <= capacity
  <2>1. Len(buffer') = Len(buffer) + Len(pushed)
    BY <1>1, <1>2, <1>5, ConcatQueue
  <2>2. Len(vs) <= Len(recvq) + (capacity - Len(buffer))
    BY <1>1 DEF CanAccept
  <2> QED
    BY <1>1, <1>3, <1>5, <2>1, <2>2
<1>8. Splits(vs, handed, pushed)
  <2>1. ASSUME recvq = << >> PROVE handed = << >>
    <3>1. Len(handed) = 0
      BY <1>3, <1>5, <2>1
    <3> QED
      BY <1>5, <3>1
  <2>2. ASSUME pushed # << >> PROVE q = << >>
    <3>1. Len(pushed) # 0
      BY <1>5, <2>2
    <3>2. Len(q) = 0
      BY <1>1, <1>3, <1>4, <1>5, <3>1
    <3> QED
      BY <1>4, <3>2
  <2> QED
    BY <1>2, <1>5, <2>1, <2>2 DEF Splits
<1>9. \A r \in Receivers : Contains(p, r) => vs[Index(r)] \in Nat
  <2> SUFFICES ASSUME NEW r \in Receivers, Contains(p, r) PROVE vs[Index(r)] \in Nat
    OBVIOUS
  <2>1. PICK i \in 1 .. k : p[i] = r
    BY <1>4 DEF Contains
  <2>2. i \in 1 .. Len(recvq) /\ recvq[i] = r /\ i \in 1 .. Len(vs)
    BY <1>1, <1>3, <1>4, <2>1
  <2>3. Index(r) \in 1 .. Len(recvq) /\ recvq[Index(r)] = r
    BY <2>2
  <2> HIDE DEF Index
  <2>4. Index(r) = i
    BY <1>1, <2>2, <2>3 DEF IsInjective
  <2> QED
    BY <2>2, <2>4
<1>10. /\ result' = [r \in Receivers |-> result'[r]]
       /\ \A r \in Receivers : result'[r] = result[r] \/ result'[r] \in Nat
  <2> HIDE DEF Index
  <2> QED
    BY <1>2, <1>9
<1>11. /\ chPc' \in [Parties -> ChPlaces]
       /\ \A t \in Parties : chPc'[t] = chPc[t] \/ (chPc'[t] = "granted" /\ t \in Receivers)
       /\ \A t \in Parties : ~Contains(p, t) => chPc'[t] = chPc[t]
  BY <1>1, <1>2 DEF ChPlaces
<1>12. \A r : Contains(q, r) => Contains(recvq, r) /\ chPc'[r] = chPc[r]
  BY <1>1, <1>6, <1>11 DEF Apart, Parties
<1>13. q # << >> => recvq # << >>
  <2> SUFFICES ASSUME recvq = << >> PROVE q = << >>
    OBVIOUS
  <2>1. Len(q) = 0
    BY <1>3, <1>4
  <2> QED
    BY <1>4, <2>1
<1> QED
  BY <1>2, <1>4, <1>6, <1>7, <1>8, <1>10, <1>11, <1>12, <1>13 DEF Takes

(* Nobody sends: nothing is taken.                                          *)
LEMMA TakeNothing ==
    ASSUME ChInv, UNCHANGED <<buffer, recvq, result, chPc, accepted, delivered>>
    PROVE  Takes(<< >>)
<1>1. /\ delivered \in Seq(Nat) /\ buffer \in Seq(Nat) /\ accepted \in Seq(Nat) /\ Len(buffer) <= capacity
      /\ recvq \in Seq(Receivers) /\ IsInjective(recvq) /\ chPc \in [Parties -> ChPlaces]
      /\ result = [r \in Receivers |-> result[r]] /\ << >> \in Seq(Nat)
  BY DEF ChInv, ChTyped, ChQueues
<1>2. delivered \o << >> = delivered /\ buffer \o << >> = buffer /\ accepted \o << >> = accepted
  BY <1>1, ConcatEmptySeq
<1>3. << >> \o << >> = << >>
  BY <1>1, ConcatEmptySeq
<1>4. Splits(<< >>, << >>, << >>)
  BY <1>1, <1>2, <1>3 DEF Splits
<1> QED
  BY <1>1, <1>2, <1>4 DEF Takes

(* New values are offered: vs are taken, rs refused.                        *)
Offers(vs, rs) ==
    /\ Takes(vs) /\ IsInjective(vs)
    /\ rs \in SUBSET Nat /\ refused' = refused \cup rs
    /\ offered' \in Nat /\ offered <= offered'
    /\ \A x : Contains(vs, x) => x \in offered + 1 .. offered' /\ x \notin rs
    /\ \A x \in rs : x \in offered + 1 .. offered'
    /\ UNCHANGED <<capacity, loops, sendq>>
    /\ value' \in [Senders -> Nat]
    /\ \A s \in Senders : IsPending(s) => value'[s] = value[s]

LEMMA OfferedValues ==
    ASSUME ChInv, NEW vs, NEW rs, Offers(vs, rs)
    PROVE  ChValues'
<1> DEFINE held == delivered \o buffer
<1>1. /\ delivered \in Seq(Nat) /\ buffer \in Seq(Nat) /\ offered \in Nat
      /\ IsInjective(held) /\ \A x : Contains(accepted, x) <=> Contains(held, x)
      /\ \A x : Contains(accepted, x) => x \in 1 .. offered
      /\ refused \subseteq 1 .. offered
      /\ \A s \in Senders : IsPending(s) => value[s] \in 1 .. offered
  BY DEF ChInv, ChTyped, ChValues
<1>2. /\ vs \in Seq(Nat) /\ IsInjective(vs) /\ rs \in SUBSET Nat
      /\ accepted' = accepted \o vs /\ refused' = refused \cup rs
      /\ offered' \in Nat /\ offered <= offered'
      /\ \A x : Contains(vs, x) => x \in offered + 1 .. offered' /\ x \notin rs
      /\ \A x \in rs : x \in offered + 1 .. offered'
      /\ \A s \in Senders : IsPending(s) => value'[s] = value[s]
      /\ \A t \in Parties : chPc'[t] = chPc[t] \/ (chPc'[t] = "granted" /\ t \in Receivers)
  BY DEF Offers, Takes
<1>3. PICK handed, pushed : Splits(vs, handed, pushed)
  BY DEF Offers, Takes
<1>4. /\ handed \in Seq(Nat) /\ pushed \in Seq(Nat) /\ vs = handed \o pushed
      /\ delivered' = delivered \o handed /\ buffer' = buffer \o pushed
  BY <1>3 DEF Splits
<1>5. \A x \in offered + 1 .. offered' : x \in 1 .. offered' /\ x \notin 1 .. offered
  BY <1>1, <1>2
<1>6. /\ \A x : Contains(vs, x) <=> Contains(handed, x) \/ Contains(pushed, x)
      /\ IsInjective(handed) /\ IsInjective(pushed) /\ Apart(handed, pushed)
  BY <1>2, <1>4, ConcatQueue
<1>7. /\ \A x : Contains(held, x) <=> Contains(delivered, x) \/ Contains(buffer, x)
      /\ IsInjective(delivered) /\ IsInjective(buffer) /\ Apart(delivered, buffer)
  BY <1>1, ConcatQueue
<1> HIDE DEF held
<1>8. \A x : Contains(vs, x) => ~Contains(held, x)
  BY <1>1, <1>2, <1>5
<1>9. /\ delivered' \in Seq(Nat) /\ IsInjective(delivered')
      /\ \A x : Contains(delivered', x) <=> Contains(delivered, x) \/ Contains(handed, x)
  <2>1. Apart(delivered, handed)
    BY <1>6, <1>7, <1>8 DEF Apart
  <2> QED
    BY <1>1, <1>4, <1>6, <1>7, <2>1, ConcatQueue
<1>10. /\ buffer' \in Seq(Nat) /\ IsInjective(buffer')
       /\ \A x : Contains(buffer', x) <=> Contains(buffer, x) \/ Contains(pushed, x)
  <2>1. Apart(buffer, pushed)
    BY <1>6, <1>7, <1>8 DEF Apart
  <2> QED
    BY <1>1, <1>4, <1>6, <1>7, <2>1, ConcatQueue
<1>11. /\ IsInjective(delivered' \o buffer')
       /\ \A x : Contains(delivered' \o buffer', x) <=> Contains(delivered', x) \/ Contains(buffer', x)
  <2>1. Apart(delivered', buffer')
    BY <1>6, <1>7, <1>8, <1>9, <1>10 DEF Apart
  <2> QED
    BY <1>9, <1>10, <2>1, ConcatQueue
<1>12. \A x : Contains(delivered' \o buffer', x) <=> Contains(delivered \o buffer, x) \/ Contains(vs, x)
  BY <1>6, <1>7, <1>9, <1>10, <1>11 DEF held
<1>13. \A x : Contains(vs, x) => x \in 1 .. offered' /\ x \notin refused /\ x \notin rs
  BY <1>1, <1>2, <1>5
<1>14. \A x \in rs : x \in 1 .. offered' /\ ~Contains(accepted, x)
  BY <1>1, <1>2, <1>5
<1>15. \A s \in Senders : chPc'[s] \in {"suspending", "waiting"} =>
          /\ IsPending(s) /\ value'[s] = value[s]
          /\ ~Contains(vs, value[s]) /\ value[s] \notin rs
  <2> SUFFICES ASSUME NEW s \in Senders, chPc'[s] \in {"suspending", "waiting"}
               PROVE  /\ IsPending(s) /\ value'[s] = value[s]
                      /\ ~Contains(vs, value[s]) /\ value[s] \notin rs
    OBVIOUS
  <2>1. IsPending(s)
    BY <1>2 DEF IsPending, Parties
  <2> QED
    BY <1>1, <1>2, <1>5, <2>1
<1>16. Moves(vs, rs, 0)
  BY <1>2, <1>11, <1>12, <1>13, <1>14, <1>15 DEF Moves
<1> QED
  BY <1>16, ValuesStep

LEMMA SendSide ==
    ASSUME ChInv, MayRun, NEW vs, NEW rs, Offers(vs, rs)
    PROVE  ChInv'
<1>1. ChValues'
  BY OfferedValues
<1>2. /\ vs \in Seq(Nat) /\ accepted' = accepted \o vs /\ Len(buffer') <= capacity
      /\ recvq' \in Seq(Receivers) /\ IsInjective(recvq') /\ (recvq' # << >> => recvq # << >>)
      /\ \A r : Contains(recvq', r) => Contains(recvq, r) /\ chPc'[r] = chPc[r]
      /\ chPc' \in [Parties -> ChPlaces]
      /\ \A t \in Parties : chPc'[t] = chPc[t] \/ (chPc'[t] = "granted" /\ t \in Receivers)
      /\ result' = [r \in Receivers |-> result'[r]]
      /\ refused' \in SUBSET Nat /\ offered' \in Nat /\ UNCHANGED <<capacity, loops, sendq>>
      /\ value' \in [Senders -> Nat]
  BY DEF Offers, Takes, ChInv, ChTyped
<1>3. PICK handed, pushed : Splits(vs, handed, pushed)
  BY DEF Offers, Takes
<1>4. /\ handed \in Seq(Nat) /\ pushed \in Seq(Nat) /\ vs = handed \o pushed
      /\ delivered' = delivered \o handed /\ buffer' = buffer \o pushed
      /\ recvq = << >> => handed = << >>
      /\ pushed # << >> => recvq' = << >>
  BY <1>3 DEF Splits
<1>5. /\ delivered \in Seq(Nat) /\ buffer \in Seq(Nat) /\ accepted \in Seq(Nat) /\ capacity \in Nat
      /\ sendq \in Seq(Senders) /\ loops \in Nat \ {0}
  BY DEF ChInv, ChTyped
<1>6. /\ delivered' \in Seq(Nat) /\ buffer' \in Seq(Nat) /\ accepted' \in Seq(Nat)
      /\ Len(buffer') = Len(buffer) + Len(pushed)
  BY <1>2, <1>4, <1>5, ConcatQueue
<1>7. ChTyped'
  BY <1>2, <1>5, <1>6 DEF ChTyped
<1>8. ChQueues'
  <2>1. /\ \A s : Contains(sendq, s) => s \in Senders /\ chPc[s] = "waiting"
        /\ \A r : Contains(recvq, r) => r \in Receivers /\ chPc[r] = "waiting"
        /\ IsInjective(sendq)
    BY DEF ChInv, ChQueues
  <2>2. \A s \in Senders : chPc'[s] = chPc[s]
    BY <1>2, ChannelAssumption DEF Parties
  <2> QED
    BY <1>2, <2>1, <2>2 DEF ChQueues
<1>9. ASSUME loops = 1 PROVE DocumentedInvariants' /\ accepted' = delivered' \o buffer' /\ ChAlone'
  <2>1. /\ recvq # << >> => buffer = << >>
        /\ sendq # << >> => Len(buffer) = capacity
        /\ recvq = << >> \/ sendq = << >>
        /\ accepted = delivered \o buffer
    BY <1>9 DEF ChInv, ChFifo, DocumentedInvariants
  <2>2. \A t \in Parties : chPc'[t] # "suspending"
    BY <1>2, <1>9, NobodySuspends
  <2>3. DocumentedInvariants'
    <3>1. ASSUME recvq' # << >> PROVE buffer' = << >>
      <4>1. pushed = << >> /\ buffer = << >>
        BY <1>2, <1>4, <2>1, <3>1
      <4>2. << >> \o << >> = << >>
        BY <1>5, <4>1, ConcatEmptySeq
      <4> QED
        BY <1>4, <4>1, <4>2
    <3>2. ASSUME sendq # << >> PROVE Len(buffer') = capacity
      <4>1. Len(buffer) = capacity /\ Len(pushed) \in Nat /\ Len(buffer) \in Nat
        BY <1>4, <1>5, <2>1, <3>2
      <4> QED
        BY <1>2, <1>5, <1>6, <4>1
    <3> QED
      BY <1>2, <2>1, <3>1, <3>2 DEF DocumentedInvariants
  <2>4. accepted' = delivered' \o buffer'
    <3>1. CASE handed = << >>
      <4>1. vs = pushed /\ delivered' = delivered
        BY <1>4, <1>5, <3>1, ConcatEmptySeq
      <4>2. SameJoin(delivered, buffer, pushed)
        BY <1>4, <1>5, Rejoin
      <4> QED
        BY <1>2, <1>4, <2>1, <4>1, <4>2 DEF SameJoin
    <3>2. CASE handed # << >>
      <4>1. buffer = << >>
        BY <1>4, <2>1, <3>2
      <4>2. buffer' = pushed /\ accepted = delivered
        BY <1>4, <1>5, <2>1, <4>1, ConcatEmptySeq
      <4>3. SameJoin(delivered, handed, pushed)
        BY <1>4, <1>5, Rejoin
      <4> QED
        BY <1>2, <1>4, <4>2, <4>3 DEF SameJoin
    <3> QED
      BY <3>1, <3>2
  <2> QED
    BY <2>2, <2>3, <2>4 DEF ChAlone, Parties
<1> QED
  BY <1>1, <1>2, <1>7, <1>8, <1>9 DEF ChInv, ChFifo

-----------------------------------------------------------------------------
(* The steps.  send(): await_ready().                                       *)
LEMMA SendReadyStep ==
    ASSUME ChInv, NEW s \in Senders, SendReady(s), UNCHANGED <<capacity, loops>>
    PROVE  ChInv'
<1>1. /\ chPc[s] = "idle" /\ MayRun /\ offered' = offered + 1 /\ value' = [value EXCEPT ![s] = offered + 1]
      /\ UNCHANGED sendq
  BY DEF SendReady, Offer
<1>2. /\ offered \in Nat /\ value \in [Senders -> Nat] /\ refused \in SUBSET Nat
      /\ chPc \in [Parties -> ChPlaces] /\ s \in Parties /\ Len(recvq) \in Nat /\ Len(buffer) \in Nat
      /\ capacity \in Nat /\ Len(buffer) <= capacity /\ recvq \in Seq(Receivers)
      /\ delivered \in Seq(Nat) /\ buffer \in Seq(Nat) /\ accepted \in Seq(Nat)
  BY DEF ChInv, ChTyped, Parties
<1>3. /\ offered' \in Nat /\ offered <= offered' /\ value' \in [Senders -> Nat] /\ value'[s] = offered + 1
      /\ \A z \in Senders : z # s => value'[z] = value[z]
      /\ offered + 1 \in Nat /\ offered + 1 \in offered + 1 .. offered'
  BY <1>1, <1>2
<1>4. ~IsPending(s)
  BY <1>1 DEF IsPending
<1>5. ASSUME closed, refused' = refused \cup {offered + 1},
             UNCHANGED <<buffer, recvq, result, chPc, accepted, delivered>>
      PROVE  ChInv'
  <2>1. Takes(<< >>)
    BY <1>5, TakeNothing
  <2>2. IsInjective(<< >>) /\ \A x : ~Contains(<< >>, x)
    BY EmptyQueue
  <2>3. Offers(<< >>, {offered + 1})
    BY <1>1, <1>3, <1>4, <1>5, <2>1, <2>2 DEF Offers
  <2> QED
    BY <1>1, <2>3, SendSide
<1>6. ASSUME CanAccept > 0, Accept(<<offered + 1>>), UNCHANGED refused
      PROVE  ChInv'
  <2> DEFINE vs == <<offered + 1>>
  <2>1. vs \in Seq(Nat) /\ Len(vs) = 1 /\ IsInjective(vs) /\ \A y : Contains(vs, y) <=> y = offered + 1
    BY <1>3, OneQueue
  <2>2. Accept(vs) /\ Len(vs) <= CanAccept
    <3>1. CanAccept \in Nat
      BY <1>2 DEF CanAccept
    <3> QED
      BY <1>6, <2>1, <3>1
  <2> HIDE DEF vs
  <2>3. Takes(vs)
    BY <2>1, <2>2, AcceptTakes
  <2>4. Offers(vs, {})
    BY <1>1, <1>3, <1>4, <1>6, <2>1, <2>3 DEF Offers
  <2> QED
    BY <1>1, <2>4, SendSide
<1>7. ASSUME CanAccept = 0, ChGoto(s, "suspending"),
             UNCHANGED <<buffer, recvq, result, accepted, delivered, refused>>
      PROVE  ChInv'
  <2>1. /\ chPc' = [chPc EXCEPT ![s] = "suspending"]
        /\ chPc' \in [Parties -> ChPlaces] /\ chPc'[s] = "suspending"
        /\ \A t \in Parties : t # s => chPc'[t] = chPc[t]
    BY <1>2, <1>7 DEF ChGoto, ChPlaces
  <2>2. recvq = << >> /\ Len(buffer) = capacity
    <3>1. Len(recvq) = 0 /\ Len(buffer) = capacity
      BY <1>2, <1>7 DEF CanAccept
    <3> QED
      BY <1>2, <3>1
  <2>3. ChTyped'
    BY <1>1, <1>3, <1>7, <2>1 DEF ChInv, ChTyped
  <2>4. ChQueues'
    BY <1>1, <1>7, <2>1 DEF ChInv, ChQueues, Parties
  <2>5. ChValues'
    <3> DEFINE vs == << >>
               rs == {}
    <3>1. /\ vs \in Seq(Nat) /\ IsInjective(vs) /\ (\A x : ~Contains(vs, x)) /\ accepted' = accepted \o vs
      BY <1>2, <1>7, EmptyQueue, ConcatEmptySeq
    <3>2. rs \in SUBSET Nat /\ refused' = refused \cup rs /\ \A x : x \notin rs
      BY <1>7
    <3>3. IsInjective(delivered \o buffer)
      BY DEF ChInv, ChValues
    <3>4. \A z \in Senders : chPc'[z] \in {"suspending", "waiting"} =>
             (IsPending(z) /\ value'[z] = value[z]) \/ (z = s /\ value'[z] = offered + 1)
      BY <1>3, <2>1 DEF IsPending, Parties
    <3> HIDE DEF vs, rs
    <3>5. Moves(vs, rs, s)
      BY <1>1, <1>3, <1>7, <3>1, <3>2, <3>3, <3>4 DEF Moves
    <3> QED
      BY <3>5, ValuesStep
  <2>6. ASSUME loops = 1 PROVE DocumentedInvariants' /\ accepted' = delivered' \o buffer' /\ ChAlone'
    <3>1. \A t \in Parties : chPc[t] # "suspending"
      BY <1>1, <2>6, NobodySuspends
    <3>2. \A t \in Parties : chPc'[t] = "suspending" => t = s
      BY <2>1, <3>1
    <3>3. s \notin Receivers
      BY ChannelAssumption
    <3>4. ChAlone'
      BY <1>7, <2>2, <3>2, <3>3 DEF ChAlone, Parties
    <3> QED
      BY <1>1, <1>7, <2>6, <3>4 DEF ChInv, ChFifo, DocumentedInvariants
  <2> QED
    BY <2>3, <2>4, <2>5, <2>6 DEF ChInv, ChFifo
<1> QED
  BY <1>5, <1>6, <1>7 DEF SendReady

(* try_send() and its kin.                                                  *)
LEMMA TrySendStep ==
    ASSUME ChInv, NEW n \in Nat, TrySend(n), UNCHANGED <<capacity, loops>>
    PROVE  ChInv'
<1> DEFINE batch == [i \in 1 .. n |-> offered + i]
           k == IF closed THEN 0 ELSE IF n <= CanAccept THEN n ELSE CanAccept
           vs == SubSeq(batch, 1, k)
           rs == (offered + k + 1) .. (offered + n)
<1>1. /\ MayRun /\ offered' = offered + n /\ Accept(vs) /\ refused' = refused \cup rs
      /\ UNCHANGED <<sendq, closed, value>>
  BY DEF TrySend
<1>2. /\ offered \in Nat /\ Len(recvq) \in Nat /\ Len(buffer) \in Nat /\ capacity \in Nat
      /\ value \in [Senders -> Nat]
  BY DEF ChInv, ChTyped
<1>3. CanAccept \in Nat
  BY <1>2 DEF CanAccept
<1>4. k \in 0 .. n /\ k <= CanAccept
  BY <1>3
<1>5. batch \in Seq(Nat) /\ Len(batch) = n /\ \A i \in 1 .. n : batch[i] = offered + i
  <2>1. batch \in [1 .. n -> Nat]
    BY <1>2
  <2> QED
    BY <2>1
<1> HIDE DEF batch, k
<1>6. vs \in Seq(Nat) /\ Len(vs) = k /\ \A i \in 1 .. k : vs[i] = batch[i]
  BY <1>4, <1>5, SplitQueue
<1> HIDE DEF vs
<1>7. \A i \in 1 .. k : vs[i] = offered + i
  BY <1>4, <1>5, <1>6
<1>8. IsInjective(vs)
  <2> SUFFICES ASSUME NEW a \in 1 .. k, NEW b \in 1 .. k, vs[a] = vs[b] PROVE a = b
    BY <1>6 DEF IsInjective
  <2>1. offered + a = offered + b
    BY <1>7
  <2> QED
    BY <1>2, <1>4, <2>1
<1>9. \A x : Contains(vs, x) => x \in offered + 1 .. offered' /\ x \notin rs
  <2> SUFFICES ASSUME NEW x, Contains(vs, x) PROVE x \in offered + 1 .. offered' /\ x \notin rs
    OBVIOUS
  <2>1. PICK i \in 1 .. k : x = offered + i
    BY <1>6, <1>7 DEF Contains
  <2> QED
    BY <1>1, <1>2, <1>4, <2>1
<1>10. rs \in SUBSET Nat /\ \A x \in rs : x \in offered + 1 .. offered'
  BY <1>1, <1>2, <1>4
<1> HIDE DEF rs
<1>11. Takes(vs)
  BY <1>1, <1>4, <1>6, AcceptTakes
<1>12. offered' \in Nat /\ offered <= offered'
  BY <1>1, <1>2
<1>13. Offers(vs, rs)
  BY <1>1, <1>2, <1>8, <1>9, <1>10, <1>11, <1>12 DEF Offers
<1> QED
  BY <1>1, <1>13, SendSide

(* send(): await_suspend().                                                 *)
LEMMA SendSuspendStep ==
    ASSUME ChInv, NEW s \in Senders, SendSuspend(s), UNCHANGED <<capacity, loops>>
    PROVE  ChInv'
<1>1. /\ chPc[s] = "suspending"
      /\ UNCHANGED <<buffer, recvq, closed, value, result, offered, accepted, delivered>>
  BY DEF SendSuspend
<1>2. /\ offered \in Nat /\ value \in [Senders -> Nat] /\ refused \in SUBSET Nat /\ sendq \in Seq(Senders)
      /\ chPc \in [Parties -> ChPlaces] /\ s \in Parties /\ accepted \in Seq(Nat)
  BY DEF ChInv, ChTyped, Parties
<1>3. IsPending(s) /\ ~Contains(sendq, s) /\ s \notin Receivers
  BY <1>1, ChannelAssumption DEF IsPending, ChInv, ChQueues
<1>4. /\ value[s] \in 1 .. offered /\ value[s] \notin refused /\ ~Contains(accepted, value[s])
      /\ \A z \in Senders : IsPending(z) /\ value[z] = value[s] => z = s
      /\ IsInjective(delivered \o buffer)
  BY <1>3 DEF ChInv, ChValues
<1>5. ASSUME closed, ChGoto(s, "idle"), refused' = refused \cup {value[s]}, UNCHANGED sendq
      PROVE  ChInv'
  <2>1. /\ chPc' = [chPc EXCEPT ![s] = "idle"]
        /\ chPc' \in [Parties -> ChPlaces] /\ chPc'[s] = "idle"
        /\ \A t \in Parties : t # s => chPc'[t] = chPc[t]
    BY <1>2, <1>5 DEF ChGoto, ChPlaces
  <2>2. ChTyped'
    BY <1>1, <1>2, <1>5, <2>1 DEF ChInv, ChTyped
  <2>3. ChQueues'
    BY <1>1, <1>3, <1>5, <2>1 DEF ChInv, ChQueues, Parties
  <2>4. ChValues'
    <3> DEFINE vs == << >>
               rs == {value[s]}
    <3>1. /\ vs \in Seq(Nat) /\ IsInjective(vs) /\ (\A x : ~Contains(vs, x)) /\ accepted' = accepted \o vs
      BY <1>1, <1>2, EmptyQueue, ConcatEmptySeq
    <3>2. /\ rs \in SUBSET Nat /\ refused' = refused \cup rs
          /\ \A x \in rs : x \in 1 .. offered' /\ ~Contains(accepted, x)
      BY <1>1, <1>2, <1>4, <1>5
    <3>3. \A z \in Senders : chPc'[z] \in {"suspending", "waiting"} =>
             IsPending(z) /\ value'[z] = value[z] /\ value[z] \notin rs
      BY <1>1, <1>4, <2>1 DEF IsPending, Parties
    <3>4. offered' \in Nat /\ offered <= offered'
      BY <1>1, <1>2
    <3> HIDE DEF vs, rs
    <3>5. Moves(vs, rs, s)
      BY <1>1, <1>4, <3>1, <3>2, <3>3, <3>4 DEF Moves
    <3> QED
      BY <3>5, ValuesStep
  <2>5. ChFifo'
    BY <1>1, <1>5, <2>1 DEF ChInv, ChFifo, DocumentedInvariants, ChAlone, Parties
  <2> QED
    BY <2>2, <2>3, <2>4, <2>5 DEF ChInv
<1>6. ASSUME ChGoto(s, "waiting"), sendq' = Append(sendq, s), UNCHANGED refused
      PROVE  ChInv'
  <2>1. /\ chPc' = [chPc EXCEPT ![s] = "waiting"]
        /\ chPc' \in [Parties -> ChPlaces] /\ chPc'[s] = "waiting"
        /\ \A t \in Parties : t # s => chPc'[t] = chPc[t]
    BY <1>2, <1>6 DEF ChGoto, ChPlaces
  <2>2. /\ sendq' \in Seq(Senders) /\ IsInjective(sendq')
        /\ \A x : Contains(sendq', x) <=> (x = s \/ Contains(sendq, x))
    BY <1>2, <1>3, <1>6, AppendQueue DEF ChInv, ChQueues
  <2>3. ChTyped'
    BY <1>1, <1>6, <2>1, <2>2 DEF ChInv, ChTyped
  <2>4. ChQueues'
    BY <1>1, <1>3, <2>1, <2>2 DEF ChInv, ChQueues, Parties
  <2>5. ChValues'
    <3>1. \A z \in Senders : chPc'[z] \in {"suspending", "waiting"} => IsPending(z)
      BY <1>3, <2>1 DEF IsPending, Parties
    <3> QED
      BY <1>1, <1>6, <3>1, ValuesStay
  <2>6. ASSUME loops = 1 PROVE DocumentedInvariants' /\ accepted' = delivered' \o buffer' /\ ChAlone'
    <3>1. ChAlone
      BY <2>6 DEF ChInv, ChFifo
    <3>2. /\ recvq = << >> /\ Len(buffer) = capacity
          /\ \A t \in Parties : chPc[t] = "suspending" => t = s
      BY <1>1, <1>2, <3>1 DEF ChAlone
    <3>3. \A t \in Parties : chPc'[t] # "suspending"
      BY <2>1, <3>2
    <3>4. ChAlone'
      BY <3>3 DEF ChAlone, Parties
    <3> QED
      BY <1>1, <2>6, <3>2, <3>4 DEF ChInv, ChFifo, DocumentedInvariants
  <2> QED
    BY <2>3, <2>4, <2>5, <2>6 DEF ChInv, ChFifo
<1> QED
  BY <1>5, <1>6 DEF SendSuspend

(* receive(): await_ready().                                                *)
LEMMA RecvReadyStep ==
    ASSUME ChInv, NEW r \in Receivers, RecvReady(r), UNCHANGED <<capacity, loops>>
    PROVE  ChInv'
<1>1. /\ chPc[r] = "idle" /\ MayRun /\ UNCHANGED <<recvq, closed, value, offered, refused>>
  BY DEF RecvReady
<1>2. /\ result = [x \in Receivers |-> result[x]] /\ chPc \in [Parties -> ChPlaces] /\ r \in Parties
      /\ r \notin Senders
  BY ChannelAssumption DEF ChInv, ChTyped, Parties
<1>3. ASSUME NEW v, result' = [result EXCEPT ![r] = v]
      PROVE  result' = [x \in Receivers |-> result'[x]]
  BY <1>2, <1>3
<1>4. ASSUME buffer # << >>, PopAndRefill, result' = [result EXCEPT ![r] = Head(buffer)]
      PROVE  ChInv'
  BY <1>1, <1>3, <1>4, PopStep
<1>5. ASSUME buffer = << >>, sendq # << >>, TakeFromSender,
             result' = [result EXCEPT ![r] = value[Head(sendq)]]
      PROVE  ChInv'
  BY <1>1, <1>3, <1>5, TakeStep
<1>6. ASSUME result' = [result EXCEPT ![r] = Nullopt], UNCHANGED <<buffer, sendq, chPc, accepted, delivered>>
      PROVE  ChInv'
  BY <1>1, <1>3, <1>6, NothingMoves
<1>7. ASSUME buffer = << >>, sendq = << >>, ChGoto(r, "suspending"),
             result' = [result EXCEPT ![r] = Pending], UNCHANGED <<buffer, sendq, accepted, delivered>>
      PROVE  ChInv'
  <2>1. /\ chPc' = [chPc EXCEPT ![r] = "suspending"]
        /\ chPc' \in [Parties -> ChPlaces] /\ chPc'[r] = "suspending"
        /\ \A t \in Parties : t # r => chPc'[t] = chPc[t]
    BY <1>2, <1>7 DEF ChGoto, ChPlaces
  <2>2. ChTyped'
    BY <1>1, <1>3, <1>7, <2>1 DEF ChInv, ChTyped
  <2>3. ChQueues'
    BY <1>1, <1>7, <2>1 DEF ChInv, ChQueues, Parties
  <2>4. ChValues'
    <3>1. \A z \in Senders : chPc'[z] \in {"suspending", "waiting"} => IsPending(z)
      BY <1>2, <2>1 DEF IsPending, Parties
    <3> QED
      BY <1>1, <1>7, <3>1, ValuesStay
  <2>5. ASSUME loops = 1 PROVE DocumentedInvariants' /\ accepted' = delivered' \o buffer' /\ ChAlone'
    <3>1. \A t \in Parties : chPc[t] # "suspending"
      BY <1>1, <2>5, NobodySuspends
    <3>2. \A t \in Parties : chPc'[t] = "suspending" => t = r
      BY <2>1, <3>1
    <3>3. result'[r] = Pending
      BY <1>2, <1>7
    <3>4. ChAlone'
      BY <1>2, <1>7, <3>2, <3>3 DEF ChAlone, Parties
    <3> QED
      BY <1>1, <1>7, <2>5, <3>4 DEF ChInv, ChFifo, DocumentedInvariants
  <2> QED
    BY <2>2, <2>3, <2>4, <2>5 DEF ChInv, ChFifo
<1> QED
  BY <1>4, <1>5, <1>6, <1>7 DEF RecvReady

(* receive(): await_suspend().                                              *)
LEMMA RecvSuspendStep ==
    ASSUME ChInv, NEW r \in Receivers, RecvSuspend(r), UNCHANGED <<capacity, loops>>
    PROVE  ChInv'
<1>1. /\ chPc[r] = "suspending"
      /\ UNCHANGED <<buffer, sendq, closed, value, offered, accepted, delivered, refused>>
  BY DEF RecvSuspend
<1>2. /\ result = [x \in Receivers |-> result[x]] /\ chPc \in [Parties -> ChPlaces] /\ r \in Parties
      /\ r \notin Senders /\ recvq \in Seq(Receivers) /\ IsInjective(recvq) /\ ~Contains(recvq, r)
  BY <1>1, ChannelAssumption DEF ChInv, ChTyped, ChQueues, Parties
<1>3. ASSUME ChGoto(r, "idle"), result' = [result EXCEPT ![r] = Nullopt], UNCHANGED recvq
      PROVE  ChInv'
  <2>1. /\ chPc' = [chPc EXCEPT ![r] = "idle"]
        /\ chPc' \in [Parties -> ChPlaces] /\ chPc'[r] = "idle"
        /\ \A t \in Parties : t # r => chPc'[t] = chPc[t]
    BY <1>2, <1>3 DEF ChGoto, ChPlaces
  <2>2. /\ result' = [x \in Receivers |-> result'[x]]
        /\ \A x \in Receivers : x # r => result'[x] = result[x]
    BY <1>2, <1>3
  <2>3. ChTyped'
    BY <1>1, <1>3, <2>1, <2>2 DEF ChInv, ChTyped
  <2>4. ChQueues'
    BY <1>1, <1>2, <1>3, <2>1 DEF ChInv, ChQueues, Parties
  <2>5. ChValues'
    <3>1. \A z \in Senders : chPc'[z] \in {"suspending", "waiting"} => IsPending(z)
      BY <1>2, <2>1 DEF IsPending, Parties
    <3> QED
      BY <1>1, <3>1, ValuesStay
  <2>6. ChFifo'
    BY <1>1, <1>3, <2>1, <2>2 DEF ChInv, ChFifo, DocumentedInvariants, ChAlone, Parties
  <2> QED
    BY <2>3, <2>4, <2>5, <2>6 DEF ChInv
<1>4. ASSUME ChGoto(r, "waiting"), recvq' = Append(recvq, r), UNCHANGED result
      PROVE  ChInv'
  <2>1. /\ chPc' = [chPc EXCEPT ![r] = "waiting"]
        /\ chPc' \in [Parties -> ChPlaces] /\ chPc'[r] = "waiting"
        /\ \A t \in Parties : t # r => chPc'[t] = chPc[t]
    BY <1>2, <1>4 DEF ChGoto, ChPlaces
  <2>2. /\ recvq' \in Seq(Receivers) /\ IsInjective(recvq')
        /\ \A x : Contains(recvq', x) <=> (x = r \/ Contains(recvq, x))
    BY <1>2, <1>4, AppendQueue
  <2>3. ChTyped'
    BY <1>1, <1>4, <2>1, <2>2 DEF ChInv, ChTyped
  <2>4. ChQueues'
    BY <1>1, <1>2, <2>1, <2>2 DEF ChInv, ChQueues, Parties
  <2>5. ChValues'
    <3>1. \A z \in Senders : chPc'[z] \in {"suspending", "waiting"} => IsPending(z)
      BY <1>2, <2>1 DEF IsPending, Parties
    <3> QED
      BY <1>1, <3>1, ValuesStay
  <2>6. ASSUME loops = 1 PROVE DocumentedInvariants' /\ accepted' = delivered' \o buffer' /\ ChAlone'
    <3>1. ChAlone
      BY <2>6 DEF ChInv, ChFifo
    <3>2. /\ buffer = << >> /\ sendq = << >>
          /\ \A t \in Parties : chPc[t] = "suspending" => t = r
      BY <1>1, <1>2, <3>1 DEF ChAlone
    <3>3. \A t \in Parties : chPc'[t] # "suspending"
      BY <2>1, <3>2
    <3>4. ChAlone'
      BY <3>3 DEF ChAlone, Parties
    <3> QED
      BY <1>1, <2>6, <3>2, <3>4 DEF ChInv, ChFifo, DocumentedInvariants
  <2> QED
    BY <2>3, <2>4, <2>5, <2>6 DEF ChInv, ChFifo
<1> QED
  BY <1>3, <1>4 DEF RecvSuspend

(* try_receive() and its kin.                                               *)
LEMMA TryReceiveStep ==
    ASSUME ChInv, UNCHANGED <<capacity, loops>>,
           \/ \E direct \in BOOLEAN : TryReceive(direct)
           \/ \E n \in 1 .. capacity : TryReceiveMany(n)
    PROVE  ChInv'
<1>1. result = [x \in Receivers |-> result[x]] /\ Len(buffer) \in Nat /\ capacity \in Nat
  BY DEF ChInv, ChTyped
<1>2. ASSUME NEW direct, TryReceive(direct) PROVE ChInv'
  <2>1. MayRun /\ UNCHANGED <<recvq, closed, value, result, offered, refused>>
    BY <1>2 DEF TryReceive
  <2>2. CASE buffer # << >> /\ PopAndRefill
    BY <1>1, <2>1, <2>2, PopStep
  <2>3. CASE buffer = << >> /\ sendq # << >> /\ TakeFromSender
    BY <1>1, <2>1, <2>3, TakeStep
  <2> QED
    BY <1>2, <2>2, <2>3 DEF TryReceive
<1>3. ASSUME NEW n \in 1 .. capacity, TryReceiveMany(n) PROVE ChInv'
  <2> DEFINE m == IF n <= Len(buffer) THEN n ELSE Len(buffer)
  <2>1. MayRun /\ UNCHANGED <<recvq, closed, value, result, offered, refused>> /\ ChDrain(m)
    BY <1>3 DEF TryReceiveMany
  <2>2. m \in 0 .. Len(buffer)
    BY <1>1
  <2> HIDE DEF m
  <2> QED
    BY <1>1, <2>1, <2>2, DrainStep
<1> QED
  BY <1>2, <1>3

(* close().                                                                 *)
LEMMA CloseStep ==
    ASSUME ChInv, Close, UNCHANGED <<capacity, loops>>
    PROVE  ChInv'
<1> DEFINE rs == {value[s] : s \in {t \in Senders : Contains(sendq, t)}}
<1>1. /\ MayRun /\ sendq' = << >> /\ recvq' = << >> /\ refused' = refused \cup rs
      /\ result' = [r \in Receivers |-> IF Contains(recvq, r) THEN Nullopt ELSE result[r]]
      /\ chPc' = [t \in Parties |-> IF Contains(sendq, t) \/ Contains(recvq, t)
                              THEN "granted" ELSE chPc[t]]
      /\ UNCHANGED <<buffer, value, offered, accepted, delivered>>
  BY DEF Close, DismissWaiters
<1>2. /\ offered \in Nat /\ value \in [Senders -> Nat] /\ refused \in SUBSET Nat
      /\ chPc \in [Parties -> ChPlaces] /\ accepted \in Seq(Nat)
      /\ \A s : Contains(sendq, s) => s \in Senders /\ chPc[s] = "waiting"
      /\ IsInjective(delivered \o buffer)
      /\ \A s \in Senders : IsPending(s) =>
            value[s] \in 1 .. offered /\ value[s] \notin refused /\ ~Contains(accepted, value[s])
      /\ \A s, z \in Senders : IsPending(s) /\ IsPending(z) /\ value[s] = value[z] => s = z
  BY DEF ChInv, ChTyped, ChQueues, ChValues
<1>3. /\ chPc' \in [Parties -> ChPlaces]
      /\ \A t \in Parties : Contains(sendq, t) => chPc'[t] = "granted"
      /\ \A t \in Parties : chPc'[t] = chPc[t] \/ chPc'[t] = "granted"
  BY <1>1, <1>2 DEF ChPlaces
<1>4. result' = [r \in Receivers |-> result'[r]]
  BY <1>1
<1>5. \A x : x \in rs <=> \E s \in Senders : Contains(sendq, s) /\ value[s] = x
  OBVIOUS
<1> HIDE DEF rs
<1>6. \A x \in rs : x \in Nat /\ x \in 1 .. offered /\ ~Contains(accepted, x)
  <2> SUFFICES ASSUME NEW x \in rs PROVE x \in 1 .. offered /\ ~Contains(accepted, x)
    BY <1>2
  <2>1. PICK s \in Senders : Contains(sendq, s) /\ value[s] = x
    BY <1>5
  <2>2. IsPending(s)
    BY <1>2, <2>1 DEF IsPending
  <2> QED
    BY <1>2, <2>1, <2>2
<1>7. ChTyped'
  BY <1>1, <1>3, <1>4, <1>6 DEF ChInv, ChTyped
<1>8. ChQueues'
  BY <1>1, EmptyQueue DEF ChQueues
<1>9. ChValues'
  <2> DEFINE vs == << >>
  <2>1. /\ vs \in Seq(Nat) /\ IsInjective(vs) /\ (\A x : ~Contains(vs, x)) /\ accepted' = accepted \o vs
    BY <1>1, <1>2, EmptyQueue, ConcatEmptySeq
  <2>2. \A z \in Senders : chPc'[z] \in {"suspending", "waiting"} =>
           IsPending(z) /\ value'[z] = value[z] /\ value[z] \notin rs
    <3> SUFFICES ASSUME NEW z \in Senders, chPc'[z] \in {"suspending", "waiting"}
                 PROVE  IsPending(z) /\ value[z] \notin rs
      BY <1>1
    <3>1. IsPending(z) /\ ~Contains(sendq, z)
      BY <1>3 DEF IsPending, Parties
    <3>2. ASSUME value[z] \in rs PROVE FALSE
      <4>1. PICK s \in Senders : Contains(sendq, s) /\ value[s] = value[z]
        BY <1>5, <3>2
      <4>2. IsPending(s)
        BY <1>2, <4>1 DEF IsPending
      <4> QED
        BY <1>2, <3>1, <4>1, <4>2
    <3> QED
      BY <3>1, <3>2
  <2>3. offered' \in Nat /\ offered <= offered'
    BY <1>1, <1>2
  <2> HIDE DEF vs
  <2>4. Moves(vs, rs, 0)
    BY <1>1, <1>2, <1>6, <2>1, <2>2, <2>3 DEF Moves
  <2> QED
    BY <2>4, ValuesStep
<1>10. ASSUME loops = 1 PROVE DocumentedInvariants' /\ accepted' = delivered' \o buffer' /\ ChAlone'
  <2>1. \A t \in Parties : chPc'[t] # "suspending"
    BY <1>1, <1>3, <1>10, NobodySuspends
  <2>2. ChAlone'
    BY <2>1 DEF ChAlone, Parties
  <2> QED
    BY <1>1, <1>10, <2>2 DEF ChInv, ChFifo, DocumentedInvariants
<1> QED
  BY <1>7, <1>8, <1>9, <1>10 DEF ChInv, ChFifo

(* reopen(): what is left in the buffer is thrown away.                     *)
LEMMA ReopenStep ==
    ASSUME ChInv, Reopen, UNCHANGED <<capacity, loops>>
    PROVE  ChInv'
<1>1. /\ \A t \in Parties : chPc[t] = "idle"
      /\ buffer' = << >> /\ accepted' = delivered
      /\ UNCHANGED <<sendq, recvq, value, result, chPc, offered, delivered, refused>>
      /\ sendq = << >> /\ recvq = << >>
  BY DEF Reopen
<1>2. delivered \in Seq(Nat) /\ buffer \in Seq(Nat) /\ capacity \in Nat
  BY DEF ChInv, ChTyped
<1>3. delivered' \o buffer' = delivered
  BY <1>1, <1>2, ConcatEmptySeq
<1>4. ChTyped'
  BY <1>1, <1>2 DEF ChInv, ChTyped
<1>5. ChQueues'
  BY <1>1 DEF ChInv, ChQueues
<1>6. ChValues'
  <2>1. /\ IsInjective(delivered)
        /\ \A x : Contains(delivered, x) => Contains(delivered \o buffer, x)
    BY <1>2, ConcatQueue DEF ChInv, ChValues
  <2>2. \A s \in Senders : chPc'[s] \notin {"suspending", "waiting"}
    BY <1>1 DEF Parties
  <2>3. \A x : Contains(delivered, x) => x \in 1 .. offered /\ x \notin refused
    BY <2>1 DEF ChInv, ChValues
  <2> QED
    BY <1>1, <1>3, <2>1, <2>2, <2>3 DEF ChInv, ChValues, IsPending
<1>7. ChFifo'
  <2>1. Len(<< >>) = 0
    OBVIOUS
  <2> QED
    BY <1>1, <1>2, <1>3, <2>1 DEF ChFifo, DocumentedInvariants, ChAlone, Parties
<1> QED
  BY <1>4, <1>5, <1>6, <1>7 DEF ChInv

(* A resumed waiter goes on.                                                *)
LEMMA ResumeStep ==
    ASSUME ChInv, NEW t \in Parties, Resume(t), UNCHANGED <<capacity, loops>>
    PROVE  ChInv'
<1>1. /\ chPc[t] = "granted" /\ chPc' = [chPc EXCEPT ![t] = "idle"]
      /\ UNCHANGED <<buffer, sendq, recvq, closed, value, result, offered, accepted, delivered, refused>>
  BY DEF Resume, ChGoto
<1>2. /\ chPc' \in [Parties -> ChPlaces] /\ chPc'[t] = "idle"
      /\ \A u \in Parties : u # t => chPc'[u] = chPc[u]
  BY <1>1 DEF ChInv, ChTyped, ChPlaces
<1>3. ChTyped'
  BY <1>1, <1>2 DEF ChInv, ChTyped
<1>4. ChQueues'
  BY <1>1, <1>2 DEF ChInv, ChQueues, Parties
<1>5. ChValues'
  <2>1. \A z \in Senders : chPc'[z] \in {"suspending", "waiting"} => IsPending(z)
    BY <1>2 DEF IsPending, Parties
  <2> QED
    BY <1>1, <2>1, ValuesStay
<1>6. ChFifo'
  BY <1>1, <1>2 DEF ChInv, ChFifo, DocumentedInvariants, ChAlone, Parties
<1> QED
  BY <1>3, <1>4, <1>5, <1>6 DEF ChInv

-----------------------------------------------------------------------------
(* The invariant holds at the start and every step keeps it.                *)
LEMMA ChStart == ChInit => ChInv
<1> SUFFICES ASSUME ChInit PROVE ChInv
  OBVIOUS
<1>1. /\ capacity \in Nat /\ loops \in Nat \ {0} /\ Len(<< >>) = 0
      /\ value = [s \in Senders |-> 0] /\ result = [r \in Receivers |-> Pending]
      /\ chPc = [t \in Parties |-> "idle"]
      /\ buffer = << >> /\ sendq = << >> /\ recvq = << >>
      /\ offered = 0 /\ accepted = << >> /\ delivered = << >> /\ refused = {}
  BY ChannelAssumption DEF ChInit
<1>2. delivered \o buffer = << >>
  BY <1>1, ConcatEmptySeq
<1>3. ChTyped
  BY <1>1 DEF ChTyped, ChPlaces
<1>4. \A t \in Parties : chPc[t] = "idle"
  BY <1>1
<1>5. ChQueues
  BY <1>1, EmptyQueue DEF ChQueues
<1>6. ChValues
  BY <1>1, <1>2, <1>4, EmptyQueue DEF ChValues, IsPending, Parties
<1>7. ChFifo
  BY <1>1, <1>2, <1>4 DEF ChFifo, DocumentedInvariants, ChAlone, Parties
<1> QED
  BY <1>3, <1>5, <1>6, <1>7 DEF ChInv

LEMMA ChPreserved == ChInv /\ [ChNext]_chVars => ChInv'
<1> SUFFICES ASSUME ChInv, [ChNext]_chVars PROVE ChInv'
  OBVIOUS
<1>1. CASE UNCHANGED chVars
  BY <1>1 DEF ChInv, ChTyped, ChQueues, ChValues, ChFifo, ChAlone, DocumentedInvariants, IsPending, chVars
<1>2. CASE ChNext
  <2>1. UNCHANGED <<capacity, loops>> /\ ChStep
    BY <1>2 DEF ChNext
  <2>2. ASSUME NEW s \in Senders, SendReady(s) PROVE ChInv'
    BY <2>1, <2>2, SendReadyStep
  <2>3. ASSUME NEW s \in Senders, SendSuspend(s) PROVE ChInv'
    BY <2>1, <2>3, SendSuspendStep
  <2>4. ASSUME NEW r \in Receivers, RecvReady(r) PROVE ChInv'
    BY <2>1, <2>4, RecvReadyStep
  <2>5. ASSUME NEW r \in Receivers, RecvSuspend(r) PROVE ChInv'
    BY <2>1, <2>5, RecvSuspendStep
  <2>6. ASSUME NEW n \in 1 .. MaxSends, TrySend(n) PROVE ChInv'
    <3>1. n \in Nat
      BY ChannelAssumption
    <3> QED
      BY <2>1, <2>6, <3>1, TrySendStep
  <2>7. CASE \/ \E direct \in BOOLEAN : TryReceive(direct)
             \/ \E n \in 1 .. capacity : TryReceiveMany(n)
    BY <2>1, <2>7, TryReceiveStep
  <2>8. CASE Close
    BY <2>1, <2>8, CloseStep
  <2>9. CASE Reopen
    BY <2>1, <2>9, ReopenStep
  <2>10. ASSUME NEW t \in Parties, Resume(t) PROVE ChInv'
    BY <2>1, <2>10, ResumeStep
  <2> QED
    BY <2>1, <2>2, <2>3, <2>4, <2>5, <2>6, <2>7, <2>8, <2>9, <2>10 DEF ChStep
<1> QED
  BY <1>1, <1>2

(* The invariant holds throughout, whatever the number of loops.            *)
THEOREM ChannelInvariant == ChSpec => []ChInv
BY ChStart, ChPreserved, PTL DEF ChSpec

(* When the coroutines share one event loop, the channel is the bounded     *)
(* FIFO queue of channel.cppm: its documented invariants hold and values    *)
(* come out in the order they were accepted in.                             *)
THEOREM ChannelFifo == ChSpec => []FifoDelivery
<1>1. ChInv => FifoDelivery
  BY DEF ChInv, ChFifo, FifoDelivery
<1> QED
  BY <1>1, ChannelInvariant, PTL

(* On any number of loops, lost wake-ups or not, a value whose send         *)
(* succeeded is delivered or buffered exactly once and one whose send       *)
(* failed never is.                                                         *)
THEOREM ChannelExactlyOnce == ChSpec => []ExactlyOnce
<1>1. ASSUME ChInv PROVE ExactlyOnce
  <2>1. accepted \in Seq(Nat) /\ delivered \o buffer \in Seq(Nat)
    BY <1>1, ConcatQueue DEF ChInv, ChTyped
  <2>2. \A q \in Seq(Nat) : \A x : x \in ToSet(q) <=> Contains(q, x)
    BY DEF ToSet, Contains
  <2>3. /\ IsInjective(delivered \o buffer)
        /\ \A x : Contains(accepted, x) <=> Contains(delivered \o buffer, x)
        /\ \A x : Contains(accepted, x) => x \notin refused
    BY <1>1 DEF ChInv, ChValues
  <2>4. \A x : x \in ToSet(accepted) <=> Contains(accepted, x)
    BY <2>1, <2>2
  <2>5. \A x : x \in ToSet(delivered \o buffer) <=> Contains(delivered \o buffer, x)
    BY <2>1, <2>2
  <2> QED
    BY <2>3, <2>4, <2>5 DEF ExactlyOnce
<1> QED
  BY <1>1, ChannelInvariant, PTL

-----------------------------------------------------------------------------
(* A receive() comes back empty only from a closed and drained channel.     *)
Emptied(r) == loops = 1 /\ result'[r] = Nullopt /\ (result[r] # Nullopt \/ chPc[r] = "suspending")

LEMMA EmptiedWhenDrained ==
    ASSUME ChInv, ChNext, NEW r \in Receivers, Emptied(r)
    PROVE  closed' /\ buffer = << >>
<1>1. /\ loops = 1 /\ result'[r] = Nullopt /\ (result[r] # Nullopt \/ chPc[r] = "suspending")
      /\ r \in Parties /\ ChStep
  BY DEF Emptied, Parties, ChNext
<1>2. /\ \A t, u \in Parties : chPc[t] = "suspending" /\ chPc[u] = "suspending" => t = u
      /\ chPc[r] = "suspending" => buffer = << >> /\ sendq = << >> /\ result[r] = Pending
      /\ recvq # << >> => buffer = << >>
  BY <1>1 DEF ChInv, ChFifo, ChAlone, DocumentedInvariants
<1>3. /\ result = [x \in Receivers |-> result[x]] /\ buffer \in Seq(Nat) /\ sendq \in Seq(Senders)
      /\ value \in [Senders -> Nat] /\ offered \in Nat /\ recvq \in Seq(Receivers)
      /\ Nullopt \notin Nat /\ Nullopt # Pending
  BY ChannelAssumption DEF ChInv, ChTyped
<1>4. result[r] # Nullopt
  BY <1>1, <1>2, <1>3
<1>5. result'[r] # result[r] /\ result'[r] \notin Nat /\ result'[r] # Pending
  BY <1>1, <1>3, <1>4
<1>6. ASSUME NEW s \in Senders, SendReady(s) PROVE FALSE
  <2>1. CASE UNCHANGED result
    BY <1>5, <2>1
  <2>2. CASE CanAccept > 0 /\ Accept(<<offered + 1>>)
    <3> DEFINE vs == <<offered + 1>>
    <3>1. vs \in Seq(Nat) /\ Len(vs) = 1
      BY <1>3, OneQueue
    <3>2. CanAccept \in Nat
      BY DEF ChInv, ChTyped, CanAccept
    <3>3. Accept(vs) /\ Len(vs) <= CanAccept
      BY <2>2, <3>1, <3>2
    <3> HIDE DEF vs
    <3>4. Takes(vs)
      BY <3>1, <3>3, AcceptTakes
    <3> QED
      BY <1>5, <3>4 DEF Takes
  <2> QED
    BY <1>6, <2>1, <2>2 DEF SendReady
<1>7. ASSUME NEW n \in 1 .. MaxSends, TrySend(n) PROVE FALSE
  <2> DEFINE batch == [i \in 1 .. n |-> offered + i]
             k == IF closed THEN 0 ELSE IF n <= CanAccept THEN n ELSE CanAccept
             vs == SubSeq(batch, 1, k)
  <2>1. Accept(vs)
    BY <1>7 DEF TrySend
  <2>2. CanAccept \in Nat /\ n \in Nat
    BY ChannelAssumption DEF ChInv, ChTyped, CanAccept
  <2>3. k \in 0 .. n /\ k <= CanAccept
    BY <2>2
  <2>4. batch \in Seq(Nat) /\ Len(batch) = n
    <3>1. batch \in [1 .. n -> Nat]
      BY <1>3, <2>2
    <3> QED
      BY <2>2, <3>1
  <2> HIDE DEF batch, k
  <2>5. vs \in Seq(Nat) /\ Len(vs) = k
    BY <2>3, <2>4, SplitQueue
  <2> HIDE DEF vs
  <2>6. Takes(vs)
    BY <2>1, <2>3, <2>5, AcceptTakes
  <2> QED
    BY <1>5, <2>6 DEF Takes
<1>8. ASSUME NEW x \in Receivers, RecvReady(x) PROVE closed' /\ buffer = << >>
  <2>1. ASSUME NEW v, result' = [result EXCEPT ![x] = v], v \in Nat \/ v = Pending PROVE FALSE
    BY <1>3, <1>5, <2>1
  <2>2. CASE buffer # << >> /\ result' = [result EXCEPT ![x] = Head(buffer)]
    <3>1. Head(buffer) \in Nat
      BY <1>3, <2>2, HeadQueue
    <3> QED
      BY <2>1, <2>2, <3>1
  <2>3. CASE sendq # << >> /\ result' = [result EXCEPT ![x] = value[Head(sendq)]]
    <3>1. value[Head(sendq)] \in Nat
      BY <1>3, <2>3, HeadQueue
    <3> QED
      BY <2>1, <2>3, <3>1
  <2>4. CASE result' = [result EXCEPT ![x] = Pending]
    BY <2>1, <2>4
  <2>5. CASE buffer = << >> /\ closed
    BY <1>8, <2>5 DEF RecvReady
  <2> QED
    BY <1>8, <2>2, <2>3, <2>4, <2>5 DEF RecvReady
<1>9. ASSUME NEW x \in Receivers, RecvSuspend(x) PROVE closed' /\ buffer = << >>
  <2>1. chPc[x] = "suspending" /\ x \in Parties
    BY <1>9 DEF RecvSuspend, Parties
  <2>2. CASE closed /\ result' = [result EXCEPT ![x] = Nullopt]
    <3>1. x = r
      BY <1>3, <1>5, <2>2
    <3> QED
      BY <1>2, <1>9, <2>1, <2>2, <3>1 DEF RecvSuspend
  <2>3. CASE UNCHANGED result
    BY <1>5, <2>3
  <2> QED
    BY <1>9, <2>2, <2>3 DEF RecvSuspend
<1>10. CASE Close
  <2>1. result' = [x \in Receivers |-> IF Contains(recvq, x) THEN Nullopt ELSE result[x]] /\ closed'
    BY <1>10 DEF Close, DismissWaiters
  <2>2. Contains(recvq, r)
    BY <1>5, <2>1
  <2> QED
    BY <1>2, <1>3, <2>1, <2>2, NonEmptyQueue
<1>11. CASE UNCHANGED result
  BY <1>5, <1>11
<1> QED
  BY <1>1, <1>6, <1>7, <1>8, <1>9, <1>10, <1>11
     DEF ChStep, SendSuspend, TryReceive, TryReceiveMany, Reopen, Resume

(* "returns nullopt if closed and drained" (channel.cppm:530) holds when    *)
(* the coroutines share one loop: no value is left behind.                  *)
THEOREM ChannelNullopt == ChSpec => NulloptOnlyWhenDrained
<1> DEFINE Drained == \A r \in Receivers :
              loops = 1 /\ result'[r] = Nullopt /\ (result[r] # Nullopt \/ chPc[r] = "suspending")
                  => closed' /\ buffer = << >>
<1>1. ChInv /\ [ChNext]_chVars => [Drained]_chVars
  <2> SUFFICES ASSUME ChInv, ChNext PROVE Drained
    OBVIOUS
  <2> QED
    BY EmptiedWhenDrained DEF Emptied
<1> QED
  BY <1>1, ChannelInvariant, PTL DEF ChSpec, NulloptOnlyWhenDrained
=============================================================================
