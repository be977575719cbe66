--------------------------- MODULE EventLoopProofs ---------------------------
(***************************************************************************)
(* The epoll loop, for every number of coroutines and descriptors, however  *)
(* readiness, cancellation, posting and stopping interleave: a suspended    *)
(* operation is resumed by exactly one of them, and one that is resumed for *)
(* readiness finds its descriptor ready.                                    *)
(***************************************************************************)
EXTENDS EventLoop, WaiterQueueProofs, FiniteSetTheorems, SequenceTheorems

PostNodes == [kind : {"coroutine", "cancelled"}, job : Jobs]
LoopEvents == [reg : Addresses \cup {Null}, signals : SUBSET (Directions \cup {"hup"})]
LoopPlaces == {"test", "wait", "batch", "exchange", "drain", "ended"}
LoopStates == [at : LoopPlaces, events : Seq(LoopEvents), chain : Seq(PostNodes), due : Seq(Jobs)]
JobPlaces == {"away", "posted", "running", "adding", "suspended", "resumed", "done"}
JobStates == [at : JobPlaces, op : ElOperations, left : Int]
JobTokens == [reason : {"none", "caller"}, cancelled : BOOLEAN, dispatched : BOOLEAN,
              op : Jobs \cup {Nobody}, notify : BOOLEAN]
EpSlots == [fd : Fds, waiter : [Directions -> Jobs \cup {Nobody}]]
EpInterests == [reg : Addresses \cup {Null}, dirs : SUBSET Directions]
EpStates ==
    [at : [Fds -> Addresses \cup {Null}], mem : [Addresses -> EpSlots],
     retired : SUBSET Addresses, interest : [Fds -> EpInterests]]

ElTyped ==
    /\ use \in LoopSetups
    /\ posts \in Seq(PostNodes)
    /\ loop \in LoopStates
    /\ readyFor \in [Fds -> SUBSET (Directions \cup {"hup"})]
    /\ onLoop \in Jobs \cup {Nobody}
    /\ job \in [Jobs -> JobStates]
    /\ jobTok \in [Jobs -> JobTokens]
    /\ canceller \in [Jobs -> {"idle", "publishing", "dispatching", "waking", "end"}]

-----------------------------------------------------------------------------
(* Registrations: the kernel has an interest only in what is registered, an *)
(* address that is retired is registered nowhere.                           *)
Holder(e, f, d) == IF e.at[f] = Null THEN Nobody ELSE e.mem[e.at[f]].waiter[d]

EpOK(e) ==
    /\ e \in EpStates
    /\ \A f \in Fds : e.at[f] # Null => e.at[f] \notin e.retired /\ e.mem[e.at[f]].fd = f
    /\ \A f \in Fds : e.interest[f].dirs # {} => e.at[f] # Null /\ e.interest[f].reg = e.at[f]

(* The batch: an event is for a registration that is there or retired, each *)
(* has one event, what is disabled has its event to come, and a pending     *)
(* event of a live registration tells the truth.                            *)
Fetched(e, ev) ==
    \A i \in DOMAIN ev :
        ev[i].reg # Null => ev[i].reg \in e.retired \/ \E f \in Fds : e.at[f] = ev[i].reg
EventsOnce(ev) == \A i, k \in DOMAIN ev : ev[i].reg = ev[k].reg => i = k
Covered(e, ev) ==
    \A f \in Fds :
        e.at[f] # Null =>
            \/ e.interest[f] = [reg |-> e.at[f], dirs |-> Waited(e, e.at[f])]
            \/ \E i \in DOMAIN ev : ev[i].reg = e.at[f]
Truthful(e, ev, rd) ==
    \A i \in DOMAIN ev, f \in Fds :
        e.at[f] # Null /\ ev[i].reg = e.at[f] => ev[i].signals \subseteq rd[f]
Quiet(e, ev, f) == e.at[f] # Null => \A i \in DOMAIN ev : ev[i].reg # e.at[f]

BatchOK(e, ev, rd) == Fetched(e, ev) /\ EventsOnce(ev) /\ Covered(e, ev) /\ Truthful(e, ev, rd)

-----------------------------------------------------------------------------
(* Where the loop thread is, and who runs on it.                            *)
ElControl ==
    /\ loop.due # << >> => loop.at = "batch"
    /\ loop.at \in {"exchange", "drain"} => loop.events # << >> /\ Head(loop.events).reg = Null
    /\ loop.at # "drain" => loop.chain = << >>
    /\ loop.at \notin {"batch", "exchange", "drain"} => loop.events = << >>
    /\ onLoop # Nobody => loop.at \in {"batch", "drain"}
    /\ \A j \in Jobs : job[j].at \in {"running", "adding", "resumed"} <=> onLoop = j

Waits(j) == job[j].at \in {"adding", "suspended"}
Ready(j) == readyFor[job[j].op.fd] \cap {job[j].op.dir, "hup"} # {}

HoldersFit ==
    \A f \in Fds, d \in Directions :
        LET k == Holder(ep, f, d)
        IN k # Nobody => k \in Jobs /\ Waits(k) /\ job[k].op.fd = f /\ job[k].op.dir = d

OpsApart ==
    \A j, k \in Jobs :
        /\ job[j].at \in {"adding", "suspended", "resumed"}
        /\ job[k].at \in {"adding", "suspended", "resumed"}
        /\ job[j].op.fd = job[k].op.fd /\ job[j].op.dir = job[k].op.dir
        => j = k

(* A waiter whose event is at hand is nobody's waiter any more, and its     *)
(* descriptor is ready.                                                     *)
DueFit ==
    /\ IsInjective(loop.due)
    /\ \A j \in Jobs :
         Contains(loop.due, j) =>
            /\ job[j].at = "suspended" /\ Ready(j)
            /\ Holder(ep, job[j].op.fd, job[j].op.dir) # j
            /\ Quiet(ep, loop.events, job[j].op.fd)

TokenTold(j) == job[j].op.cancellable /\ ~jobTok[j].notify

Called ==
    \A j \in Jobs :
        /\ job[j].at = "adding" => Holder(ep, job[j].op.fd, job[j].op.dir) = j
        /\ job[j].at = "suspended" /\ ~TokenTold(j) =>
              Holder(ep, job[j].op.fd, job[j].op.dir) = j \/ Contains(loop.due, j)

(* The post queue: a coroutine's own node while it is posted, the node of   *)
(* its operation from when the token told it until it is resumed.           *)
Node(kind, j) == [kind |-> kind, job |-> j]
Queued(n) == Contains(posts, n) \/ Contains(loop.chain, n)

NodesOnce ==
    /\ IsInjective(posts) /\ IsInjective(loop.chain)
    /\ \A n \in PostNodes : ~(Contains(posts, n) /\ Contains(loop.chain, n))

NodesFit ==
    \A j \in Jobs :
        /\ Queued(Node("coroutine", j)) => job[j].at = "posted"
        /\ Queued(Node("cancelled", j)) <=> job[j].at = "suspended" /\ TokenTold(j)

(* The token refers to the operation from its registration until it is      *)
(* finished, and is told once.                                              *)
TokFit ==
    \A j \in Jobs :
        LET t == jobTok[j]
        IN /\ t.op # Nobody \/ t.notify => t.op = j /\ job[j].op.cancellable
           /\ t.op = j => job[j].at \in {"suspended", "resumed"}
           /\ t.notify => job[j].at = "suspended"
           /\ t.op = j /\ ~t.notify => t.cancelled
           /\ job[j].at = "suspended" /\ job[j].op.cancellable => t.op = j
           /\ job[j].at = "adding" => job[j].op.cancellable

ResumedReady ==
    \A j \in Jobs :
        job[j].at = "resumed" /\ ~(job[j].op.cancellable /\ jobTok[j].cancelled) =>
            Ready(j) /\ Quiet(ep, loop.events, job[j].op.fd)

ElIInv ==
    /\ ElTyped /\ EpOK(ep) /\ BatchOK(ep, loop.events, readyFor) /\ ElControl
    /\ HoldersFit /\ OpsApart /\ DueFit /\ Called /\ NodesOnce /\ NodesFit /\ TokFit
    /\ ResumedReady

-----------------------------------------------------------------------------
LEMMA AddressFacts == Null \notin Addresses /\ Addresses \subseteq Nat
<1>1. Cardinality(Fds) + MaxOps * Cardinality(Jobs) \in Nat
  <2>1. Cardinality(Fds) \in Nat /\ Cardinality(Jobs) \in Nat /\ MaxOps \in Nat
    BY ElAssumption, FS_CardinalityType
  <2>2. MaxOps * Cardinality(Jobs) \in Nat
    BY <2>1
  <2>3. QED BY <2>1, <2>2
<1>2. QED BY <1>1 DEF Addresses, Null

(* What add(), remove() and the handling of an event do to registrations:   *)
(* only those of one descriptor change, what they leave there is armed, an  *)
(* address that goes is retired, and one that comes was free.               *)
RegStep(e, e2, f) ==
    /\ EpOK(e2)
    /\ e.retired \subseteq e2.retired
    /\ \A g \in Fds \ {f} :
         /\ e2.at[g] = e.at[g] /\ e2.interest[g] = e.interest[g]
         /\ e.at[g] # Null => e2.mem[e.at[g]] = e.mem[e.at[g]]
    /\ e2.at[f] # Null => e2.interest[f] = [reg |-> e2.at[f], dirs |-> Waited(e2, e2.at[f])]
    /\ e.at[f] # Null => e2.at[f] = e.at[f] \/ (e2.at[f] = Null /\ e.at[f] \in e2.retired)
    /\ e.at[f] = Null /\ e2.at[f] # Null =>
         e2.at[f] \notin e.retired /\ \A g \in Fds : e.at[g] # e2.at[f]

LEMMA InterestSet ==
    ASSUME NEW e \in EpStates, NEW f \in Fds, NEW x \in EpInterests
    PROVE  LET e2 == [e EXCEPT !.interest[f] = x]
           IN /\ e2 \in EpStates /\ e2.at = e.at /\ e2.mem = e.mem /\ e2.retired = e.retired
              /\ e2.interest = [e.interest EXCEPT ![f] = x]
  BY DEF EpStates

LEMMA AddedStep ==
    ASSUME NEW e, EpOK(e), NEW f \in Fds, NEW d \in Directions, NEW j \in Jobs,
           e.at[f] # Null \/ Unused(e) # {}
    PROVE  /\ RegStep(e, Added(e, f, d, j), f)
           /\ \A g \in Fds, c \in Directions :
                Holder(Added(e, f, d, j), g, c) =
                    IF g = f /\ c = d THEN j ELSE Holder(e, g, c)
<1> DEFINE new == e.at[f] = Null
           r == IF new THEN Min(Unused(e)) ELSE e.at[f]
           kept == IF new THEN NoRegistration.waiter ELSE e.mem[r].waiter
           w == [kept EXCEPT ![d] = j]
           e1 == [e EXCEPT !.at[f] = r, !.mem[r] = [fd |-> f, waiter |-> w]]
           e2 == Added(e, f, d, j)
<1>1. /\ e.at \in [Fds -> Addresses \cup {Null}]
      /\ e.mem \in [Addresses -> EpSlots] /\ e.retired \in SUBSET Addresses
      /\ e.interest \in [Fds -> EpInterests]
  BY DEF EpOK, EpStates
<1>2. /\ r \in Addresses /\ r \notin e.retired /\ \A g \in Fds \ {f} : e.at[g] # r
      /\ new => \A g \in Fds : e.at[g] # r
  <2>1. CASE new
    <3>1. Unused(e) \in SUBSET Nat /\ Unused(e) # {}
      BY <2>1, AddressFacts DEF Unused
    <3>2. Min(Unused(e)) \in Unused(e)
      BY <3>1, LeastNat
    <3>3. QED BY <2>1, <3>2 DEF Unused
  <2>2. CASE ~new
    BY <2>2, <1>1, AddressFacts DEF EpOK
  <2>3. QED BY <2>1, <2>2
<1>3. kept \in [Directions -> Jobs \cup {Nobody}] /\ (new => \A c \in Directions : kept[c] = Nobody)
  <2>1. CASE new
    BY <2>1 DEF NoRegistration
  <2>2. CASE ~new
    BY <2>2, <1>1, <1>2 DEF EpSlots
  <2>3. QED BY <2>1, <2>2
<1>4. w \in [Directions -> Jobs \cup {Nobody}] /\ w[d] = j /\ \A c \in Directions : c # d => w[c] = kept[c]
  BY <1>3
<1> DEFINE x == [fd |-> f, waiter |-> w]
<1>5. x \in EpSlots /\ x.fd = f /\ x.waiter = w
  BY <1>4 DEF EpSlots
<1> HIDE DEF w, x
<1>6. /\ e1 \in EpStates
      /\ e1.at = [e.at EXCEPT ![f] = r] /\ e1.mem = [e.mem EXCEPT ![r] = x]
      /\ e1.retired = e.retired /\ e1.interest = e.interest
  BY <1>1, <1>2, <1>5 DEF EpOK, EpStates, x
<1>7. /\ e2 = [e1 EXCEPT !.interest[f] = [reg |-> r, dirs |-> Waited(e1, r)]]
  <2>1. e1.mem[r].fd = f
    BY <1>1, <1>2, <1>5, <1>6
  <2>2. QED BY <2>1 DEF Added, Armed, w
<1>8. [reg |-> r, dirs |-> Waited(e1, r)] \in EpInterests
  BY <1>2 DEF Waited, EpInterests
<1> HIDE DEF r, kept, e1, e2
<1>9. /\ e2 \in EpStates
      /\ e2.at = [e.at EXCEPT ![f] = r] /\ e2.mem = [e.mem EXCEPT ![r] = x]
      /\ e2.retired = e.retired
      /\ e2.interest = [e.interest EXCEPT ![f] = [reg |-> r, dirs |-> Waited(e1, r)]]
  BY <1>1, <1>6, <1>7, <1>8, InterestSet
<1>10. Waited(e2, r) = Waited(e1, r)
  BY <1>6, <1>9 DEF Waited
<1>11. r # Null
  BY <1>2, AddressFacts
<1>12. EpOK(e2)
  <2>1. \A g \in Fds : e2.at[g] # Null => e2.at[g] \notin e2.retired /\ e2.mem[e2.at[g]].fd = g
    <3>1. \A g \in Fds \ {f} : e2.at[g] = e.at[g] /\ (e.at[g] # Null => e2.mem[e.at[g]] = e.mem[e.at[g]])
      BY <1>1, <1>2, <1>9
    <3>2. e2.at[f] = r /\ e2.mem[r].fd = f
      BY <1>1, <1>2, <1>5, <1>9
    <3>3. QED BY <1>2, <1>9, <3>1, <3>2 DEF EpOK
  <2>2. \A g \in Fds : e2.interest[g].dirs # {} => e2.at[g] # Null /\ e2.interest[g].reg = e2.at[g]
    BY <1>1, <1>9, <1>11 DEF EpOK
  <2>3. QED BY <1>9, <2>1, <2>2 DEF EpOK
<1>13. \A g \in Fds, c \in Directions :
          Holder(e2, g, c) = IF g = f /\ c = d THEN j ELSE Holder(e, g, c)
  BY <1>1, <1>2, <1>3, <1>4, <1>5, <1>9, <1>11 DEF Holder, kept, r
<1>14. RegStep(e, e2, f)
  <2>1. /\ e2.at[f] = r /\ \A g \in Fds \ {f} : e2.at[g] = e.at[g] /\ e2.interest[g] = e.interest[g]
        /\ e2.interest[f] = [reg |-> r, dirs |-> Waited(e2, r)]
    BY <1>1, <1>9, <1>10
  <2>2. \A g \in Fds \ {f} : e.at[g] # Null => e2.mem[e.at[g]] = e.mem[e.at[g]]
    BY <1>1, <1>2, <1>9
  <2>3. e.at[f] # Null => e2.at[f] = e.at[f]
    BY <2>1 DEF r
  <2>4. QED BY <1>2, <1>9, <1>12, <2>1, <2>2, <2>3 DEF RegStep
<1>15. QED BY <1>13, <1>14 DEF e2

(* What is left of a registration once some of its waiters are taken out.   *)
LEMMA RearmedStep ==
    ASSUME NEW e, EpOK(e), NEW f \in Fds, e.at[f] # Null, NEW ds,
           NEW e1, e1 = WithoutWaiters(e, e.at[f], ds) \/ (ds = {} /\ e1 = e)
    PROVE  /\ RegStep(e, Rearmed(e1, e.at[f]), f)
           /\ \A g \in Fds, c \in Directions :
                Holder(Rearmed(e1, e.at[f]), g, c) =
                    IF g = f /\ c \in ds THEN Nobody ELSE Holder(e, g, c)
<1> DEFINE r == e.at[f]
           w == [c \in Directions |-> IF c \in ds THEN Nobody ELSE e.mem[r].waiter[c]]
           e2 == Rearmed(e1, r)
<1>1. /\ e.at \in [Fds -> Addresses \cup {Null}]
      /\ e.mem \in [Addresses -> EpSlots] /\ e.retired \in SUBSET Addresses
      /\ e.interest \in [Fds -> EpInterests]
  BY DEF EpOK, EpStates
<1>2. r \in Addresses /\ r \notin e.retired /\ e.mem[r].fd = f /\ \A g \in Fds \ {f} : e.at[g] # r
  BY <1>1, AddressFacts DEF EpOK
<1>3. w \in [Directions -> Jobs \cup {Nobody}] /\ [e.mem[r] EXCEPT !.waiter = w] \in EpSlots
  BY <1>1, <1>2 DEF EpSlots
<1>4. /\ e1 \in EpStates /\ e1.at = e.at /\ e1.retired = e.retired /\ e1.interest = e.interest
      /\ e1.mem \in [Addresses -> EpSlots]
      /\ e1.mem[r].fd = f /\ \A c \in Directions : e1.mem[r].waiter[c] = w[c]
      /\ \A a \in Addresses \ {r} : e1.mem[a] = e.mem[a]
  <2>1. CASE e1 = WithoutWaiters(e, r, ds)
    <3>1. e1 = [e EXCEPT !.mem[r].waiter = w]
      BY <2>1 DEF WithoutWaiters
    <3>2. /\ e1 \in EpStates /\ e1.at = e.at /\ e1.retired = e.retired /\ e1.interest = e.interest
          /\ e1.mem = [e.mem EXCEPT ![r] = [e.mem[r] EXCEPT !.waiter = w]]
      BY <1>1, <1>2, <1>3, <3>1 DEF EpOK, EpStates
    <3>3. [e.mem[r] EXCEPT !.waiter = w].fd = f /\ [e.mem[r] EXCEPT !.waiter = w].waiter = w
      BY <1>1, <1>2 DEF EpSlots
    <3>4. QED BY <1>1, <1>2, <1>3, <3>2, <3>3 DEF EpStates
  <2>2. CASE ds = {} /\ e1 = e
    BY <1>1, <1>2, <2>2 DEF EpOK
  <2>3. QED BY <2>1, <2>2
<1> HIDE DEF w
<1>5. [reg |-> r, dirs |-> Waited(e1, r)] \in EpInterests
  BY <1>2 DEF Waited, EpInterests
<1>6. CASE Waited(e1, r) # {}
  <2>1. e2 = [e1 EXCEPT !.interest[f] = [reg |-> r, dirs |-> Waited(e1, r)]]
    BY <1>4, <1>6 DEF Rearmed, Armed
  <2>2. /\ e2 \in EpStates /\ e2.at = e.at /\ e2.mem = e1.mem /\ e2.retired = e.retired
        /\ e2.interest = [e.interest EXCEPT ![f] = [reg |-> r, dirs |-> Waited(e1, r)]]
    BY <1>1, <1>4, <1>5, <2>1, InterestSet
  <2> HIDE DEF e2
  <2>3. Waited(e2, r) = Waited(e1, r)
    BY <2>2 DEF Waited
  <2>4. EpOK(e2)
    <3>1. \A g \in Fds : e2.at[g] # Null => e2.at[g] \notin e2.retired /\ e2.mem[e2.at[g]].fd = g
      BY <1>1, <1>2, <1>4, <2>2 DEF EpOK
    <3>2. \A g \in Fds : e2.interest[g].dirs # {} => e2.at[g] # Null /\ e2.interest[g].reg = e2.at[g]
      BY <1>1, <1>2, <2>2 DEF EpOK
    <3>3. QED BY <2>2, <3>1, <3>2 DEF EpOK
  <2>5. RegStep(e, e2, f)
    BY <1>1, <1>2, <1>4, <2>2, <2>3, <2>4 DEF RegStep
  <2>6. \A g \in Fds, c \in Directions :
           Holder(e2, g, c) = IF g = f /\ c \in ds THEN Nobody ELSE Holder(e, g, c)
    BY <1>1, <1>2, <1>4, <2>2 DEF Holder, w
  <2>7. QED BY <2>5, <2>6 DEF e2
<1>7. CASE Waited(e1, r) = {}
  <2>1. e2 = RetiredReg([e1 EXCEPT !.interest[f] = NoInterest], r)
    BY <1>4, <1>7 DEF Rearmed
  <2>2. NoInterest \in EpInterests /\ NoInterest.dirs = {}
    BY DEF NoInterest, EpInterests
  <2> DEFINE e3 == [e1 EXCEPT !.interest[f] = NoInterest]
  <2>3. /\ e3 \in EpStates /\ e3.at = e.at /\ e3.mem = e1.mem /\ e3.retired = e.retired
        /\ e3.interest = [e.interest EXCEPT ![f] = NoInterest]
    BY <1>1, <1>4, <2>2, InterestSet
  <2> HIDE DEF e3
  <2>4. e2 = [e3 EXCEPT !.at[f] = Null, !.retired = @ \cup {r}]
    BY <1>4, <2>1, <2>3 DEF RetiredReg, e3
  <2>5. /\ e2 \in EpStates /\ e2.at = [e.at EXCEPT ![f] = Null] /\ e2.mem = e1.mem
        /\ e2.retired = e.retired \cup {r} /\ e2.interest = [e.interest EXCEPT ![f] = NoInterest]
    <3> HIDE DEF r, e2
    <3>1. LET e4 == [e3 EXCEPT !.at[f] = Null, !.retired = @ \cup {r}]
          IN /\ e4 \in EpStates /\ e4.mem = e3.mem /\ e4.interest = e3.interest
             /\ e4.at = [e3.at EXCEPT ![f] = Null] /\ e4.retired = e3.retired \cup {r}
      <4>1. e3 \in EpStates /\ r \in Addresses
        BY <1>2, <2>3
      <4>2. QED BY <4>1 DEF EpStates
    <3>2. QED BY <2>3, <2>4, <3>1
  <2> HIDE DEF e2
  <2>6. EpOK(e2)
    <3>1. \A g \in Fds : e2.at[g] # Null => e2.at[g] \notin e2.retired /\ e2.mem[e2.at[g]].fd = g
      BY <1>1, <1>2, <1>4, <2>5 DEF EpOK
    <3>2. \A g \in Fds : e2.interest[g].dirs # {} => e2.at[g] # Null /\ e2.interest[g].reg = e2.at[g]
      BY <1>1, <1>2, <2>2, <2>5 DEF EpOK
    <3>3. QED BY <2>5, <3>1, <3>2 DEF EpOK
  <2>7. RegStep(e, e2, f)
    BY <1>1, <1>2, <1>4, <2>5, <2>6 DEF RegStep
  <2>8. \A c \in Directions : w[c] = Nobody
    BY <1>4, <1>7 DEF Waited
  <2>9. \A g \in Fds, c \in Directions :
           Holder(e2, g, c) = IF g = f /\ c \in ds THEN Nobody ELSE Holder(e, g, c)
    BY <1>1, <1>2, <1>4, <2>5, <2>8 DEF Holder, w
  <2>10. QED BY <2>7, <2>9 DEF e2
<1>8. QED BY <1>6, <1>7

(* remove() takes out one waiter, if it is there.                           *)
LEMMA RemovedStep ==
    ASSUME NEW e, EpOK(e),
           NEW f \in Fds, NEW d \in Directions, NEW j \in Jobs
    PROVE  /\ e.at[f] = Null => Removed(e, f, d, j) = e
           /\ e.at[f] # Null => RegStep(e, Removed(e, f, d, j), f)
           /\ \A g \in Fds, c \in Directions :
                Holder(Removed(e, f, d, j), g, c) =
                    IF g = f /\ c = d /\ Holder(e, f, d) = j THEN Nobody ELSE Holder(e, g, c)
<1>1. CASE e.at[f] = Null
  BY <1>1, ElAssumption DEF Removed, Holder
<1>2. CASE e.at[f] # Null
  <2> DEFINE r == e.at[f]
  <2>1. CASE e.mem[r].waiter[d] = j
    <3>1. Removed(e, f, d, j) = Rearmed(WithoutWaiters(e, r, {d}), r)
      BY <1>2, <2>1 DEF Removed
    <3>2. /\ RegStep(e, Rearmed(WithoutWaiters(e, r, {d}), r), f)
          /\ \A g \in Fds, c \in Directions :
               Holder(Rearmed(WithoutWaiters(e, r, {d}), r), g, c) =
                   IF g = f /\ c \in {d} THEN Nobody ELSE Holder(e, g, c)
      BY <1>2, RearmedStep
    <3>3. QED BY <1>2, <2>1, <3>1, <3>2 DEF Holder
  <2>2. CASE e.mem[r].waiter[d] # j
    <3>1. Removed(e, f, d, j) = Rearmed(e, r)
      BY <1>2, <2>2 DEF Removed
    <3> PICK none : none = {}
      OBVIOUS
    <3>2. /\ RegStep(e, Rearmed(e, r), f)
          /\ \A g \in Fds, c \in Directions :
               Holder(Rearmed(e, r), g, c) = IF g = f /\ c \in none THEN Nobody ELSE Holder(e, g, c)
      BY <1>2, RearmedStep
    <3>3. QED BY <1>2, <2>2, <3>1, <3>2 DEF Holder
  <2>3. QED BY <2>1, <2>2
<1>3. QED BY <1>1, <1>2

-----------------------------------------------------------------------------
(* The batch survives what happens to registrations while it is run, since  *)
(* no address that an event refers to is used again.                        *)
LEMMA BatchRegStep ==
    ASSUME NEW e, EpOK(e), NEW e2, NEW f \in Fds, RegStep(e, e2, f),
           NEW ev \in Seq(LoopEvents), NEW rd, BatchOK(e, ev, rd)
    PROVE  /\ BatchOK(e2, ev, rd)
           /\ \A g \in Fds : Quiet(e, ev, g) => Quiet(e2, ev, g)
<1>0. /\ e.at \in [Fds -> Addresses \cup {Null}] /\ e2.at \in [Fds -> Addresses \cup {Null}]
      /\ EpOK(e2)
  BY DEF EpOK, EpStates, RegStep
<1>1. \A i \in DOMAIN ev, g \in Fds :
         e2.at[g] # Null /\ ev[i].reg = e2.at[g] => e.at[g] = e2.at[g]
  BY <1>0 DEF BatchOK, Fetched, RegStep, EpOK
<1>2. Fetched(e2, ev)
  BY <1>0 DEF BatchOK, Fetched, RegStep
<1>3. Covered(e2, ev)
  <2> SUFFICES ASSUME NEW g \in Fds, e2.at[g] # Null
               PROVE  \/ e2.interest[g] = [reg |-> e2.at[g], dirs |-> Waited(e2, e2.at[g])]
                      \/ \E i \in DOMAIN ev : ev[i].reg = e2.at[g]
    BY DEF Covered
  <2>1. CASE g = f
    BY <2>1 DEF RegStep
  <2>2. CASE g # f
    <3>1. e2.at[g] = e.at[g] /\ e2.interest[g] = e.interest[g] /\ e2.mem[e.at[g]] = e.mem[e.at[g]]
      BY <2>2 DEF RegStep
    <3>2. Waited(e2, e.at[g]) = Waited(e, e.at[g])
      BY <3>1 DEF Waited
    <3>3. QED BY <3>1, <3>2 DEF BatchOK, Covered
  <2>3. QED BY <2>1, <2>2
<1>4. Truthful(e2, ev, rd)
  BY <1>1 DEF BatchOK, Truthful
<1>5. \A g \in Fds : Quiet(e, ev, g) => Quiet(e2, ev, g)
  BY <1>1 DEF Quiet
<1>6. QED BY <1>2, <1>3, <1>4, <1>5 DEF BatchOK

LEMMA NoEvents == DOMAIN << >> = {}
  OBVIOUS

LEMMA TailFacts ==
    ASSUME NEW S, NEW s \in Seq(S), s # << >>
    PROVE  /\ Head(s) = s[1] /\ Head(s) \in S /\ Tail(s) \in Seq(S)
           /\ Len(s) \in Nat \ {0} /\ Len(Tail(s)) = Len(s) - 1
           /\ DOMAIN s = 1 .. Len(s) /\ DOMAIN Tail(s) = 1 .. Len(s) - 1
           /\ \A i \in DOMAIN Tail(s) : i + 1 \in DOMAIN s /\ i + 1 # 1 /\ Tail(s)[i] = s[i + 1]
           /\ \A i \in DOMAIN s : i # 1 => i - 1 \in DOMAIN Tail(s) /\ Tail(s)[i - 1] = s[i]
<1>1. /\ Head(s) = s[1] /\ Head(s) \in S /\ Tail(s) \in Seq(S)
      /\ Len(s) \in Nat \ {0} /\ Len(Tail(s)) = Len(s) - 1
      /\ DOMAIN s = 1 .. Len(s) /\ DOMAIN Tail(s) = 1 .. Len(s) - 1
      /\ \A i \in 1 .. Len(s) - 1 : Tail(s)[i] = s[i + 1]
  OBVIOUS
<1>2. \A i \in DOMAIN Tail(s) : i + 1 \in DOMAIN s /\ i + 1 # 1 /\ Tail(s)[i] = s[i + 1]
  BY <1>1
<1>3. \A i \in DOMAIN s : i # 1 => i - 1 \in DOMAIN Tail(s) /\ Tail(s)[i - 1] = s[i]
  BY <1>1
<1>4. QED BY <1>1, <1>2, <1>3

(* An event is done with when its descriptor is armed again.                *)
LEMMA BatchTail ==
    ASSUME NEW e, EpOK(e), NEW ev \in Seq(LoopEvents), ev # << >>, NEW rd, BatchOK(e, ev, rd),
           \A f \in Fds : e.at[f] # Null /\ Head(ev).reg = e.at[f] =>
                e.interest[f] = [reg |-> e.at[f], dirs |-> Waited(e, e.at[f])]
    PROVE  /\ BatchOK(e, Tail(ev), rd)
           /\ \A g \in Fds : Quiet(e, ev, g) => Quiet(e, Tail(ev), g)
           /\ \A g \in Fds : Head(ev).reg = e.at[g] => Quiet(e, Tail(ev), g)
<1>1. /\ Head(ev) = ev[1] /\ 1 \in DOMAIN ev
      /\ \A i \in DOMAIN Tail(ev) : i + 1 \in DOMAIN ev /\ i + 1 # 1 /\ Tail(ev)[i] = ev[i + 1]
      /\ \A i \in DOMAIN ev : i # 1 => i - 1 \in DOMAIN Tail(ev) /\ Tail(ev)[i - 1] = ev[i]
      /\ DOMAIN Tail(ev) \subseteq Int
  BY TailFacts
<1>2. Fetched(e, Tail(ev))
  BY <1>1 DEF BatchOK, Fetched
<1>3. EventsOnce(Tail(ev))
  <2> SUFFICES ASSUME NEW i \in DOMAIN Tail(ev), NEW k \in DOMAIN Tail(ev),
                      Tail(ev)[i].reg = Tail(ev)[k].reg
               PROVE  i = k
    BY DEF EventsOnce
  <2>1. i + 1 = k + 1
    BY <1>1 DEF BatchOK, EventsOnce
  <2>2. QED BY <1>1, <2>1
<1>4. Covered(e, Tail(ev))
  <2> SUFFICES ASSUME NEW f \in Fds, e.at[f] # Null,
                      e.interest[f] # [reg |-> e.at[f], dirs |-> Waited(e, e.at[f])]
               PROVE  \E i \in DOMAIN Tail(ev) : Tail(ev)[i].reg = e.at[f]
    BY DEF Covered
  <2>1. PICK i \in DOMAIN ev : ev[i].reg = e.at[f]
    BY DEF BatchOK, Covered
  <2>2. i # 1
    BY <1>1, <2>1
  <2>3. QED BY <1>1, <2>1, <2>2
<1>5. Truthful(e, Tail(ev), rd)
  BY <1>1 DEF BatchOK, Truthful
<1>6. \A g \in Fds : Quiet(e, ev, g) => Quiet(e, Tail(ev), g)
  BY <1>1 DEF Quiet
<1>7. \A g \in Fds : Head(ev).reg = e.at[g] => Quiet(e, Tail(ev), g)
  BY <1>1 DEF Quiet, BatchOK, EventsOnce
<1>8. QED BY <1>2, <1>3, <1>4, <1>5, <1>6, <1>7 DEF BatchOK

(* epoll_wait() reports what it disables, once, and as it is.               *)
LEMMA BatchFetched ==
    ASSUME EpOK(ep), BatchOK(ep, << >>, readyFor), EpollWait,
           readyFor \in [Fds -> SUBSET (Directions \cup {"hup"})],
           NEW e2, e2 = ep'
    PROVE  \E batch \in Seq(LoopEvents) :
             /\ loop' = [loop EXCEPT !.at = "batch", !.events = batch]
             /\ EpOK(e2) /\ BatchOK(e2, batch, readyFor)
             /\ \A f \in Fds, d \in Directions : Holder(e2, f, d) = Holder(ep, f, d)
<1> DEFINE fs == {f \in Fds : Signals(f) # {}}
           null == IF eventfd THEN {[reg |-> Null, signals |-> {}]} ELSE {}
           items == {[reg |-> ep.interest[f].reg, signals |-> Signals(f)] : f \in fs} \cup null
           ins == [f \in Fds |-> [ep.interest[f] EXCEPT !.dirs = IF f \in fs THEN {} ELSE @]]
<1>1. /\ ep.at \in [Fds -> Addresses \cup {Null}] /\ ep.interest \in [Fds -> EpInterests]
      /\ ep.mem \in [Addresses -> EpSlots] /\ ep.retired \in SUBSET Addresses
  BY DEF EpOK, EpStates
<1>2. /\ ins \in [Fds -> EpInterests]
      /\ \A f \in Fds : /\ ins[f].reg = ep.interest[f].reg
                        /\ ins[f].dirs = IF f \in fs THEN {} ELSE ep.interest[f].dirs
                        /\ f \notin fs => ins[f] = ep.interest[f]
  <2> HIDE DEF fs
  <2>1. QED BY <1>1 DEF EpInterests
<1>a. e2 = [ep EXCEPT !.interest = ins]
  BY DEF EpollWait
<1> HIDE DEF ins
<1>3. /\ e2 \in EpStates /\ e2.at = ep.at /\ e2.mem = ep.mem /\ e2.retired = ep.retired
      /\ e2.interest = ins
  BY <1>2, <1>a DEF EpOK, EpStates
<1>b. PICK batch \in SetToSeqs(items) : loop' = [loop EXCEPT !.at = "batch", !.events = batch]
  BY DEF EpollWait
<1>c. /\ fs = {f \in Fds : Signals(f) # {}} /\ null \in SUBSET {[reg |-> Null, signals |-> {}]}
      /\ items = {[reg |-> ep.interest[f].reg, signals |-> Signals(f)] : f \in fs} \cup null
  OBVIOUS
<1> HIDE DEF fs, null, items
<1> USE <1>c
<1>4. EpOK(e2)
  BY <1>2, <1>3 DEF EpOK
<1>5. \A f \in fs : f \in Fds /\ ep.at[f] # Null /\ ep.interest[f].reg = ep.at[f]
  BY DEF Signals, EpOK
<1>6. \A f \in Fds : Signals(f) \subseteq readyFor[f] /\ Signals(f) \subseteq Directions \cup {"hup"}
  BY DEF Signals
<1>7. items \subseteq LoopEvents
  <2>1. \A f \in fs : [reg |-> ep.interest[f].reg, signals |-> Signals(f)] \in LoopEvents
    BY <1>1, <1>5, <1>6 DEF LoopEvents
  <2>2. [reg |-> Null, signals |-> {}] \in LoopEvents
    BY DEF LoopEvents
  <2>3. QED BY <2>1, <2>2
<1>8. IsFiniteSet(items)
  <2> DEFINE item == [f \in fs |-> [reg |-> ep.interest[f].reg, signals |-> Signals(f)]]
             T == {[reg |-> ep.interest[f].reg, signals |-> Signals(f)] : f \in fs}
  <2>1. IsFiniteSet(fs)
    BY ElAssumption, FS_Subset
  <2>2. item \in Surjection(fs, T)
    BY DEF Surjection
  <2>3. IsFiniteSet(T)
    BY <2>1, <2>2, FS_Surjection
  <2>4. IsFiniteSet(null)
    <3>1. PICK z : z = [reg |-> Null, signals |-> {}]
      OBVIOUS
    <3>2. IsFiniteSet({z})
      BY FS_Singleton
    <3>3. QED BY <3>1, <3>2, FS_Subset
  <2> HIDE DEF T
  <2>5. IsFiniteSet(T \cup null)
    BY <2>3, <2>4, FS_Union
  <2>6. QED BY <2>5 DEF T
<1> DEFINE n == Cardinality(items)
<1>9. n \in Nat
  BY <1>8, FS_CardinalityType
<1>10. batch \in [1 .. n -> items] /\ \A i, k \in 1 .. n : i # k => batch[i] # batch[k]
  BY DEF SetToSeqs
<1>11. \A x \in items : \E i \in 1 .. n : batch[i] = x
  <2>1. batch \in Injection(1 .. n, items)
    BY <1>10 DEF Injection, IsInjective
  <2>2. IsFiniteSet(1 .. n) /\ Cardinality(1 .. n) = n
    BY <1>9, FS_Interval
  <2>3. batch \in Surjection(1 .. n, items)
    BY <1>8, <2>1, <2>2, FS_Injection
  <2>4. QED BY <2>3 DEF Surjection
<1> HIDE DEF n
<1>12. batch \in Seq(LoopEvents) /\ DOMAIN batch = 1 .. n
  <2>1. batch \in [1 .. n -> LoopEvents]
    BY <1>7, <1>10
  <2>2. QED BY <1>9, <2>1
<1>13. \A i \in DOMAIN batch :
          \/ batch[i].reg = Null /\ batch[i] = [reg |-> Null, signals |-> {}]
          \/ \E f \in fs : batch[i].reg = ep.at[f] /\ batch[i].signals = Signals(f)
                           /\ batch[i] = [reg |-> ep.at[f], signals |-> Signals(f)]
  BY <1>5, <1>10, <1>12
<1>14. \A f, g \in Fds : ep.at[f] # Null /\ ep.at[f] = ep.at[g] => f = g
  BY DEF EpOK
<1>15. Fetched(e2, batch)
  BY <1>3, <1>5, <1>13 DEF Fetched
<1>16. EventsOnce(batch)
  <2> SUFFICES ASSUME NEW i \in DOMAIN batch, NEW k \in DOMAIN batch, batch[i].reg = batch[k].reg
               PROVE  i = k
    BY DEF EventsOnce
  <2>1. batch[i] = batch[k]
    <3>1. CASE batch[i].reg = Null
      BY <1>5, <1>13, <3>1
    <3>2. CASE batch[i].reg # Null
      <4>1. PICK f \in fs : batch[i].reg = ep.at[f] /\ batch[i] = [reg |-> ep.at[f], signals |-> Signals(f)]
        BY <1>13, <3>2
      <4>2. PICK g \in fs : batch[k].reg = ep.at[g] /\ batch[k] = [reg |-> ep.at[g], signals |-> Signals(g)]
        BY <1>13, <3>2
      <4>3. f = g
        BY <1>5, <1>14, <4>1, <4>2
      <4>4. QED BY <4>1, <4>2, <4>3
    <3>3. QED BY <3>1, <3>2
  <2>2. QED BY <1>10, <1>12, <2>1
<1>17. Truthful(e2, batch, readyFor)
  BY <1>3, <1>5, <1>6, <1>13, <1>14 DEF Truthful
<1>18. Covered(e2, batch)
  <2> SUFFICES ASSUME NEW f \in Fds, ep.at[f] # Null
               PROVE  \/ ins[f] = [reg |-> ep.at[f], dirs |-> Waited(ep, ep.at[f])]
                      \/ \E i \in DOMAIN batch : batch[i].reg = ep.at[f]
    <3>1. \A g \in Fds : Waited(e2, ep.at[g]) = Waited(ep, ep.at[g])
      BY <1>3 DEF Waited
    <3>2. QED BY <1>3, <3>1 DEF Covered
  <2>1. CASE f \in fs
    <3>1. [reg |-> ep.interest[f].reg, signals |-> Signals(f)] \in items
      BY <2>1
    <3>2. PICK i \in 1 .. n : batch[i] = [reg |-> ep.interest[f].reg, signals |-> Signals(f)]
      BY <1>11, <3>1
    <3>3. QED BY <1>5, <1>12, <2>1, <3>2
  <2>2. CASE f \notin fs
    <3>1. ep.interest[f] = [reg |-> ep.at[f], dirs |-> Waited(ep, ep.at[f])]
      BY NoEvents DEF BatchOK, Covered
    <3>2. QED BY <1>2, <2>2, <3>1
  <2>3. QED BY <2>1, <2>2
<1>19. \A f \in Fds, d \in Directions : Holder(e2, f, d) = Holder(ep, f, d)
  BY <1>3 DEF Holder
<1>20. QED BY <1>b, <1>4, <1>12, <1>15, <1>16, <1>17, <1>18, <1>19 DEF BatchOK

(* release_retired(): nothing refers to what goes.                          *)
LEMMA BatchReleased ==
    ASSUME NEW e, e = ep, EpOK(e), NEW rd, BatchOK(e, << >>, rd), EndBatch, NEW e2, e2 = ep'
    PROVE  /\ EpOK(e2) /\ BatchOK(e2, << >>, rd)
           /\ \A f \in Fds, d \in Directions : Holder(e2, f, d) = Holder(e, f, d)
<1> DEFINE m == [a \in Addresses |-> IF a \in ep.retired THEN NoRegistration ELSE ep.mem[a]]
<1>1. /\ e.at \in [Fds -> Addresses \cup {Null}] /\ e.interest \in [Fds -> EpInterests]
      /\ e.mem \in [Addresses -> EpSlots] /\ e.retired \in SUBSET Addresses
  BY DEF EpOK, EpStates
<1>2. NoRegistration \in EpSlots
  BY ElAssumption DEF NoRegistration, EpSlots
<1>3. m \in [Addresses -> EpSlots]
  BY <1>1, <1>2
<1>4. \A f \in Fds : e.at[f] # Null => e.at[f] \in Addresses /\ m[e.at[f]] = e.mem[e.at[f]]
  BY <1>1 DEF EpOK
<1>5. e2 = [ep EXCEPT !.retired = {}, !.mem = m]
  BY DEF EndBatch
<1> HIDE DEF m
<1>6. /\ e2 \in EpStates /\ e2.at = e.at /\ e2.mem = m /\ e2.retired = {} /\ e2.interest = e.interest
  BY <1>3, <1>5 DEF EpOK, EpStates
<1>7. EpOK(e2)
  BY <1>4, <1>6 DEF EpOK
<1>8. \A f \in Fds : e.at[f] # Null => Waited(e2, e.at[f]) = Waited(e, e.at[f])
  BY <1>4, <1>6 DEF Waited
<1>9. BatchOK(e2, << >>, rd)
  <2>1. Covered(e2, << >>)
    BY <1>6, <1>8, NoEvents DEF BatchOK, Covered
  <2>2. QED BY <2>1, NoEvents DEF BatchOK, Fetched, EventsOnce, Truthful
<1>10. \A f \in Fds, d \in Directions : Holder(e2, f, d) = Holder(e, f, d)
  BY <1>4, <1>6 DEF Holder
<1>11. QED BY <1>7, <1>9, <1>10

-----------------------------------------------------------------------------
(* Tokens, nodes and coroutines, one change at a time.                      *)
LEMMA JobTokenSteps ==
    ASSUME NEW t \in JobTokens, NEW j \in Jobs
    PROVE  /\ LET u == Reasoned(t, "caller")
              IN u \in JobTokens /\ u.op = t.op /\ u.notify = t.notify /\ u.cancelled = t.cancelled
           /\ LET u == Published(t)
              IN u \in JobTokens /\ u.op = t.op /\ u.notify = t.notify /\ u.cancelled
           /\ LET u == Dispatched(t)
              IN u \in JobTokens /\ u.op = t.op /\ u.notify = t.notify /\ u.cancelled = t.cancelled
           /\ LET u == Dispatched(Told(t))
              IN u \in JobTokens /\ u.op = t.op /\ ~u.notify /\ u.cancelled = t.cancelled
           /\ LET u == Registered(t, j)
              IN u \in JobTokens /\ u.cancelled = t.cancelled
                 /\ IF t.cancelled THEN u = t ELSE u.op = j /\ u.notify
           /\ LET u == Retired(t, j)
              IN u \in JobTokens /\ u.cancelled = t.cancelled
                 /\ IF t.op = j THEN u.op = Nobody /\ ~u.notify ELSE u = t
<1>1. LET u == Reasoned(t, "caller")
      IN u \in JobTokens /\ u.op = t.op /\ u.notify = t.notify /\ u.cancelled = t.cancelled
  BY DEF Reasoned, JobTokens
<1>2. LET u == Published(t)
      IN u \in JobTokens /\ u.op = t.op /\ u.notify = t.notify /\ u.cancelled
  BY DEF Published, JobTokens
<1>3. LET u == Dispatched(t)
      IN u \in JobTokens /\ u.op = t.op /\ u.notify = t.notify /\ u.cancelled = t.cancelled
  BY DEF Dispatched, JobTokens
<1>4. LET u == Dispatched(Told(t))
      IN u \in JobTokens /\ u.op = t.op /\ ~u.notify /\ u.cancelled = t.cancelled
  BY DEF Dispatched, Told, JobTokens
<1>5. LET u == Registered(t, j)
      IN u \in JobTokens /\ u.cancelled = t.cancelled
         /\ IF t.cancelled THEN u = t ELSE u.op = j /\ u.notify
  BY DEF Registered, JobTokens
<1>6. LET u == Retired(t, j)
      IN u \in JobTokens /\ u.cancelled = t.cancelled
         /\ IF t.op = j THEN u.op = Nobody /\ ~u.notify ELSE u = t
  BY DEF Retired, JobTokens
<1>7. QED BY <1>1, <1>2, <1>3, <1>4, <1>5, <1>6

(* push_node() adds one node; the drain takes the list the other way round. *)
LEMMA PushQueue ==
    ASSUME NEW S, NEW q \in Seq(S), NEW t \in S, IsInjective(q), ~Contains(q, t)
    PROVE  /\ <<t>> \o q \in Seq(S) /\ IsInjective(<<t>> \o q)
           /\ \A x : Contains(<<t>> \o q, x) <=> (x = t \/ Contains(q, x))
<1> DEFINE p == <<t>> \o q
<1>1. /\ p \in Seq(S) /\ Len(q) \in Nat /\ DOMAIN q = 1 .. Len(q)
      /\ Len(p) = Len(q) + 1 /\ DOMAIN p = 1 .. Len(q) + 1 /\ p[1] = t
      /\ \A i \in 1 .. Len(q) + 1 : i # 1 => p[i] = q[i - 1]
  OBVIOUS
<1>2. \A i \in 1 .. Len(q) : i + 1 \in 1 .. Len(q) + 1 /\ p[i + 1] = q[i]
  BY <1>1
<1> HIDE DEF p
<1>3. IsInjective(p)
  <2> SUFFICES ASSUME NEW i \in 1 .. Len(q) + 1, NEW k \in 1 .. Len(q) + 1, p[i] = p[k]
               PROVE  i = k
    BY <1>1 DEF IsInjective
  <2>1. CASE i = 1 \/ k = 1
    BY <1>1, <2>1 DEF Contains
  <2>2. CASE i # 1 /\ k # 1
    <3>1. i - 1 \in 1 .. Len(q) /\ k - 1 \in 1 .. Len(q) /\ q[i - 1] = q[k - 1]
      BY <1>1, <2>2
    <3>2. i - 1 = k - 1
      BY <1>1, <3>1 DEF IsInjective
    <3>3. QED BY <1>1, <3>2
  <2>3. QED BY <2>1, <2>2
<1>4. \A x : Contains(p, x) <=> (x = t \/ Contains(q, x))
  <2> SUFFICES ASSUME NEW x PROVE Contains(p, x) <=> (x = t \/ Contains(q, x))
    OBVIOUS
  <2>1. Contains(p, x) => x = t \/ Contains(q, x)
    BY <1>1 DEF Contains
  <2>2. x = t => Contains(p, x)
    BY <1>1 DEF Contains
  <2>3. Contains(q, x) => Contains(p, x)
    BY <1>1, <1>2 DEF Contains
  <2>4. QED BY <2>1, <2>2, <2>3
<1>5. QED BY <1>1, <1>3, <1>4 DEF p

LEMMA ReverseQueue ==
    ASSUME NEW S, NEW q \in Seq(S), IsInjective(q)
    PROVE  /\ Reverse(q) \in Seq(S) /\ IsInjective(Reverse(q))
           /\ \A x : Contains(Reverse(q), x) <=> Contains(q, x)
<1> DEFINE p == Reverse(q)
<1>1. /\ Len(q) \in Nat /\ DOMAIN q = 1 .. Len(q) /\ q \in [1 .. Len(q) -> S]
  OBVIOUS
<1>2. /\ p \in [1 .. Len(q) -> S] /\ \A i \in 1 .. Len(q) : p[i] = q[(Len(q) - i) + 1]
  BY <1>1 DEF Reverse
<1> HIDE DEF p
<1>3. p \in Seq(S) /\ Len(p) = Len(q) /\ DOMAIN p = 1 .. Len(q)
  BY <1>1, <1>2
<1>4. \A i \in 1 .. Len(q) : (Len(q) - i) + 1 \in 1 .. Len(q) /\ (Len(q) - ((Len(q) - i) + 1)) + 1 = i
  BY <1>1
<1>5. IsInjective(p)
  <2> SUFFICES ASSUME NEW i \in 1 .. Len(q), NEW k \in 1 .. Len(q), p[i] = p[k]
               PROVE  i = k
    BY <1>3 DEF IsInjective
  <2>1. (Len(q) - i) + 1 = (Len(q) - k) + 1
    BY <1>1, <1>2, <1>4 DEF IsInjective
  <2>2. QED BY <1>1, <2>1
<1>6. \A x : Contains(p, x) <=> Contains(q, x)
  BY <1>2, <1>3, <1>4 DEF Contains
<1>7. QED BY <1>3, <1>5, <1>6 DEF p

OnlyJob(j) == job' \in [Jobs -> JobStates] /\ \A k \in Jobs \ {j} : job'[k] = job[k]

LEMMA JobMoves ==
    ASSUME job \in [Jobs -> JobStates], NEW j \in Jobs, NEW at \in JobPlaces,
           job' = [job EXCEPT ![j].at = at]
    PROVE  OnlyJob(j) /\ job'[j].at = at /\ job'[j].op = job[j].op
  BY DEF JobStates, JobPlaces, OnlyJob

OnlyToken(j) == jobTok' \in [Jobs -> JobTokens] /\ \A k \in Jobs \ {j} : jobTok'[k] = jobTok[k]

LEMMA TokenMoves ==
    ASSUME jobTok \in [Jobs -> JobTokens], NEW j \in Jobs, NEW u \in JobTokens,
           jobTok' = [jobTok EXCEPT ![j] = u]
    PROVE  OnlyToken(j) /\ jobTok'[j] = u
  BY DEF OnlyToken

-----------------------------------------------------------------------------
(* Steps of other threads.                                                  *)
LEMMA InitElIInv ==
    ASSUME ElInit PROVE ElIInv
<1>1. NoOperation \in ElOperations /\ NoRegistration \in EpSlots /\ NoInterest \in EpInterests
      /\ NoInterest.dirs = {} /\ \A d \in Directions : NoRegistration.waiter[d] = Nobody
  BY ElAssumption DEF NoOperation, ElOperations, NoRegistration, EpSlots, NoInterest, EpInterests,
     Directions
<1>2. \A j \in Jobs : use.left[j] \in Int
  BY ElAssumption DEF ElInit
<1>3. /\ loop \in LoopStates /\ loop.at = "test" /\ loop.events = << >> /\ loop.chain = << >>
      /\ loop.due = << >> /\ posts = << >> /\ posts \in Seq(PostNodes)
  BY DEF ElInit, LoopStates, LoopPlaces
<1>4. job \in [Jobs -> JobStates] /\ \A j \in Jobs : job[j].at = "away"
  BY <1>1, <1>2 DEF ElInit, JobStates, JobPlaces
<1>5. /\ jobTok \in [Jobs -> JobTokens]
      /\ \A j \in Jobs : jobTok[j].op = Nobody /\ ~jobTok[j].notify
  BY DEF ElInit, FreshToken, JobTokens
<1>6. ElTyped
  BY <1>3, <1>4, <1>5 DEF ElTyped, ElInit
<1>7. ep \in EpStates /\ \A f \in Fds : ep.at[f] = Null /\ ep.interest[f].dirs = {}
  BY <1>1 DEF ElInit, EpStates
<1>8. EpOK(ep)
  BY <1>7 DEF EpOK
<1>9. BatchOK(ep, loop.events, readyFor)
  BY <1>3, <1>7, NoEvents DEF BatchOK, Fetched, EventsOnce, Covered, Truthful
<1>10. ElControl
  BY <1>3, <1>4, ElAssumption DEF ElControl, ElInit
<1>11. HoldersFit /\ OpsApart
  BY <1>4, <1>7 DEF HoldersFit, Holder, OpsApart
<1>12. DueFit /\ Called /\ ResumedReady
  BY <1>3, <1>4, EmptyQueue DEF DueFit, Called, ResumedReady
<1>13. NodesOnce /\ NodesFit
  BY <1>3, <1>4, EmptyQueue DEF NodesOnce, NodesFit, Queued
<1>14. TokFit
  BY <1>4, <1>5, ElAssumption DEF TokFit
<1>15. QED BY <1>6, <1>8, <1>9, <1>10, <1>11, <1>12, <1>13, <1>14 DEF ElIInv

(* Nothing but what a token says of its cancellation changes.               *)
LEMMA TokenFrame ==
    ASSUME ElIInv, UNCHANGED <<use, posts, loop, ep, readyFor, onLoop, job>>,
           canceller' \in [Jobs -> {"idle", "publishing", "dispatching", "waking", "end"}],
           jobTok' \in [Jobs -> JobTokens],
           \A j \in Jobs : /\ jobTok'[j].op = jobTok[j].op
                           /\ jobTok'[j].notify = jobTok[j].notify
                           /\ jobTok[j].cancelled => jobTok'[j].cancelled
    PROVE  ElIInv'
<1>1. ElTyped'
  BY DEF ElIInv, ElTyped
<1>2. EpOK(ep)' /\ BatchOK(ep, loop.events, readyFor)' /\ ElControl'
  BY DEF ElIInv, ElControl
<1>3. HoldersFit' /\ OpsApart' /\ DueFit'
  BY DEF ElIInv, HoldersFit, OpsApart, DueFit, Waits, Ready
<1>4. Called'
  BY DEF ElIInv, Called, TokenTold
<1>5. NodesOnce' /\ NodesFit'
  BY DEF ElIInv, NodesOnce, NodesFit, Queued, TokenTold
<1>6. TokFit'
  BY DEF ElIInv, TokFit
<1>7. ResumedReady'
  BY DEF ElIInv, ResumedReady, Ready
<1>8. QED BY <1>1, <1>2, <1>3, <1>4, <1>5, <1>6, <1>7 DEF ElIInv

LEMMA OutsideElIInv ==
    ASSUME ElIInv, Wake \/ StopLoop
    PROVE  ElIInv'
  BY TokenFrame DEF Wake, StopLoop, ElIInv, ElTyped

LEMMA CancelElIInv ==
    ASSUME ElIInv, NEW j \in Jobs, CancelJob(j) \/ PublishCancel(j) \/ WakeForCancel(j)
    PROVE  ElIInv'
<1>0. jobTok \in [Jobs -> JobTokens] /\ jobTok[j] \in JobTokens
      /\ canceller \in [Jobs -> {"idle", "publishing", "dispatching", "waking", "end"}]
  BY DEF ElIInv, ElTyped
<1>1. CASE CancelJob(j)
  <2>1. OnlyToken(j) /\ jobTok'[j] = Reasoned(jobTok[j], "caller")
    BY <1>0, <1>1, JobTokenSteps, TokenMoves DEF CancelJob
  <2>2. canceller' \in [Jobs -> {"idle", "publishing", "dispatching", "waking", "end"}]
    BY <1>0, <1>1 DEF CancelJob
  <2>3. \A k \in Jobs : /\ jobTok'[k].op = jobTok[k].op /\ jobTok'[k].notify = jobTok[k].notify
                        /\ jobTok[k].cancelled => jobTok'[k].cancelled
    BY <1>0, <2>1, JobTokenSteps DEF OnlyToken
  <2>4. QED BY <1>1, <2>1, <2>2, <2>3, TokenFrame DEF CancelJob, OnlyToken
<1>2. CASE PublishCancel(j)
  <2>1. OnlyToken(j) /\ jobTok'[j] = Published(jobTok[j])
    BY <1>0, <1>2, JobTokenSteps, TokenMoves DEF PublishCancel
  <2>2. canceller' \in [Jobs -> {"idle", "publishing", "dispatching", "waking", "end"}]
    BY <1>0, <1>2 DEF PublishCancel
  <2>3. \A k \in Jobs : /\ jobTok'[k].op = jobTok[k].op /\ jobTok'[k].notify = jobTok[k].notify
                        /\ jobTok[k].cancelled => jobTok'[k].cancelled
    BY <1>0, <2>1, JobTokenSteps DEF OnlyToken
  <2>4. QED BY <1>2, <2>1, <2>2, <2>3, TokenFrame DEF PublishCancel, OnlyToken
<1>3. CASE WakeForCancel(j)
  <2>1. canceller' \in [Jobs -> {"idle", "publishing", "dispatching", "waking", "end"}]
    BY <1>0, <1>3 DEF WakeForCancel
  <2>2. QED BY <1>0, <1>3, <2>1, TokenFrame DEF WakeForCancel
<1>4. QED BY <1>1, <1>2, <1>3

(* The token tells its operation: the operation is suspended, and has no    *)
(* node yet.                                                                *)
LEMMA TellElIInv ==
    ASSUME ElIInv, NEW j \in Jobs, TellCancel(j)
    PROVE  ElIInv'
<1>0. /\ jobTok \in [Jobs -> JobTokens] /\ jobTok[j] \in JobTokens /\ job \in [Jobs -> JobStates]
      /\ canceller \in [Jobs -> {"idle", "publishing", "dispatching", "waking", "end"}]
      /\ posts \in Seq(PostNodes)
  BY DEF ElIInv, ElTyped
<1>1. UNCHANGED <<use, loop, ep, readyFor, onLoop, job>> /\ jobTok[j].cancelled
  BY DEF TellCancel, MayDispatch
<1>2. canceller' \in [Jobs -> {"idle", "publishing", "dispatching", "waking", "end"}]
  BY <1>0 DEF TellCancel
<1>3. CASE ~Tells(jobTok[j])
  <2>1. OnlyToken(j) /\ jobTok'[j] = Dispatched(jobTok[j]) /\ posts' = posts
    <3>1. jobTok' = [jobTok EXCEPT ![j] = Dispatched(jobTok[j])] /\ posts' = posts
      BY <1>3 DEF TellCancel
    <3>2. Dispatched(jobTok[j]) \in JobTokens
      BY <1>0, JobTokenSteps
    <3>3. QED BY <1>0, <3>1, <3>2, TokenMoves
  <2>2. \A k \in Jobs : /\ jobTok'[k].op = jobTok[k].op /\ jobTok'[k].notify = jobTok[k].notify
                        /\ jobTok[k].cancelled => jobTok'[k].cancelled
    <3>1. LET u == Dispatched(jobTok[j])
          IN u.op = jobTok[j].op /\ u.notify = jobTok[j].notify /\ u.cancelled = jobTok[j].cancelled
      BY <1>0, JobTokenSteps
    <3>2. QED BY <2>1, <3>1 DEF OnlyToken
  <2>3. QED BY <1>1, <1>2, <2>1, <2>2, TokenFrame DEF OnlyToken
<1>4. CASE Tells(jobTok[j])
  <2> DEFINE n == Node("cancelled", j)
  <2>1. OnlyToken(j) /\ jobTok'[j] = Dispatched(Told(jobTok[j])) /\ posts' = <<n>> \o posts
    BY <1>0, <1>4, JobTokenSteps, TokenMoves DEF TellCancel, Node
  <2>2. /\ jobTok' \in [Jobs -> JobTokens] /\ \A k \in Jobs \ {j} : jobTok'[k] = jobTok[k]
        /\ jobTok'[j].op = jobTok[j].op /\ ~jobTok'[j].notify /\ jobTok'[j].cancelled
    BY <1>0, <1>1, <2>1, JobTokenSteps DEF OnlyToken
  <2>3. jobTok[j].notify /\ jobTok[j].op = j /\ job[j].at = "suspended" /\ job[j].op.cancellable
    BY <1>4 DEF Tells, ElIInv, TokFit
  <2>4. n \in PostNodes /\ ~Queued(n)
    BY <2>3 DEF Node, PostNodes, ElIInv, NodesFit, TokenTold
  <2>5. /\ posts' \in Seq(PostNodes) /\ IsInjective(posts')
        /\ \A x : Contains(posts', x) <=> (x = n \/ Contains(posts, x))
    BY <1>0, <2>1, <2>4, PushQueue DEF ElIInv, NodesOnce, Queued
  <2>6. ElTyped'
    BY <1>1, <1>2, <2>2, <2>5 DEF ElIInv, ElTyped
  <2>7. EpOK(ep)' /\ BatchOK(ep, loop.events, readyFor)' /\ ElControl'
    BY <1>1 DEF ElIInv, ElControl
  <2>8. HoldersFit' /\ OpsApart' /\ DueFit'
    BY <1>1 DEF ElIInv, HoldersFit, OpsApart, DueFit, Waits, Ready
  <2>9. Called'
    BY <1>1, <2>2, <2>3 DEF ElIInv, Called, TokenTold
  <2>10. NodesOnce'
    BY <1>1, <2>4, <2>5 DEF ElIInv, NodesOnce, Queued
  <2>11. NodesFit'
    <3> SUFFICES ASSUME NEW k \in Jobs
                 PROVE  /\ Queued(Node("coroutine", k))' => job[k].at = "posted"
                        /\ Queued(Node("cancelled", k))' <=> job[k].at = "suspended" /\ TokenTold(k)'
      BY <1>1 DEF NodesFit
    <3>1. Queued(Node("coroutine", k))' = Queued(Node("coroutine", k))
      BY <1>1, <2>5 DEF Queued, Node
    <3>2. Queued(Node("cancelled", k))' <=> k = j \/ Queued(Node("cancelled", k))
      BY <1>1, <2>5 DEF Queued, Node
    <3>3. TokenTold(k)' <=> k = j \/ TokenTold(k)
      BY <1>1, <2>2, <2>3 DEF TokenTold
    <3>4. QED BY <2>3, <3>1, <3>2, <3>3 DEF ElIInv, NodesFit
  <2>12. TokFit'
    BY <1>1, <2>2, <2>3 DEF ElIInv, TokFit
  <2>13. ResumedReady'
    BY <1>1, <2>2, <2>3 DEF ElIInv, ResumedReady, Ready
  <2>14. QED BY <2>6, <2>7, <2>8, <2>9, <2>10, <2>11, <2>12, <2>13 DEF ElIInv
<1>5. QED BY <1>3, <1>4

LEMMA PostOutsideElIInv ==
    ASSUME ElIInv, NEW j \in Jobs, PostFromOutside(j)
    PROVE  ElIInv'
<1> DEFINE n == Node("coroutine", j)
<1>0. /\ UNCHANGED <<use, loop, ep, readyFor, onLoop, jobTok, canceller>>
      /\ job[j].at = "away" /\ posts' = <<n>> \o posts /\ job' = [job EXCEPT ![j].at = "posted"]
  BY DEF PostFromOutside, Node
<1>1. OnlyJob(j) /\ job'[j].at = "posted" /\ job'[j].op = job[j].op
  BY <1>0, JobMoves DEF ElIInv, ElTyped, JobPlaces
<1>2. n \in PostNodes /\ ~Queued(n)
  BY <1>0 DEF Node, PostNodes, ElIInv, NodesFit
<1>3. /\ posts' \in Seq(PostNodes) /\ IsInjective(posts')
      /\ \A x : Contains(posts', x) <=> (x = n \/ Contains(posts, x))
  BY <1>0, <1>2, PushQueue DEF ElIInv, ElTyped, NodesOnce, Queued
<1>4. ElTyped'
  BY <1>0, <1>1, <1>3 DEF ElIInv, ElTyped, OnlyJob
<1>5. EpOK(ep)' /\ BatchOK(ep, loop.events, readyFor)'
  BY <1>0 DEF ElIInv
<1>6. ElControl'
  BY <1>0, <1>1 DEF ElIInv, ElControl, OnlyJob
<1>7. HoldersFit' /\ OpsApart'
  BY <1>0, <1>1 DEF ElIInv, HoldersFit, OpsApart, Waits, OnlyJob
<1>8. DueFit' /\ Called' /\ ResumedReady'
  BY <1>0, <1>1 DEF ElIInv, DueFit, Called, ResumedReady, TokenTold, Ready, OnlyJob
<1>9. NodesOnce'
  BY <1>0, <1>2, <1>3 DEF ElIInv, NodesOnce, Queued
<1>10. NodesFit'
  <2> SUFFICES ASSUME NEW k \in Jobs
               PROVE  /\ Queued(Node("coroutine", k))' => job'[k].at = "posted"
                      /\ Queued(Node("cancelled", k))' <=> job'[k].at = "suspended" /\ TokenTold(k)'
    BY DEF NodesFit
  <2>1. Queued(Node("coroutine", k))' <=> k = j \/ Queued(Node("coroutine", k))
    BY <1>0, <1>3 DEF Queued, Node
  <2>2. Queued(Node("cancelled", k))' = Queued(Node("cancelled", k))
    BY <1>0, <1>3 DEF Queued, Node
  <2>3. QED BY <1>0, <1>1, <2>1, <2>2 DEF ElIInv, NodesFit, TokenTold, OnlyJob
<1>11. TokFit'
  BY <1>0, <1>1 DEF ElIInv, TokFit, OnlyJob
<1>12. QED BY <1>4, <1>5, <1>6, <1>7, <1>8, <1>9, <1>10, <1>11 DEF ElIInv

LEMMA BecomesReadyElIInv ==
    ASSUME ElIInv, NEW f \in Fds, BecomesReady(f)
    PROVE  ElIInv'
<1>0. UNCHANGED <<use, posts, loop, ep, onLoop, job, jobTok, canceller>>
  BY DEF BecomesReady
<1>1. /\ readyFor' \in [Fds -> SUBSET (Directions \cup {"hup"})]
      /\ \A g \in Fds : readyFor[g] \subseteq readyFor'[g]
  <2>1. use.signals[f] \subseteq Directions \cup {"hup"}
    BY ElAssumption DEF ElIInv, ElTyped
  <2>2. QED BY <2>1 DEF BecomesReady, ElIInv, ElTyped
<1>2. ElTyped'
  BY <1>0, <1>1 DEF ElIInv, ElTyped
<1>3. EpOK(ep)' /\ ElControl'
  BY <1>0 DEF ElIInv, ElControl
<1>4. BatchOK(ep, loop.events, readyFor)'
  BY <1>0, <1>1 DEF ElIInv, BatchOK, Truthful
<1>5. HoldersFit' /\ OpsApart' /\ Called'
  BY <1>0 DEF ElIInv, HoldersFit, OpsApart, Waits, Called, TokenTold
<1>6. \A k \in Jobs : Ready(k) => Ready(k)'
  <2>1. \A k \in Jobs : job[k].op.fd \in Fds
    BY DEF ElIInv, ElTyped, JobStates, ElOperations
  <2>2. QED BY <1>0, <1>1, <2>1 DEF Ready
<1>7. DueFit' /\ ResumedReady'
  BY <1>0, <1>6 DEF ElIInv, DueFit, ResumedReady
<1>8. NodesOnce' /\ NodesFit' /\ TokFit'
  BY <1>0 DEF ElIInv, NodesOnce, NodesFit, Queued, TokenTold, TokFit
<1>9. QED BY <1>2, <1>3, <1>4, <1>5, <1>7, <1>8 DEF ElIInv

-----------------------------------------------------------------------------
(* Steps of the loop.                                                       *)
LEMMA LoopAtFrame ==
    ASSUME ElIInv, NEW at \in LoopPlaces, loop' = [loop EXCEPT !.at = at], ElControl',
           UNCHANGED <<use, posts, ep, readyFor, onLoop, job, jobTok, canceller>>
    PROVE  ElIInv'
<1>1. /\ loop' \in LoopStates /\ loop'.events = loop.events /\ loop'.chain = loop.chain
      /\ loop'.due = loop.due
  BY DEF ElIInv, ElTyped, LoopStates
<1>2. ElTyped'
  BY <1>1 DEF ElIInv, ElTyped
<1>3. EpOK(ep)' /\ BatchOK(ep, loop.events, readyFor)'
  BY <1>1 DEF ElIInv
<1>4. HoldersFit' /\ OpsApart' /\ DueFit' /\ Called' /\ ResumedReady'
  BY <1>1 DEF ElIInv, HoldersFit, OpsApart, DueFit, Called, ResumedReady, Waits, Ready, TokenTold
<1>5. NodesOnce' /\ NodesFit' /\ TokFit'
  BY <1>1 DEF ElIInv, NodesOnce, NodesFit, TokFit, Queued, TokenTold
<1>6. QED BY <1>2, <1>3, <1>4, <1>5 DEF ElIInv

LEMMA LoopMovesElIInv ==
    ASSUME ElIInv, TestStopped \/ RestartLoop \/ ReadEventfd
    PROVE  ElIInv'
<1>0. loop \in LoopStates
  BY DEF ElIInv, ElTyped
<1>1. CASE TestStopped
  <2>1. PICK at \in {"ended", "wait"} : loop' = [loop EXCEPT !.at = at]
    BY <1>1 DEF TestStopped
  <2>2. ElControl'
    BY <1>0, <1>1, <2>1 DEF ElIInv, ElControl, LoopStates, TestStopped
  <2>3. QED BY <1>1, <2>1, <2>2, LoopAtFrame DEF TestStopped, LoopPlaces
<1>2. CASE RestartLoop
  <2>1. ElControl'
    BY <1>0, <1>2 DEF ElIInv, ElControl, LoopStates, RestartLoop
  <2>2. QED BY <1>2, <2>1, LoopAtFrame DEF RestartLoop, LoopPlaces
<1>3. CASE ReadEventfd
  <2>1. ElControl'
    BY <1>0, <1>3 DEF ElIInv, ElControl, LoopStates, ReadEventfd, Idle
  <2>2. QED BY <1>3, <2>1, LoopAtFrame DEF ReadEventfd, LoopPlaces
<1>4. QED BY <1>1, <1>2, <1>3

LEMMA EpollWaitElIInv ==
    ASSUME ElIInv, EpollWait
    PROVE  ElIInv'
<1>0. UNCHANGED <<use, posts, readyFor, onLoop, job, jobTok, canceller>> /\ loop.at = "wait"
  BY DEF EpollWait
<1>3. /\ loop \in LoopStates /\ loop.events = << >> /\ loop.due = << >> /\ loop.chain = << >>
      /\ onLoop = Nobody
  BY <1>0 DEF ElIInv, ElTyped, ElControl
<1>5. /\ EpOK(ep) /\ BatchOK(ep, << >>, readyFor)
      /\ readyFor \in [Fds -> SUBSET (Directions \cup {"hup"})]
  BY <1>3 DEF ElIInv, ElTyped
<1>1. PICK batch \in Seq(LoopEvents) :
        /\ loop' = [loop EXCEPT !.at = "batch", !.events = batch]
        /\ EpOK(ep') /\ BatchOK(ep', batch, readyFor)
        /\ \A f \in Fds, d \in Directions : Holder(ep', f, d) = Holder(ep, f, d)
  BY <1>5, BatchFetched
<1>6. /\ EpOK(ep') /\ batch \in Seq(LoopEvents) /\ BatchOK(ep', batch, readyFor)
      /\ \A f \in Fds, d \in Directions : Holder(ep', f, d) = Holder(ep, f, d)
  BY <1>1
<1>7. /\ loop' \in LoopStates /\ loop'.at = "batch" /\ loop'.events = batch /\ loop'.chain = << >>
      /\ loop'.due = << >>
  BY <1>1, <1>3, <1>6 DEF LoopStates, LoopPlaces
<1>8. ElTyped'
  BY <1>0, <1>7 DEF ElIInv, ElTyped
<1>9. EpOK(ep)' /\ BatchOK(ep, loop.events, readyFor)'
  BY <1>0, <1>6, <1>7
<1>10. ElControl'
  BY <1>0, <1>3, <1>7 DEF ElIInv, ElControl
<1>11. HoldersFit' /\ OpsApart'
  BY <1>0, <1>6 DEF ElIInv, HoldersFit, OpsApart, Waits
<1>12. DueFit' /\ ResumedReady'
  BY <1>0, <1>3, <1>7, EmptyQueue, ElAssumption DEF ElIInv, ElControl, DueFit, ResumedReady
<1>13. Called'
  <2>1. \A k \in Jobs : job[k].op.fd \in Fds /\ job[k].op.dir \in Directions
    BY DEF ElIInv, ElTyped, JobStates, ElOperations
  <2>2. QED BY <1>0, <1>3, <1>6, <1>7, <2>1 DEF ElIInv, Called, TokenTold
<1>14. NodesOnce' /\ NodesFit' /\ TokFit'
  BY <1>0, <1>3, <1>7 DEF ElIInv, NodesOnce, NodesFit, TokFit, Queued, TokenTold
<1>15. QED BY <1>8, <1>9, <1>10, <1>11, <1>12, <1>13, <1>14 DEF ElIInv

LEMMA EndBatchElIInv ==
    ASSUME ElIInv, EndBatch
    PROVE  ElIInv'
<1>0. /\ UNCHANGED <<use, posts, readyFor, onLoop, job, jobTok, canceller>> /\ loop.at = "batch"
      /\ loop.events = << >> /\ onLoop = Nobody /\ loop.due = << >>
      /\ loop' = [loop EXCEPT !.at = "test"]
  BY DEF EndBatch, Idle
<1>1. /\ loop' \in LoopStates /\ loop'.at = "test" /\ loop'.events = << >> /\ loop'.chain = << >>
      /\ loop'.due = << >> /\ loop.chain = << >>
  BY <1>0 DEF ElIInv, ElTyped, ElControl, LoopStates, LoopPlaces
<1>2. /\ EpOK(ep') /\ BatchOK(ep', << >>, readyFor)
      /\ \A f \in Fds, d \in Directions : Holder(ep', f, d) = Holder(ep, f, d)
  <2>1. EpOK(ep) /\ BatchOK(ep, << >>, readyFor)
    BY <1>0 DEF ElIInv
  <2>2. QED BY <2>1, BatchReleased
<1>3. ElTyped'
  BY <1>0, <1>1 DEF ElIInv, ElTyped
<1>4. EpOK(ep)' /\ BatchOK(ep, loop.events, readyFor)'
  BY <1>0, <1>1, <1>2
<1>5. ElControl'
  BY <1>0, <1>1 DEF ElIInv, ElControl
<1>6. HoldersFit' /\ OpsApart'
  BY <1>0, <1>2 DEF ElIInv, HoldersFit, OpsApart, Waits
<1>7. DueFit' /\ ResumedReady'
  BY <1>0, <1>1, EmptyQueue, ElAssumption DEF ElIInv, ElControl, DueFit, ResumedReady
<1>8. Called'
  <2>1. \A k \in Jobs : job[k].op.fd \in Fds /\ job[k].op.dir \in Directions
    BY DEF ElIInv, ElTyped, JobStates, ElOperations
  <2>2. QED BY <1>0, <1>1, <1>2, <2>1 DEF ElIInv, Called, TokenTold
<1>9. NodesOnce' /\ NodesFit' /\ TokFit'
  BY <1>0, <1>1 DEF ElIInv, NodesOnce, NodesFit, TokFit, Queued, TokenTold
<1>10. QED BY <1>3, <1>4, <1>5, <1>6, <1>7, <1>8, <1>9 DEF ElIInv

LEMMA EndDrainElIInv ==
    ASSUME ElIInv, EndDrain
    PROVE  ElIInv'
<1>0. /\ UNCHANGED <<use, posts, ep, readyFor, onLoop, job, jobTok, canceller>> /\ loop.at = "drain"
      /\ onLoop = Nobody /\ loop.chain = << >>
      /\ loop' = [loop EXCEPT !.at = "batch", !.events = Tail(loop.events)]
  BY DEF EndDrain
<1>1. /\ loop.events \in Seq(LoopEvents) /\ loop.events # << >> /\ Head(loop.events).reg = Null
      /\ loop.due = << >> /\ Tail(loop.events) \in Seq(LoopEvents)
  BY <1>0, TailFacts DEF ElIInv, ElTyped, ElControl, LoopStates
<1>2. /\ loop' \in LoopStates /\ loop'.at = "batch" /\ loop'.events = Tail(loop.events)
      /\ loop'.chain = << >> /\ loop'.due = << >>
  BY <1>0, <1>1 DEF ElIInv, ElTyped, LoopStates, LoopPlaces
<1>3. BatchOK(ep, Tail(loop.events), readyFor)
  BY <1>1, BatchTail DEF ElIInv
<1>4. ElTyped'
  BY <1>0, <1>2 DEF ElIInv, ElTyped
<1>5. EpOK(ep)' /\ BatchOK(ep, loop.events, readyFor)'
  BY <1>0, <1>2, <1>3 DEF ElIInv
<1>6. ElControl'
  BY <1>0, <1>2 DEF ElIInv, ElControl
<1>7. HoldersFit' /\ OpsApart'
  BY <1>0 DEF ElIInv, HoldersFit, OpsApart, Waits
<1>8. DueFit' /\ ResumedReady'
  BY <1>0, <1>2, EmptyQueue, ElAssumption DEF ElIInv, ElControl, DueFit, ResumedReady
<1>9. Called'
  BY <1>0, <1>1, <1>2 DEF ElIInv, Called, TokenTold
<1>10. NodesOnce' /\ NodesFit' /\ TokFit'
  BY <1>0, <1>2 DEF ElIInv, NodesOnce, NodesFit, TokFit, Queued, TokenTold
<1>11. QED BY <1>4, <1>5, <1>6, <1>7, <1>8, <1>9, <1>10 DEF ElIInv

LEMMA TakePostsElIInv ==
    ASSUME ElIInv, TakePosts
    PROVE  ElIInv'
<1>0. /\ UNCHANGED <<use, ep, readyFor, onLoop, job, jobTok, canceller>> /\ loop.at = "exchange"
      /\ posts' = << >> /\ loop' = [loop EXCEPT !.at = "drain", !.chain = Reverse(posts)]
  BY DEF TakePosts
<1>1. /\ Reverse(posts) \in Seq(PostNodes) /\ IsInjective(Reverse(posts))
      /\ \A x : Contains(Reverse(posts), x) <=> Contains(posts, x)
  BY ReverseQueue DEF ElIInv, ElTyped, NodesOnce
<1>2. /\ loop' \in LoopStates /\ loop'.at = "drain" /\ loop'.events = loop.events
      /\ loop'.chain = Reverse(posts) /\ loop'.due = loop.due /\ loop.chain = << >>
  BY <1>0, <1>1 DEF ElIInv, ElTyped, ElControl, LoopStates, LoopPlaces
<1>3. ElTyped'
  BY <1>0, <1>2 DEF ElIInv, ElTyped
<1>4. EpOK(ep)' /\ BatchOK(ep, loop.events, readyFor)'
  BY <1>0, <1>2 DEF ElIInv
<1>5. ElControl'
  BY <1>0, <1>2 DEF ElIInv, ElControl
<1>6. HoldersFit' /\ OpsApart' /\ DueFit' /\ Called' /\ ResumedReady'
  BY <1>0, <1>2 DEF ElIInv, HoldersFit, OpsApart, DueFit, Called, ResumedReady, Waits, Ready, TokenTold
<1>7. \A x : Queued(x)' <=> Queued(x)
  BY <1>0, <1>1, <1>2, EmptyQueue DEF Queued
<1>8. NodesOnce'
  BY <1>0, <1>1, <1>2, EmptyQueue DEF NodesOnce
<1>9. NodesFit' /\ TokFit'
  BY <1>0, <1>7 DEF ElIInv, NodesFit, TokFit, TokenTold, Node
<1>10. QED BY <1>3, <1>4, <1>5, <1>6, <1>8, <1>9 DEF ElIInv

(* The waiters of one event, at most one for each direction.                *)
LEMMA TwoWaiters ==
    ASSUME NEW S, NEW a, NEW b, NEW p, NEW q,
           p = << >> \/ (p = <<a>> /\ a \in S), q = << >> \/ (q = <<b>> /\ b \in S),
           p # << >> /\ q # << >> => a # b
    PROVE  /\ p \o q \in Seq(S) /\ IsInjective(p \o q)
           /\ \A x : Contains(p \o q, x) <=> (p # << >> /\ x = a) \/ (q # << >> /\ x = b)
<1>1. CASE p = << >> /\ q = << >>
  <2>1. p \o q = << >>
    BY <1>1
  <2>2. QED BY <1>1, <2>1, EmptyQueue
<1>2. CASE p # << >> /\ q = << >>
  <2>1. /\ p \o q = <<a>> /\ a \in S /\ <<a>> \in Seq(S) /\ Len(<<a>>) = 1 /\ <<a>>[1] = a
        /\ DOMAIN <<a>> = 1 .. 1
    BY <1>2
  <2>2. IsInjective(<<a>>)
    BY <2>1 DEF IsInjective
  <2>3. \A x : Contains(<<a>>, x) <=> x = a
    BY <2>1 DEF Contains
  <2>4. QED BY <1>2, <2>1, <2>2, <2>3
<1>3. CASE p = << >> /\ q # << >>
  <2>1. /\ p \o q = <<b>> /\ b \in S /\ <<b>> \in Seq(S) /\ Len(<<b>>) = 1 /\ <<b>>[1] = b
        /\ DOMAIN <<b>> = 1 .. 1
    BY <1>3
  <2>2. IsInjective(<<b>>)
    BY <2>1 DEF IsInjective
  <2>3. \A x : Contains(<<b>>, x) <=> x = b
    BY <2>1 DEF Contains
  <2>4. QED BY <1>3, <2>1, <2>2, <2>3
<1>4. CASE p # << >> /\ q # << >>
  <2>1. /\ p \in Seq(S) /\ q \in Seq(S) /\ Len(p) = 1 /\ Len(q) = 1 /\ p[1] = a /\ q[1] = b
        /\ a # b
    <3>1. p = <<a>> /\ q = <<b>> /\ a \in S /\ b \in S /\ a # b
      BY <1>4
    <3>2. \A x \in S : <<x>> \in Seq(S) /\ Len(<<x>>) = 1 /\ <<x>>[1] = x
      OBVIOUS
    <3>3. QED BY <3>1, <3>2
  <2>2. /\ p \o q \in Seq(S) /\ Len(p \o q) = 2 /\ DOMAIN (p \o q) = 1 .. 2
        /\ (p \o q)[1] = a /\ (p \o q)[2] = b
    <3>1. /\ p \o q \in Seq(S) /\ Len(p \o q) = 2
          /\ \A i \in 1 .. 2 : (p \o q)[i] = IF i <= 1 THEN p[i] ELSE q[i - 1]
      BY <2>1, ConcatProperties
    <3>2. QED BY <2>1, <3>1
  <2>3. IsInjective(p \o q)
    BY <2>1, <2>2 DEF IsInjective
  <2>4. \A x : Contains(p \o q, x) <=> x = a \/ x = b
    BY <2>2 DEF Contains
  <2>5. QED BY <1>4, <2>2, <2>3, <2>4
<1>5. QED BY <1>1, <1>2, <1>3, <1>4

LEMMA HandleEventElIInv ==
    ASSUME ElIInv, HandleEvent
    PROVE  ElIInv'
<1> DEFINE v == Head(loop.events)
           r == v.reg
           f == ep.mem[r].fd
           fired == IF "hup" \in v.signals THEN Directions ELSE v.signals
           waiter == ep.mem[r].waiter
           Due(d) == IF d \in fired /\ waiter[d] # Nobody THEN <<waiter[d]>> ELSE << >>
<1>0. /\ UNCHANGED <<use, posts, readyFor, onLoop, job, jobTok, canceller>> /\ loop.at = "batch"
      /\ loop.events # << >> /\ r # Null /\ onLoop = Nobody /\ loop.due = << >>
  BY DEF HandleEvent, Idle
<1>1. /\ loop \in LoopStates /\ loop.events \in Seq(LoopEvents) /\ v \in LoopEvents
      /\ Tail(loop.events) \in Seq(LoopEvents) /\ v = loop.events[1] /\ 1 \in DOMAIN loop.events
  BY <1>0, TailFacts DEF ElIInv, ElTyped, LoopStates
<1>2. /\ r \in Addresses /\ v.signals \subseteq Directions \cup {"hup"} /\ f \in Fds
      /\ waiter \in [Directions -> Jobs \cup {Nobody}]
  <2>1. r \in Addresses /\ v.signals \subseteq Directions \cup {"hup"}
    BY <1>0, <1>1 DEF LoopEvents
  <2>2. ep.mem[r] \in EpSlots
    BY <2>1 DEF ElIInv, EpOK, EpStates
  <2>3. QED BY <2>1, <2>2 DEF EpSlots
<1>3. EpOK(ep) /\ BatchOK(ep, loop.events, readyFor) /\ \A g \in Fds : ep.at[g] = r => g = f
  BY <1>0 DEF ElIInv, EpOK
<1>4. \A k \in Jobs : job[k].at \notin {"running", "adding", "resumed"}
  BY <1>0, ElAssumption DEF ElIInv, ElControl
<1>5. \A k \in Jobs : job[k].op.fd \in Fds /\ job[k].op.dir \in Directions
  BY DEF ElIInv, ElTyped, JobStates, ElOperations
<1>6. CASE ep.at[f] # r
  <2>1. ep' = ep /\ loop' = [loop EXCEPT !.events = Tail(loop.events)]
    BY <1>6 DEF HandleEvent
  <2>2. /\ loop' \in LoopStates /\ loop'.at = "batch" /\ loop'.events = Tail(loop.events)
        /\ loop'.chain = loop.chain /\ loop'.due = << >>
    BY <1>0, <1>1, <2>1 DEF LoopStates
  <2>3. BatchOK(ep, Tail(loop.events), readyFor)
    BY <1>0, <1>1, <1>3, <1>6, BatchTail
  <2>4. ElTyped'
    BY <1>0, <2>2 DEF ElIInv, ElTyped
  <2>5. EpOK(ep)' /\ BatchOK(ep, loop.events, readyFor)'
    BY <1>0, <1>3, <2>1, <2>2, <2>3
  <2>6. ElControl'
    BY <1>0, <2>2 DEF ElIInv, ElControl
  <2>7. HoldersFit' /\ OpsApart'
    BY <1>0, <2>1 DEF ElIInv, HoldersFit, OpsApart, Waits
  <2>8. DueFit' /\ ResumedReady'
    BY <1>0, <1>4, <2>2, EmptyQueue DEF DueFit, ResumedReady
  <2>9. Called'
    BY <1>0, <2>1, <2>2 DEF ElIInv, Called, TokenTold
  <2>10. NodesOnce' /\ NodesFit' /\ TokFit'
    BY <1>0, <2>2 DEF ElIInv, NodesOnce, NodesFit, TokFit, Queued, TokenTold
  <2>11. QED BY <2>4, <2>5, <2>6, <2>7, <2>8, <2>9, <2>10 DEF ElIInv
<1>7. CASE ep.at[f] = r
  <2> DEFINE e2 == Rearmed(WithoutWaiters(ep, r, fired), r)
             due == Due("in") \o Due("out")
  <2>1. ep' = e2 /\ loop' = [loop EXCEPT !.events = Tail(loop.events), !.due = due]
    BY <1>7 DEF HandleEvent
  <2>2. \A d \in Directions : Holder(ep, f, d) = waiter[d]
    BY <1>0, <1>7 DEF Holder
  <2>3. \A d \in Directions : waiter[d] # Nobody =>
           /\ waiter[d] \in Jobs /\ job[waiter[d]].at = "suspended"
           /\ job[waiter[d]].op.fd = f /\ job[waiter[d]].op.dir = d
    <3> HIDE DEF waiter, f
    <3>1. HoldersFit
      BY DEF ElIInv
    <3>2. QED BY <1>2, <1>4, <2>2, <3>1 DEF HoldersFit, Waits
  <2>4. /\ due \in Seq(Jobs) /\ IsInjective(due)
        /\ \A x : Contains(due, x) <=> \E d \in Directions : d \in fired /\ waiter[d] # Nobody /\ x = waiter[d]
    <3> HIDE DEF fired, waiter
    <3> DEFINE p == Due("in") q == Due("out")
    <3>1. /\ p = << >> \/ (p = <<waiter["in"]>> /\ waiter["in"] \in Jobs)
          /\ q = << >> \/ (q = <<waiter["out"]>> /\ waiter["out"] \in Jobs)
          /\ p # << >> <=> "in" \in fired /\ waiter["in"] # Nobody
          /\ q # << >> <=> "out" \in fired /\ waiter["out"] # Nobody
      BY <2>3 DEF Directions
    <3>2. waiter["in"] # Nobody /\ waiter["out"] # Nobody => waiter["in"] # waiter["out"]
      BY <2>3 DEF Directions
    <3> HIDE DEF p, q
    <3>3. /\ p \o q \in Seq(Jobs) /\ IsInjective(p \o q)
          /\ \A x : Contains(p \o q, x) <=> (p # << >> /\ x = waiter["in"]) \/ (q # << >> /\ x = waiter["out"])
      BY <3>1, <3>2, TwoWaiters
    <3>4. \A x : Contains(p \o q, x) <=> \E d \in Directions : d \in fired /\ waiter[d] # Nobody /\ x = waiter[d]
      BY <3>1, <3>3 DEF Directions
    <3>5. QED BY <3>3, <3>4 DEF p, q
  <2> HIDE DEF due
  <2>5. /\ loop' \in LoopStates /\ loop'.at = "batch" /\ loop'.events = Tail(loop.events)
        /\ loop'.chain = loop.chain /\ loop'.due = due
    BY <1>0, <1>1, <2>1, <2>4 DEF LoopStates
  <2>6. /\ RegStep(ep, e2, f)
        /\ \A g \in Fds, d \in Directions :
             Holder(e2, g, d) = IF g = f /\ d \in fired THEN Nobody ELSE Holder(ep, g, d)
    <3> HIDE DEF fired, f
    <3>1. /\ RegStep(ep, Rearmed(WithoutWaiters(ep, ep.at[f], fired), ep.at[f]), f)
          /\ \A g \in Fds, d \in Directions :
               Holder(Rearmed(WithoutWaiters(ep, ep.at[f], fired), ep.at[f]), g, d) =
                   IF g = f /\ d \in fired THEN Nobody ELSE Holder(ep, g, d)
      <4>1. EpOK(ep) /\ f \in Fds /\ ep.at[f] # Null
        BY <1>0, <1>2, <1>3, <1>7
      <4>2. QED BY <4>1, RearmedStep
    <3>2. QED BY <1>7, <3>1
  <2> HIDE DEF e2, fired, f
  <2>7. BatchOK(e2, loop.events, readyFor)
    BY <1>1, <1>2, <1>3, <2>6, BatchRegStep
  <2>8. \A g \in Fds : e2.at[g] # Null /\ r = e2.at[g] => g = f
    BY <1>0, <1>2, <1>3, <1>7, <2>6 DEF RegStep
  <2>9. /\ BatchOK(e2, Tail(loop.events), readyFor) /\ EpOK(e2)
        /\ \A g \in Fds : r = e2.at[g] => Quiet(e2, Tail(loop.events), g)
    BY <1>0, <1>1, <2>6, <2>7, <2>8, BatchTail DEF RegStep
  <2>10. Quiet(e2, Tail(loop.events), f)
    <3>1. CASE e2.at[f] = Null
      BY <3>1 DEF Quiet
    <3>2. CASE e2.at[f] # Null
      BY <1>0, <1>2, <1>7, <2>6, <2>9, <3>2 DEF RegStep
    <3>3. QED BY <3>1, <3>2
  <2>11. ElTyped'
    BY <1>0, <2>5 DEF ElIInv, ElTyped
  <2>12. EpOK(ep)' /\ BatchOK(ep, loop.events, readyFor)'
    BY <1>0, <2>1, <2>5, <2>9
  <2>13. ElControl'
    BY <1>0, <2>5 DEF ElIInv, ElControl
  <2>14. HoldersFit' /\ OpsApart'
    BY <1>0, <2>1, <2>6 DEF ElIInv, HoldersFit, OpsApart, Waits
  <2>15. DueFit'
    <3> SUFFICES ASSUME NEW k \in Jobs, Contains(due, k)
                 PROVE  /\ job[k].at = "suspended" /\ Ready(k)
                        /\ Holder(e2, job[k].op.fd, job[k].op.dir) # k
                        /\ Quiet(e2, Tail(loop.events), job[k].op.fd)
      BY <1>0, <2>1, <2>4, <2>5 DEF DueFit, Ready
    <3>1. PICK d \in Directions : d \in fired /\ waiter[d] # Nobody /\ k = waiter[d]
      BY <2>4
    <3>2. job[k].at = "suspended" /\ job[k].op.fd = f /\ job[k].op.dir = d
      BY <2>3, <3>1
    <3>3. Ready(k)
      <4>1. v.signals \subseteq readyFor[f]
        BY <1>0, <1>1, <1>2, <1>3, <1>7 DEF BatchOK, Truthful
      <4>2. QED BY <3>1, <3>2, <4>1 DEF Ready, fired
    <3>4. Holder(e2, f, d) = Nobody
      BY <1>2, <2>6, <3>1
    <3>5. QED BY <2>10, <3>2, <3>3, <3>4, ElAssumption
  <2>16. Called'
    <3>1. \A k \in Jobs : Holder(ep, job[k].op.fd, job[k].op.dir) = k =>
             Holder(e2, job[k].op.fd, job[k].op.dir) = k \/ Contains(due, k)
      BY <1>5, <2>2, <2>4, <2>6, ElAssumption
    <3>2. QED BY <1>0, <1>4, <2>1, <2>5, <3>1, EmptyQueue DEF ElIInv, Called, TokenTold
  <2>17. NodesOnce' /\ NodesFit' /\ TokFit' /\ ResumedReady'
    BY <1>0, <1>4, <2>5 DEF ElIInv, NodesOnce, NodesFit, TokFit, Queued, TokenTold, ResumedReady
  <2>18. QED BY <2>11, <2>12, <2>13, <2>14, <2>15, <2>16, <2>17 DEF ElIInv
<1>8. QED BY <1>6, <1>7

LEMMA CallReadyElIInv ==
    ASSUME ElIInv, CallReady
    PROVE  ElIInv'
<1> DEFINE j == Head(loop.due)
<1>0. /\ UNCHANGED <<use, posts, ep, readyFor, canceller>> /\ onLoop = Nobody /\ loop.due # << >>
      /\ loop' = [loop EXCEPT !.due = Tail(loop.due)]
  BY DEF CallReady
<1>1. /\ j \in Jobs /\ Contains(loop.due, j) /\ Tail(loop.due) \in Seq(Jobs)
      /\ IsInjective(Tail(loop.due))
      /\ \A x : Contains(Tail(loop.due), x) <=> (x # j /\ Contains(loop.due, x))
  BY <1>0, TailQueue DEF ElIInv, ElTyped, LoopStates, DueFit
<1>2. /\ loop' \in LoopStates /\ loop'.at = "batch" /\ loop.at = "batch" /\ loop'.events = loop.events
      /\ loop'.chain = loop.chain /\ loop'.due = Tail(loop.due) /\ loop.chain = << >>
  BY <1>0, <1>1 DEF ElIInv, ElTyped, LoopStates, ElControl
<1>3. /\ job[j].at = "suspended" /\ Ready(j) /\ Holder(ep, job[j].op.fd, job[j].op.dir) # j
      /\ Quiet(ep, loop.events, job[j].op.fd)
  BY <1>1 DEF ElIInv, DueFit
<1>4. jobTok \in [Jobs -> JobTokens] /\ job \in [Jobs -> JobStates] /\ jobTok[j] \in JobTokens
  BY <1>1 DEF ElIInv, ElTyped
<1> HIDE DEF j
<1>5. CASE job[j].op.cancellable /\ ~Completes(jobTok[j], j) /\ UNCHANGED <<jobTok, onLoop, job>>
  <2>1. TokenTold(j)
    BY <1>1, <1>3, <1>5 DEF TokenTold, Completes, ElIInv, TokFit
  <2>2. ElTyped'
    BY <1>0, <1>2, <1>5 DEF ElIInv, ElTyped
  <2>3. EpOK(ep)' /\ BatchOK(ep, loop.events, readyFor)' /\ ElControl'
    BY <1>0, <1>2, <1>5 DEF ElIInv, ElControl
  <2>4. HoldersFit' /\ OpsApart' /\ ResumedReady'
    BY <1>0, <1>2, <1>5 DEF ElIInv, HoldersFit, OpsApart, ResumedReady, Waits, Ready
  <2>5. DueFit'
    BY <1>0, <1>1, <1>2, <1>5 DEF ElIInv, DueFit, Ready
  <2>6. Called'
    BY <1>0, <1>1, <1>2, <1>5, <2>1 DEF ElIInv, Called, TokenTold
  <2>7. NodesOnce' /\ NodesFit' /\ TokFit'
    BY <1>0, <1>2, <1>5 DEF ElIInv, NodesOnce, NodesFit, TokFit, Queued, TokenTold
  <2>8. QED BY <2>2, <2>3, <2>4, <2>5, <2>6, <2>7 DEF ElIInv
<1>6. CASE /\ onLoop' = j /\ job' = [job EXCEPT ![j].at = "resumed"]
           /\ \/ ~job[j].op.cancellable /\ UNCHANGED jobTok
              \/ /\ job[j].op.cancellable /\ Completes(jobTok[j], j)
                 /\ jobTok' = [jobTok EXCEPT ![j] = Retired(jobTok[j], j)]
  <2>1. OnlyJob(j) /\ job'[j].at = "resumed" /\ job'[j].op = job[j].op
    BY <1>1, <1>4, <1>6, JobMoves DEF JobPlaces
  <2>2. /\ OnlyToken(j) /\ jobTok'[j].op = Nobody /\ ~jobTok'[j].notify
        /\ jobTok'[j].cancelled = jobTok[j].cancelled
    <3>1. CASE ~job[j].op.cancellable /\ UNCHANGED jobTok
      BY <1>1, <1>4, <3>1 DEF OnlyToken, ElIInv, TokFit
    <3>2. CASE /\ job[j].op.cancellable /\ Completes(jobTok[j], j)
               /\ jobTok' = [jobTok EXCEPT ![j] = Retired(jobTok[j], j)]
      <4>1. /\ Retired(jobTok[j], j) \in JobTokens
            /\ Retired(jobTok[j], j).cancelled = jobTok[j].cancelled
            /\ Retired(jobTok[j], j).op = Nobody /\ ~Retired(jobTok[j], j).notify
        <5>1. jobTok[j].op = j
          BY <3>2 DEF Completes
        <5>2. QED BY <1>1, <1>4, <5>1 DEF Retired, JobTokens
      <4>2. QED BY <1>1, <1>4, <3>2, <4>1, TokenMoves
    <3>3. QED BY <1>6, <3>1, <3>2
  <2>3. ~TokenTold(j)
    BY <1>6 DEF TokenTold, Completes
  <2>4. \A k \in Jobs : job[k].at \notin {"running", "adding", "resumed"}
    BY <1>0, ElAssumption DEF ElIInv, ElControl
  <2>5. \A k \in Jobs : k # j => job'[k] = job[k] /\ jobTok'[k] = jobTok[k]
    BY <2>1, <2>2 DEF OnlyJob, OnlyToken
  <2>6. ElTyped'
    BY <1>0, <1>1, <1>2, <1>6, <2>1, <2>2 DEF ElIInv, ElTyped, OnlyJob, OnlyToken
  <2>7. EpOK(ep)' /\ BatchOK(ep, loop.events, readyFor)'
    BY <1>0, <1>2 DEF ElIInv
  <2>8. ElControl'
    BY <1>0, <1>1, <1>2, <1>6, <2>1, <2>4, <2>5, ElAssumption DEF ElIInv, ElControl
  <2>9. HoldersFit'
    BY <1>0, <1>1, <1>3, <2>5 DEF ElIInv, HoldersFit, Waits
  <2>10. OpsApart'
    BY <1>1, <1>3, <2>1, <2>5 DEF ElIInv, OpsApart
  <2>11. DueFit'
    BY <1>0, <1>1, <1>2, <2>5 DEF ElIInv, DueFit, Ready
  <2>12. Called'
    BY <1>0, <1>1, <1>2, <2>1, <2>5 DEF ElIInv, Called, TokenTold
  <2>13. NodesOnce'
    BY <1>0, <1>2 DEF ElIInv, NodesOnce
  <2>14. NodesFit'
    BY <1>0, <1>2, <1>3, <2>1, <2>3, <2>5 DEF ElIInv, NodesFit, Queued, TokenTold
  <2>15. TokFit'
    BY <1>1, <2>1, <2>2, <2>5, ElAssumption DEF ElIInv, TokFit
  <2>16. ResumedReady'
    BY <1>0, <1>2, <1>3, <2>1, <2>4, <2>5 DEF ResumedReady, Ready
  <2>17. QED BY <2>6, <2>7, <2>8, <2>9, <2>10, <2>11, <2>12, <2>13, <2>14, <2>15, <2>16 DEF ElIInv
<1>7. QED BY <1>5, <1>6 DEF CallReady, Resumed, j

LEMMA DispatchElIInv ==
    ASSUME ElIInv, DispatchNode
    PROVE  ElIInv'
<1> DEFINE n == Head(loop.chain)
           j == n.job
<1>0. /\ UNCHANGED <<use, posts, readyFor, jobTok, canceller>> /\ loop.at = "drain"
      /\ onLoop = Nobody /\ loop.chain # << >> /\ loop' = [loop EXCEPT !.chain = Tail(loop.chain)]
      /\ onLoop' = j
  BY DEF DispatchNode, Resumed
<1>1. /\ n \in PostNodes /\ Contains(loop.chain, n) /\ Tail(loop.chain) \in Seq(PostNodes)
      /\ IsInjective(Tail(loop.chain))
      /\ \A x : Contains(Tail(loop.chain), x) <=> (x # n /\ Contains(loop.chain, x))
  BY <1>0, TailQueue DEF ElIInv, ElTyped, LoopStates, NodesOnce
<1>2. /\ loop' \in LoopStates /\ loop'.at = "drain" /\ loop'.events = loop.events
      /\ loop'.chain = Tail(loop.chain) /\ loop'.due = << >> /\ loop.due = << >>
  BY <1>0, <1>1 DEF ElIInv, ElTyped, LoopStates, ElControl
<1>3. /\ j \in Jobs /\ n = Node(n.kind, j) /\ n.kind \in {"coroutine", "cancelled"}
      /\ jobTok \in [Jobs -> JobTokens] /\ job \in [Jobs -> JobStates]
  BY <1>1 DEF ElIInv, ElTyped, PostNodes, Node
<1>4. \A k \in Jobs : job[k].at \notin {"running", "adding", "resumed"}
  BY <1>0, ElAssumption DEF ElIInv, ElControl
<1>5. \A k \in Jobs : job[k].op.fd \in Fds /\ job[k].op.dir \in Directions
  BY DEF ElIInv, ElTyped, JobStates, ElOperations
<1>6. \A x \in PostNodes : Queued(x)' <=> x # n /\ Queued(x)
  BY <1>0, <1>1, <1>2 DEF ElIInv, NodesOnce, Queued
<1>7. NodesOnce'
  BY <1>0, <1>1, <1>2 DEF ElIInv, NodesOnce
<1>8. \A k \in Jobs : /\ Node("coroutine", k) \in PostNodes /\ Node("cancelled", k) \in PostNodes
                      /\ Node("coroutine", k) = n <=> n.kind = "coroutine" /\ k = j
                      /\ Node("cancelled", k) = n <=> n.kind = "cancelled" /\ k = j
  BY <1>1, <1>3 DEF Node, PostNodes
<1>9. Queued(n)
  BY <1>1 DEF Queued
<1> HIDE DEF n, j
<1>10. CASE n.kind = "coroutine" /\ job' = [job EXCEPT ![j].at = "running"] /\ UNCHANGED ep
  <2>1. OnlyJob(j) /\ job'[j].at = "running" /\ job'[j].op = job[j].op
    BY <1>3, <1>10, JobMoves DEF JobPlaces
  <2>2. job[j].at = "posted"
    BY <1>3, <1>9, <1>10 DEF ElIInv, NodesFit
  <2>3. \A k \in Jobs : k # j => job'[k] = job[k]
    BY <2>1 DEF OnlyJob
  <2>4. ElTyped'
    BY <1>0, <1>2, <1>3, <2>1 DEF ElIInv, ElTyped, OnlyJob
  <2>5. EpOK(ep)' /\ BatchOK(ep, loop.events, readyFor)'
    BY <1>0, <1>2, <1>10 DEF ElIInv
  <2>6. ElControl'
    BY <1>0, <1>2, <1>3, <1>4, <2>1, <2>3, ElAssumption DEF ElIInv, ElControl
  <2>7. HoldersFit' /\ OpsApart'
    BY <1>3, <1>10, <2>1, <2>2, <2>3 DEF ElIInv, HoldersFit, OpsApart, Waits
  <2>8. DueFit' /\ ResumedReady'
    BY <1>2, <1>4, <2>1, <2>3, EmptyQueue DEF DueFit, ResumedReady
  <2>9. Called'
    BY <1>0, <1>2, <1>10, <2>1, <2>3 DEF ElIInv, Called, TokenTold
  <2>10. NodesFit'
    BY <1>0, <1>6, <1>8, <1>10, <2>1, <2>2, <2>3 DEF ElIInv, NodesFit, TokenTold
  <2>11. TokFit'
    BY <1>0, <1>3, <2>1, <2>2, <2>3 DEF ElIInv, TokFit
  <2>12. QED BY <1>7, <2>4, <2>5, <2>6, <2>7, <2>8, <2>9, <2>10, <2>11 DEF ElIInv
<1>11. CASE n.kind = "cancelled" /\ job' = [job EXCEPT ![j].at = "resumed"] /\ ep' = Cancelled(j)
  <2> DEFINE f == job[j].op.fd
             d == job[j].op.dir
  <2>1. OnlyJob(j) /\ job'[j].at = "resumed" /\ job'[j].op = job[j].op
    BY <1>3, <1>11, JobMoves DEF JobPlaces
  <2>2. job[j].at = "suspended" /\ job[j].op.cancellable /\ ~jobTok[j].notify
    BY <1>3, <1>9, <1>11 DEF ElIInv, NodesFit, TokenTold
  <2>3. jobTok[j].op = j /\ jobTok[j].cancelled
    BY <1>3, <2>2 DEF ElIInv, TokFit
  <2>4. \A k \in Jobs : k # j => job'[k] = job[k]
    BY <2>1 DEF OnlyJob
  <2>5. f \in Fds /\ d \in Directions /\ ep' = Removed(ep, f, d, j) /\ EpOK(ep)
    BY <1>3, <1>5, <1>11 DEF Cancelled, ElIInv
  <2> HIDE DEF f, d
  <2>6. /\ ep.at[f] = Null => ep' = ep
        /\ ep.at[f] # Null => RegStep(ep, ep', f)
        /\ \A g \in Fds, c \in Directions :
             Holder(ep', g, c) = IF g = f /\ c = d /\ Holder(ep, f, d) = j THEN Nobody ELSE Holder(ep, g, c)
    BY <1>3, <2>5, RemovedStep
  <2>7. loop.events \in Seq(LoopEvents) /\ BatchOK(ep, loop.events, readyFor)
    BY DEF ElIInv, ElTyped, LoopStates
  <2>8. EpOK(ep') /\ BatchOK(ep', loop.events, readyFor)
    <3>1. CASE ep.at[f] = Null
      BY <2>5, <2>6, <2>7, <3>1
    <3>2. CASE ep.at[f] # Null
      BY <2>5, <2>6, <2>7, <3>2, BatchRegStep DEF RegStep
    <3>3. QED BY <3>1, <3>2
  <2>9. ElTyped'
    BY <1>0, <1>2, <1>3, <2>1 DEF ElIInv, ElTyped, OnlyJob
  <2>10. EpOK(ep)' /\ BatchOK(ep, loop.events, readyFor)'
    BY <1>0, <1>2, <2>8
  <2>11. ElControl'
    BY <1>0, <1>2, <1>3, <1>4, <2>1, <2>4, ElAssumption DEF ElIInv, ElControl
  <2>12. HoldersFit'
    <3>1. \A g \in Fds, c \in Directions : Holder(ep', g, c) # Nobody => Holder(ep', g, c) = Holder(ep, g, c)
      BY <2>6
    <3>2. \A g \in Fds, c \in Directions : Holder(ep, g, c) = j => g = f /\ c = d
      BY <1>3, ElAssumption DEF ElIInv, HoldersFit, f, d
    <3>3. \A g \in Fds, c \in Directions : Holder(ep', g, c) # j
      BY <1>3, <2>6, <3>2, ElAssumption
    <3>4. QED BY <2>4, <3>1, <3>3 DEF ElIInv, HoldersFit, Waits
  <2>13. OpsApart'
    BY <1>3, <2>1, <2>2, <2>4 DEF ElIInv, OpsApart
  <2>14. DueFit' /\ ResumedReady'
    BY <1>0, <1>2, <1>4, <2>1, <2>2, <2>3, <2>4, EmptyQueue DEF DueFit, ResumedReady
  <2>15. Called'
    <3>1. \A k \in Jobs : k # j /\ Holder(ep, job[k].op.fd, job[k].op.dir) = k =>
             Holder(ep', job[k].op.fd, job[k].op.dir) = k
      BY <1>5, <2>6
    <3>2. QED BY <1>0, <1>2, <2>1, <2>4, <3>1 DEF ElIInv, Called, TokenTold
  <2>16. NodesFit'
    BY <1>0, <1>6, <1>8, <1>11, <2>1, <2>2, <2>4 DEF ElIInv, NodesFit, TokenTold
  <2>17. TokFit'
    BY <1>0, <1>3, <2>1, <2>2, <2>3, <2>4 DEF ElIInv, TokFit
  <2>18. QED BY <1>7, <2>9, <2>10, <2>11, <2>12, <2>13, <2>14, <2>15, <2>16, <2>17 DEF ElIInv
<1>12. QED BY <1>10, <1>11 DEF DispatchNode, Resumed, n, j

-----------------------------------------------------------------------------
(* Steps of the coroutine that runs on the loop.                            *)
LEMMA RunningFrame ==
    ASSUME ElIInv, NEW j \in Jobs, onLoop = j, job[j].at = "running", OnlyJob(j),
           NEW at \in {"posted", "away", "done", "running"}, job'[j].at = at,
           onLoop' = IF at = "running" THEN j ELSE Nobody,
           posts' = IF at = "posted" THEN <<Node("coroutine", j)>> \o posts ELSE posts,
           UNCHANGED <<use, loop, ep, readyFor, jobTok, canceller>>
    PROVE  ElIInv'
<1> DEFINE n == Node("coroutine", j)
<1>1. \A k \in Jobs : k # j => job'[k] = job[k] /\ job[k].at \notin {"running", "adding", "resumed"}
  BY DEF OnlyJob, ElIInv, ElControl
<1>2. n \in PostNodes /\ ~Queued(n)
  BY DEF Node, PostNodes, ElIInv, NodesFit
<1>3. /\ posts' \in Seq(PostNodes) /\ IsInjective(posts')
      /\ \A x : Contains(posts', x) <=> (at = "posted" /\ x = n) \/ Contains(posts, x)
  <2>1. CASE at = "posted"
    BY <1>2, <2>1, PushQueue DEF ElIInv, ElTyped, NodesOnce, Queued
  <2>2. CASE at # "posted"
    BY <2>2 DEF ElIInv, ElTyped, NodesOnce
  <2>3. QED BY <2>1, <2>2
<1>4. ElTyped'
  BY <1>3 DEF ElIInv, ElTyped, OnlyJob
<1>5. EpOK(ep)' /\ BatchOK(ep, loop.events, readyFor)'
  BY DEF ElIInv
<1>6. ElControl'
  BY <1>1, ElAssumption DEF ElIInv, ElControl
<1>7. HoldersFit' /\ OpsApart'
  BY <1>1 DEF ElIInv, HoldersFit, OpsApart, Waits
<1>8. DueFit' /\ Called' /\ ResumedReady'
  BY <1>1 DEF ElIInv, DueFit, Called, ResumedReady, TokenTold, Ready
<1>9. NodesOnce'
  BY <1>2, <1>3 DEF ElIInv, NodesOnce, Queued
<1>10. NodesFit'
  <2> SUFFICES ASSUME NEW k \in Jobs
               PROVE  /\ Queued(Node("coroutine", k))' => job'[k].at = "posted"
                      /\ Queued(Node("cancelled", k))' <=> job'[k].at = "suspended" /\ TokenTold(k)'
    BY DEF NodesFit
  <2>1. Queued(Node("coroutine", k))' <=> (at = "posted" /\ k = j) \/ Queued(Node("coroutine", k))
    BY <1>3 DEF Queued, Node
  <2>2. Queued(Node("cancelled", k))' = Queued(Node("cancelled", k))
    BY <1>3 DEF Queued, Node
  <2>3. QED BY <1>1, <2>1, <2>2 DEF ElIInv, NodesFit, TokenTold
<1>11. TokFit'
  BY <1>1, ElAssumption DEF ElIInv, TokFit
<1>12. QED BY <1>4, <1>5, <1>6, <1>7, <1>8, <1>9, <1>10, <1>11 DEF ElIInv

LEMMA LeavesElIInv ==
    ASSUME ElIInv, NEW j \in Jobs, PostAgain(j) \/ FileOperation(j) \/ EndJob(j)
    PROVE  ElIInv'
<1>0. job \in [Jobs -> JobStates] /\ NoOperation \in ElOperations /\ job[j].left \in Int
  BY ElAssumption DEF ElIInv, ElTyped, NoOperation, ElOperations, Directions, JobStates
<1>1. CASE PostAgain(j)
  <2>1. OnlyJob(j) /\ job'[j].at = "posted"
    BY <1>0, <1>1 DEF PostAgain, OnlyJob, JobStates, JobPlaces
  <2>2. QED BY <1>1, <2>1, RunningFrame DEF PostAgain, Node
<1>2. CASE FileOperation(j)
  <2>1. OnlyJob(j) /\ job'[j].at = "away"
    BY <1>0, <1>2 DEF FileOperation, OnlyJob, JobStates, JobPlaces
  <2>2. QED BY <1>2, <2>1, RunningFrame DEF FileOperation
<1>3. CASE EndJob(j)
  <2>1. OnlyJob(j) /\ job'[j].at = "done"
    BY <1>0, <1>3 DEF EndJob, OnlyJob, JobStates, JobPlaces
  <2>2. QED BY <1>3, <2>1, RunningFrame DEF EndJob
<1>4. QED BY <1>1, <1>2, <1>3

(* An operation that starts: nobody else waits for that descriptor in that  *)
(* direction, so no waiter is lost.                                         *)
LEMMA AwaitElIInv ==
    ASSUME ElIInv, NEW j \in Jobs, NEW op \in use.awaits[j], Await(j, op)
    PROVE  ElIInv'
<1>0. /\ onLoop = j /\ job[j].at = "running" /\ ~InUse(op.fd, op.dir)
      /\ UNCHANGED <<use, posts, loop, readyFor, jobTok, canceller>>
  BY DEF Await
<1>1. /\ op \in ElOperations /\ op.fd \in Fds /\ op.dir \in Directions
      /\ job \in [Jobs -> JobStates] /\ job[j].left \in Int
      /\ loop.events \in Seq(LoopEvents)
  <2>1. op \in ElOperations
    BY ElAssumption DEF ElIInv, ElTyped
  <2>2. QED BY <2>1 DEF ElIInv, ElTyped, JobStates, ElOperations, LoopStates
<1>2. \A k \in Jobs : k # j => job[k].at \notin {"running", "adding", "resumed"}
  BY <1>0 DEF ElIInv, ElControl
<1>3. CASE job' = [job EXCEPT ![j].left = job[j].left - 1] /\ UNCHANGED <<ep, onLoop>>
  <2>1. OnlyJob(j) /\ job'[j].at = "running"
    BY <1>0, <1>1, <1>3 DEF OnlyJob, JobStates
  <2>2. QED BY <1>0, <1>3, <2>1, RunningFrame
<1>4. ASSUME NEW at \in {"adding", "suspended"}, HasMemory(op.fd),
             ep' = Added(ep, op.fd, op.dir, j),
             job' = [job EXCEPT ![j] = [at |-> at, op |-> op, left |-> job[j].left - 1]],
             onLoop' = IF at = "adding" THEN j ELSE Nobody,
             op.cancellable <=> at = "adding"
      PROVE  ElIInv'
  <2>1. OnlyJob(j) /\ job'[j].at = at /\ job'[j].op = op
    BY <1>1, <1>4 DEF OnlyJob, JobStates, JobPlaces
  <2>2. \A k \in Jobs : k # j => job'[k] = job[k]
    BY <2>1 DEF OnlyJob
  <2>3. /\ RegStep(ep, ep', op.fd)
        /\ \A g \in Fds, c \in Directions :
             Holder(ep', g, c) = IF g = op.fd /\ c = op.dir THEN j ELSE Holder(ep, g, c)
    <3>1. EpOK(ep) /\ (ep.at[op.fd] # Null \/ Unused(ep) # {})
      BY <1>4 DEF ElIInv, HasMemory
    <3>2. QED BY <1>1, <1>4, <3>1, AddedStep
  <2>4. /\ EpOK(ep') /\ BatchOK(ep', loop.events, readyFor)
        /\ \A g \in Fds : Quiet(ep, loop.events, g) => Quiet(ep', loop.events, g)
    BY <1>1, <2>3, BatchRegStep DEF ElIInv, RegStep
  <2>5. \A k \in Jobs : job[k].at \in {"adding", "suspended", "resumed"} =>
           ~(job[k].op.fd = op.fd /\ job[k].op.dir = op.dir)
    BY <1>0 DEF InUse
  <2>6. \A k \in Jobs : /\ job[k].op.fd \in Fds /\ job[k].op.dir \in Directions
    BY <1>1 DEF JobStates, ElOperations
  <2>7. ~jobTok[j].notify /\ jobTok[j].op # j
    BY <1>0 DEF ElIInv, TokFit
  <2>8. ElTyped'
    BY <1>0, <1>4, <2>1 DEF ElIInv, ElTyped, OnlyJob
  <2>9. EpOK(ep)' /\ BatchOK(ep, loop.events, readyFor)'
    BY <1>0, <2>4
  <2>10. ElControl'
    BY <1>0, <1>2, <1>4, <2>1, <2>2, ElAssumption DEF ElIInv, ElControl
  <2>11. HoldersFit'
    <3>1. \A g \in Fds, c \in Directions :
             LET k == Holder(ep, g, c) IN k # Nobody => k \in Jobs /\ k # j
      BY <1>0 DEF ElIInv, HoldersFit, Waits
    <3>2. QED BY <1>1, <2>1, <2>2, <2>3, <3>1 DEF ElIInv, HoldersFit, Waits
  <2>12. OpsApart'
    BY <2>1, <2>2, <2>5 DEF ElIInv, OpsApart
  <2>13. DueFit'
    <3> SUFFICES ASSUME NEW k \in Jobs, Contains(loop.due, k)
                 PROVE  /\ job'[k].at = "suspended" /\ Ready(k)'
                        /\ Holder(ep', job'[k].op.fd, job'[k].op.dir) # k
                        /\ Quiet(ep', loop.events, job'[k].op.fd)
      BY <1>0 DEF ElIInv, DueFit
    <3>1. /\ job[k].at = "suspended" /\ Ready(k)
          /\ Holder(ep, job[k].op.fd, job[k].op.dir) # k /\ Quiet(ep, loop.events, job[k].op.fd)
      BY DEF ElIInv, DueFit
    <3>2. k # j
      BY <1>0, <3>1
    <3>3. QED BY <1>0, <2>2, <2>3, <2>4, <2>6, <3>1, <3>2 DEF Ready
  <2>14. Called'
    <3>1. \A k \in Jobs : k # j /\ job[k].at = "suspended" =>
             Holder(ep', job[k].op.fd, job[k].op.dir) = Holder(ep, job[k].op.fd, job[k].op.dir)
      BY <2>3, <2>5, <2>6
    <3>2. Holder(ep', op.fd, op.dir) = j
      BY <1>1, <2>3
    <3>3. QED BY <1>0, <1>2, <2>1, <2>2, <3>1, <3>2 DEF ElIInv, Called, TokenTold
  <2>15. NodesOnce'
    BY <1>0 DEF ElIInv, NodesOnce
  <2>16. NodesFit'
    BY <1>0, <1>4, <2>1, <2>2 DEF ElIInv, NodesFit, TokenTold, Queued
  <2>17. TokFit'
    BY <1>0, <1>4, <2>1, <2>2, <2>7 DEF ElIInv, TokFit
  <2>18. ResumedReady'
    BY <1>2, <2>1, <2>2 DEF ResumedReady
  <2>19. QED BY <2>8, <2>9, <2>10, <2>11, <2>12, <2>13, <2>14, <2>15, <2>16, <2>17, <2>18 DEF ElIInv
<1>5. QED BY <1>3, <1>4 DEF Await

(* The registration with the token, which may find it cancelled.            *)
LEMMA RegisterElIInv ==
    ASSUME ElIInv, NEW j \in Jobs, RegisterAwaiter(j)
    PROVE  ElIInv'
<1> DEFINE f == job[j].op.fd
           d == job[j].op.dir
<1>0. /\ onLoop = j /\ job[j].at = "adding"
      /\ UNCHANGED <<use, posts, loop, readyFor, canceller>>
      /\ jobTok' = [jobTok EXCEPT ![j] = Registered(jobTok[j], j)]
  BY DEF RegisterAwaiter
<1>1. /\ job \in [Jobs -> JobStates] /\ jobTok \in [Jobs -> JobTokens] /\ jobTok[j] \in JobTokens
      /\ f \in Fds /\ d \in Directions /\ loop.events \in Seq(LoopEvents)
  BY DEF ElIInv, ElTyped, JobStates, ElOperations, LoopStates
<1>2. \A k \in Jobs : k # j => job[k].at \notin {"running", "adding", "resumed"}
  BY <1>0 DEF ElIInv, ElControl
<1>3. /\ OnlyToken(j) /\ jobTok'[j].cancelled = jobTok[j].cancelled
      /\ IF jobTok[j].cancelled THEN jobTok'[j] = jobTok[j] ELSE jobTok'[j].op = j /\ jobTok'[j].notify
  <2>1. LET u == Registered(jobTok[j], j)
        IN u \in JobTokens /\ u.cancelled = jobTok[j].cancelled
           /\ IF jobTok[j].cancelled THEN u = jobTok[j] ELSE u.op = j /\ u.notify
    BY <1>1, JobTokenSteps
  <2>2. QED BY <1>0, <1>1, <2>1, TokenMoves
<1>4. /\ job[j].op.cancellable /\ ~jobTok[j].notify /\ jobTok[j].op # j
      /\ Holder(ep, f, d) = j
  BY <1>0 DEF ElIInv, TokFit, Called
<1>5. \A k \in Jobs : job[k].op.fd \in Fds /\ job[k].op.dir \in Directions
  BY <1>1 DEF JobStates, ElOperations
<1>6. CASE /\ ~jobTok[j].cancelled /\ job' = [job EXCEPT ![j].at = "suspended"]
           /\ onLoop' = Nobody /\ UNCHANGED ep
  <2>1. OnlyJob(j) /\ job'[j].at = "suspended" /\ job'[j].op = job[j].op
    BY <1>1, <1>6, JobMoves DEF JobPlaces
  <2>2. \A k \in Jobs : k # j => job'[k] = job[k] /\ jobTok'[k] = jobTok[k]
    BY <1>3, <2>1 DEF OnlyJob, OnlyToken
  <2>3. ElTyped'
    BY <1>0, <1>3, <1>6, <2>1 DEF ElIInv, ElTyped, OnlyJob, OnlyToken
  <2>4. EpOK(ep)' /\ BatchOK(ep, loop.events, readyFor)'
    BY <1>0, <1>6 DEF ElIInv
  <2>5. ElControl'
    BY <1>0, <1>2, <1>6, <2>1, <2>2, ElAssumption DEF ElIInv, ElControl
  <2>6. HoldersFit' /\ OpsApart'
    BY <1>0, <1>6, <2>1, <2>2 DEF ElIInv, HoldersFit, OpsApart, Waits
  <2>7. DueFit'
    BY <1>0, <1>6, <2>2 DEF ElIInv, DueFit, Ready
  <2>8. Called'
    BY <1>0, <1>4, <1>6, <2>1, <2>2 DEF ElIInv, Called, TokenTold
  <2>9. NodesOnce'
    BY <1>0 DEF ElIInv, NodesOnce
  <2>10. NodesFit'
    BY <1>0, <1>3, <1>6, <2>1, <2>2 DEF ElIInv, NodesFit, TokenTold, Queued
  <2>11. TokFit'
    BY <1>0, <1>3, <1>4, <1>6, <2>1, <2>2 DEF ElIInv, TokFit
  <2>12. ResumedReady'
    BY <1>2, <2>1, <2>2 DEF ResumedReady
  <2>13. QED BY <2>3, <2>4, <2>5, <2>6, <2>7, <2>8, <2>9, <2>10, <2>11, <2>12 DEF ElIInv
<1>7. CASE /\ jobTok[j].cancelled /\ job' = [job EXCEPT ![j].at = "running"] /\ UNCHANGED onLoop
           /\ ep' = Removed(ep, f, d, j)
  <2>1. OnlyJob(j) /\ job'[j].at = "running" /\ job'[j].op = job[j].op
    BY <1>1, <1>7, JobMoves DEF JobPlaces
  <2>2. \A k \in Jobs : jobTok'[k] = jobTok[k] /\ (k # j => job'[k] = job[k])
    BY <1>3, <1>7, <2>1 DEF OnlyJob, OnlyToken
  <2>a. EpOK(ep) /\ BatchOK(ep, loop.events, readyFor)
    BY DEF ElIInv
  <2> HIDE DEF f, d
  <2>3. /\ ep.at[f] = Null => ep' = ep
        /\ ep.at[f] # Null => RegStep(ep, ep', f)
        /\ \A g \in Fds, c \in Directions :
             Holder(ep', g, c) = IF g = f /\ c = d THEN Nobody ELSE Holder(ep, g, c)
    BY <1>1, <1>4, <1>7, <2>a, RemovedStep
  <2>4. /\ EpOK(ep') /\ BatchOK(ep', loop.events, readyFor)
        /\ \A g \in Fds : Quiet(ep, loop.events, g) => Quiet(ep', loop.events, g)
    <3>1. CASE ep.at[f] = Null
      BY <2>3, <2>a, <3>1
    <3>2. CASE ep.at[f] # Null
      BY <1>1, <2>3, <2>a, <3>2, BatchRegStep DEF RegStep
    <3>3. QED BY <3>1, <3>2
  <2>5. \A k \in Jobs : k # j /\ job[k].at = "suspended" =>
           Holder(ep', job[k].op.fd, job[k].op.dir) = Holder(ep, job[k].op.fd, job[k].op.dir)
    <3>1. \A k \in Jobs : k # j /\ job[k].at = "suspended" => ~(job[k].op.fd = f /\ job[k].op.dir = d)
      BY <1>0 DEF ElIInv, OpsApart, f, d
    <3>2. QED BY <1>5, <2>3, <3>1
  <2>6. ElTyped'
    BY <1>0, <1>3, <1>7, <2>1 DEF ElIInv, ElTyped, OnlyJob, OnlyToken
  <2>7. EpOK(ep)' /\ BatchOK(ep, loop.events, readyFor)'
    BY <1>0, <2>4
  <2>8. ElControl'
    BY <1>0, <1>7, <2>1, <2>2 DEF ElIInv, ElControl
  <2>9. HoldersFit'
    <3>1. \A g \in Fds, c \in Directions : Holder(ep, g, c) = j => g = f /\ c = d
      BY ElAssumption DEF ElIInv, HoldersFit, f, d
    <3>2. QED BY <2>2, <2>3, <3>1 DEF ElIInv, HoldersFit, Waits
  <2>10. OpsApart'
    BY <2>1, <2>2 DEF ElIInv, OpsApart
  <2>11. DueFit'
    <3> SUFFICES ASSUME NEW k \in Jobs, Contains(loop.due, k)
                 PROVE  /\ job'[k].at = "suspended" /\ Ready(k)'
                        /\ Holder(ep', job'[k].op.fd, job'[k].op.dir) # k
                        /\ Quiet(ep', loop.events, job'[k].op.fd)
      BY <1>0 DEF ElIInv, DueFit
    <3>1. /\ job[k].at = "suspended" /\ Ready(k)
          /\ Holder(ep, job[k].op.fd, job[k].op.dir) # k /\ Quiet(ep, loop.events, job[k].op.fd)
      BY DEF ElIInv, DueFit
    <3>2. QED BY <1>0, <1>5, <2>2, <2>4, <2>5, <3>1 DEF Ready
  <2>12. Called'
    BY <1>0, <1>2, <2>1, <2>2, <2>5 DEF ElIInv, Called, TokenTold
  <2>13. NodesOnce'
    BY <1>0 DEF ElIInv, NodesOnce
  <2>14. NodesFit'
    BY <1>0, <2>1, <2>2 DEF ElIInv, NodesFit, TokenTold, Queued
  <2>15. TokFit'
    BY <1>0, <1>4, <2>1, <2>2 DEF ElIInv, TokFit
  <2>16. ResumedReady'
    BY <1>2, <2>1, <2>2 DEF ResumedReady
  <2>17. QED BY <2>6, <2>7, <2>8, <2>9, <2>10, <2>11, <2>12, <2>13, <2>14, <2>15, <2>16 DEF ElIInv
<1>8. QED BY <1>6, <1>7 DEF RegisterAwaiter

(* The operation after its resumption; it may consume the readiness, which  *)
(* no event of the batch still claims.                                      *)
LEMMA AfterAwaitElIInv ==
    ASSUME ElIInv, NEW j \in Jobs, AfterAwait(j)
    PROVE  ElIInv'
<1> DEFINE f == job[j].op.fd
           d == job[j].op.dir
<1>0. /\ onLoop = j /\ job[j].at = "resumed" /\ job' = [job EXCEPT ![j].at = "running"]
      /\ UNCHANGED <<use, posts, loop, ep, onLoop, canceller>>
      /\ jobTok' = IF job[j].op.cancellable THEN [jobTok EXCEPT ![j] = Retired(jobTok[j], j)] ELSE jobTok
  BY DEF AfterAwait
<1>1. /\ job \in [Jobs -> JobStates] /\ jobTok \in [Jobs -> JobTokens] /\ jobTok[j] \in JobTokens
      /\ f \in Fds /\ d \in Directions
      /\ readyFor \in [Fds -> SUBSET (Directions \cup {"hup"})]
  BY DEF ElIInv, ElTyped, JobStates, ElOperations
<1>2. \A k \in Jobs : k # j => job[k].at \notin {"running", "adding", "resumed"}
  BY <1>0 DEF ElIInv, ElControl
<1>3. OnlyJob(j) /\ job'[j].at = "running" /\ job'[j].op = job[j].op
  BY <1>0, <1>1, JobMoves DEF JobPlaces
<1>4. OnlyToken(j) /\ jobTok'[j].op # j /\ ~jobTok'[j].notify /\ jobTok'[j].op = Nobody
  <2>1. CASE job[j].op.cancellable
    <3>1. jobTok' = [jobTok EXCEPT ![j] = Retired(jobTok[j], j)]
      BY <1>0, <2>1
    <3>2. CASE jobTok[j].op = j
      <4>1. /\ Retired(jobTok[j], j) \in JobTokens
            /\ Retired(jobTok[j], j).op = Nobody /\ ~Retired(jobTok[j], j).notify
        BY <1>1, <3>2 DEF Retired, JobTokens
      <4>2. QED BY <1>1, <3>1, <4>1, TokenMoves, ElAssumption
    <3>3. CASE jobTok[j].op # j
      <4>1. jobTok[j].op = Nobody /\ ~jobTok[j].notify
        BY <3>3 DEF ElIInv, TokFit
      <4>2. Retired(jobTok[j], j) = jobTok[j]
        BY <3>3 DEF Retired
      <4>3. OnlyToken(j) /\ jobTok'[j] = jobTok[j]
        BY <1>1, <3>1, <4>2, TokenMoves
      <4>4. QED BY <4>1, <4>3, ElAssumption
    <3>4. QED BY <3>2, <3>3
  <2>2. CASE ~job[j].op.cancellable
    BY <1>0, <1>1, <2>2, ElAssumption DEF OnlyToken, ElIInv, TokFit
  <2>3. QED BY <2>1, <2>2
<1>5. \A k \in Jobs : k # j => job'[k] = job[k] /\ jobTok'[k] = jobTok[k]
  BY <1>3, <1>4 DEF OnlyJob, OnlyToken
<1>6. /\ readyFor' \in [Fds -> SUBSET (Directions \cup {"hup"})]
      /\ \A g \in Fds : g # f => readyFor'[g] = readyFor[g]
      /\ readyFor[f] \ {d} \subseteq readyFor'[f]
      /\ readyFor' # readyFor => Quiet(ep, loop.events, f)
  <2>1. CASE job[j].op.cancellable /\ jobTok[j].cancelled /\ UNCHANGED readyFor
    BY <1>1, <2>1
  <2>2. CASE /\ job[j].op.cancellable => ~jobTok[j].cancelled
             /\ \E rest \in {readyFor[f], readyFor[f] \ {d}} : readyFor' = [readyFor EXCEPT ![f] = rest]
    <3>1. Quiet(ep, loop.events, f)
      BY <1>0, <2>2 DEF ElIInv, ResumedReady
    <3>2. PICK rest : rest \in {readyFor[f], readyFor[f] \ {d}} /\ readyFor' = [readyFor EXCEPT ![f] = rest]
      BY <2>2
    <3> HIDE DEF f, d
    <3>3. rest \in SUBSET (Directions \cup {"hup"}) /\ readyFor[f] \ {d} \subseteq rest
      BY <1>1, <3>2
    <3>4. /\ readyFor' \in [Fds -> SUBSET (Directions \cup {"hup"})]
          /\ \A g \in Fds : g # f => readyFor'[g] = readyFor[g]
          /\ readyFor'[f] = rest
      BY <1>1, <3>2, <3>3
    <3>5. QED BY <3>1, <3>3, <3>4
  <2>3. QED BY <2>1, <2>2 DEF AfterAwait
<1>7. ElTyped'
  BY <1>0, <1>3, <1>4, <1>6 DEF ElIInv, ElTyped, OnlyJob, OnlyToken
<1>8. EpOK(ep)' /\ BatchOK(ep, loop.events, readyFor)'
  <2> HIDE DEF f, d
  <2>1. Truthful(ep, loop.events, readyFor')
    BY <1>6 DEF ElIInv, BatchOK, Truthful, Quiet
  <2>2. QED BY <1>0, <2>1 DEF ElIInv, BatchOK
<1>9. ElControl'
  BY <1>0, <1>3, <1>5 DEF ElIInv, ElControl
<1>10. HoldersFit' /\ OpsApart'
  BY <1>0, <1>3, <1>5 DEF ElIInv, HoldersFit, OpsApart, Waits
<1>11. DueFit'
  <2> SUFFICES ASSUME NEW k \in Jobs, Contains(loop.due, k)
               PROVE  /\ job'[k].at = "suspended" /\ Ready(k)'
                      /\ Holder(ep, job'[k].op.fd, job'[k].op.dir) # k
                      /\ Quiet(ep, loop.events, job'[k].op.fd)
    BY <1>0 DEF ElIInv, DueFit
  <2>1. /\ job[k].at = "suspended" /\ Ready(k)
        /\ Holder(ep, job[k].op.fd, job[k].op.dir) # k /\ Quiet(ep, loop.events, job[k].op.fd)
    BY DEF ElIInv, DueFit
  <2>2. k # j /\ job[k].op.fd \in Fds
    BY <1>0, <1>1, <2>1 DEF JobStates, ElOperations
  <2>3. job[k].op.fd = f => job[k].op.dir # d
    BY <1>0, <2>1, <2>2 DEF ElIInv, OpsApart
  <2>4. Ready(k)'
    <3> HIDE DEF f, d
    <3>1. d # "hup"
      BY <1>1 DEF Directions
    <3>2. QED BY <1>5, <1>6, <2>1, <2>2, <2>3, <3>1 DEF Ready
  <2>5. QED BY <1>5, <2>1, <2>2, <2>4
<1>12. Called'
  BY <1>0, <1>3, <1>5 DEF ElIInv, Called, TokenTold
<1>13. NodesOnce'
  BY <1>0 DEF ElIInv, NodesOnce
<1>14. NodesFit'
  BY <1>0, <1>3, <1>5 DEF ElIInv, NodesFit, TokenTold, Queued
<1>15. TokFit'
  BY <1>3, <1>4, <1>5 DEF ElIInv, TokFit
<1>16. ResumedReady'
  BY <1>2, <1>3, <1>5 DEF ResumedReady
<1>17. QED BY <1>7, <1>8, <1>9, <1>10, <1>11, <1>12, <1>13, <1>14, <1>15, <1>16 DEF ElIInv

-----------------------------------------------------------------------------
LEMMA NextElIInv ==
    ASSUME ElIInv, [ElNext]_elVars
    PROVE  ElIInv'
<1>1. CASE UNCHANGED elVars
  <2>1. /\ UNCHANGED <<use, posts, loop, ep, readyFor, onLoop, job>>
        /\ jobTok' = jobTok /\ canceller' = canceller
    BY <1>1 DEF elVars
  <2>2. jobTok \in [Jobs -> JobTokens]
        /\ canceller \in [Jobs -> {"idle", "publishing", "dispatching", "waking", "end"}]
    BY DEF ElIInv, ElTyped
  <2>3. QED BY <2>1, <2>2, TokenFrame
<1>2. ASSUME NEW j \in Jobs, JobStep(j) PROVE ElIInv'
  BY <1>2, AwaitElIInv, RegisterElIInv, AfterAwaitElIInv, LeavesElIInv DEF JobStep
<1>3. CASE LoopStep
  BY <1>2, <1>3, LoopMovesElIInv, EpollWaitElIInv, HandleEventElIInv, CallReadyElIInv, TakePostsElIInv,
     DispatchElIInv, EndDrainElIInv, EndBatchElIInv DEF LoopStep
<1>4. CASE Wake \/ StopLoop \/ RestartLoop
  BY <1>4, OutsideElIInv, LoopMovesElIInv
<1>5. ASSUME NEW f \in Fds, BecomesReady(f) PROVE ElIInv'
  BY <1>5, BecomesReadyElIInv
<1>6. ASSUME NEW j \in Jobs, PostFromOutside(j) \/ CancelJob(j) \/ CancellerStep(j) PROVE ElIInv'
  BY <1>6, PostOutsideElIInv, CancelElIInv, TellElIInv DEF CancellerStep
<1>7. QED BY <1>1, <1>3, <1>4, <1>5, <1>6 DEF ElNext

(* The registrations, the batch, the queue of nodes, the tokens and the     *)
(* coroutines fit each other in every reachable state of the loop.          *)
THEOREM LoopInductive == ElSpec => []ElIInv
<1>1. ElInit => ElIInv
  BY InitElIInv
<1>2. ElIInv /\ [ElNext]_elVars => ElIInv'
  BY NextElIInv
<1>3. QED BY <1>1, <1>2, PTL DEF ElSpec

(* How often something is in a list that holds nothing twice.               *)
LEMMA PlacesInQueue ==
    ASSUME NEW S, NEW q \in Seq(S), IsInjective(q), NEW x
    PROVE  Cardinality({i \in DOMAIN q : q[i] = x}) = IF Contains(q, x) THEN 1 ELSE 0
<1>0. DOMAIN q = 1 .. Len(q)
  OBVIOUS
<1>1. CASE Contains(q, x)
  <2>1. PICK i \in 1 .. Len(q) : q[i] = x
    BY <1>1 DEF Contains
  <2>2. {k \in DOMAIN q : q[k] = x} = {i}
    BY <1>0, <2>1 DEF IsInjective
  <2>3. QED BY <1>1, <2>2, FS_Singleton
<1>2. CASE ~Contains(q, x)
  <2>1. {k \in DOMAIN q : q[k] = x} = {}
    BY <1>0, <1>2 DEF Contains
  <2>2. QED BY <1>2, <2>1, FS_EmptySet
<1>3. QED BY <1>1, <1>2

(* One operation is the waiter of at most one registration and direction.   *)
LEMMA PlacesOfWaiter ==
    ASSUME ElIInv, NEW j \in Jobs
    PROVE  Cardinality({w \in Fds \X Directions :
                          Taken(w[1], w[2]) /\ ep.mem[ep.at[w[1]]].waiter[w[2]] = j}) =
             IF Holder(ep, job[j].op.fd, job[j].op.dir) = j THEN 1 ELSE 0
<1> DEFINE f == job[j].op.fd
           d == job[j].op.dir
           W == {w \in Fds \X Directions :
                    Taken(w[1], w[2]) /\ ep.mem[ep.at[w[1]]].waiter[w[2]] = j}
<1>1. f \in Fds /\ d \in Directions
  BY DEF ElIInv, ElTyped, JobStates, ElOperations
<1>2. \A g \in Fds, c \in Directions :
         Taken(g, c) /\ ep.mem[ep.at[g]].waiter[c] = j <=> Holder(ep, g, c) = j
  BY ElAssumption DEF Taken, Holder
<1>3. \A g \in Fds, c \in Directions : Holder(ep, g, c) = j => g = f /\ c = d
  BY ElAssumption DEF ElIInv, HoldersFit
<1> HIDE DEF f, d
<1>4. \A w \in Fds \X Directions : /\ w[1] \in Fds /\ w[2] \in Directions /\ w = <<w[1], w[2]>>
                                   /\ w \in W <=> Holder(ep, w[1], w[2]) = j
  BY <1>2
<1>5. CASE Holder(ep, f, d) = j
  <2>1. <<f, d>> \in W
    BY <1>1, <1>2, <1>5
  <2>2. \A w \in W : w = <<f, d>>
    BY <1>3, <1>4
  <2> HIDE DEF W
  <2>3. PICK p : p = <<f, d>>
    OBVIOUS
  <2>4. W = {p}
    BY <2>1, <2>2, <2>3
  <2>5. Cardinality(W) = 1
    BY <2>4, FS_Singleton
  <2>6. QED BY <1>5, <2>5 DEF W, f, d
<1>6. CASE Holder(ep, f, d) # j
  <2>1. W = {}
    BY <1>3, <1>4, <1>6
  <2> HIDE DEF W
  <2>2. Cardinality(W) = 0
    BY <2>1, FS_EmptySet
  <2>3. QED BY <1>6, <2>2 DEF W, f, d
<1>7. QED BY <1>5, <1>6

(* Whatever the order of readiness and cancellation: a suspended operation  *)
(* has exactly one caller, or exactly one node once its token told it,      *)
(* nothing refers to one that was resumed, and no waiter is left unarmed    *)
(* (epoll_async_op.cpp:139-185, epoll_impl.cpp:282-308).                    *)
THEOREM LoopResumesOnce == ElSpec => []ResumedByOne
<1>1. ElIInv => ResumedByOne
  <2> SUFFICES ASSUME ElIInv PROVE ResumedByOne
    OBVIOUS
  <2>1. \A f \in Fds : StaysArmed(f)
    BY DEF ElIInv, BatchOK, Covered, StaysArmed
  <2>2. ASSUME NEW j \in Jobs
        PROVE  LET told == job[j].op.cancellable /\ ~Completes(jobTok[j], j)
               IN /\ Nodes("cancelled", j) = IF job[j].at = "suspended" /\ told THEN 1 ELSE 0
                  /\ job[j].at = "suspended" /\ ~told => CallersOf(j) = 1
                  /\ job[j].at \notin {"suspended", "adding"} => CallersOf(j) = 0
    <3> DEFINE told == job[j].op.cancellable /\ ~Completes(jobTok[j], j)
               held == Holder(ep, job[j].op.fd, job[j].op.dir) = j
               n == Node("cancelled", j)
    <3>1. job[j].at = "suspended" => (told <=> TokenTold(j))
      BY DEF ElIInv, TokFit, TokenTold, Completes
    <3>2. /\ posts \in Seq(PostNodes) /\ loop.chain \in Seq(PostNodes) /\ loop.due \in Seq(Jobs)
          /\ IsInjective(posts) /\ IsInjective(loop.chain) /\ IsInjective(loop.due)
      BY DEF ElIInv, ElTyped, LoopStates, NodesOnce, DueFit
    <3>3. ~(Contains(posts, n) /\ Contains(loop.chain, n))
      BY DEF ElIInv, NodesOnce, Node, PostNodes
    <3>4. Nodes("cancelled", j) = IF Queued(n) THEN 1 ELSE 0
      <4>1. /\ Cardinality({i \in DOMAIN posts : posts[i] = n}) = IF Contains(posts, n) THEN 1 ELSE 0
            /\ Cardinality({i \in DOMAIN loop.chain : loop.chain[i] = n}) =
                   IF Contains(loop.chain, n) THEN 1 ELSE 0
        <5> HIDE DEF n
        <5>1. QED BY <3>2, PlacesInQueue
      <4>2. Nodes("cancelled", j) = Cardinality({i \in DOMAIN posts : posts[i] = n})
                                    + Cardinality({i \in DOMAIN loop.chain : loop.chain[i] = n})
        BY DEF Nodes, Node
      <4> HIDE DEF n
      <4>3. QED BY <3>3, <4>1, <4>2 DEF Queued
    <3>5. CallersOf(j) = (IF held THEN 1 ELSE 0) + (IF Contains(loop.due, j) THEN 1 ELSE 0)
      BY <3>2, PlacesInQueue, PlacesOfWaiter DEF CallersOf
    <3>6. Queued(n) <=> job[j].at = "suspended" /\ TokenTold(j)
      BY DEF ElIInv, NodesFit
    <3>7. Contains(loop.due, j) => job[j].at = "suspended" /\ ~held
      BY DEF ElIInv, DueFit
    <3>8. held => job[j].at \in {"adding", "suspended"}
      <4>1. job[j].op.fd \in Fds /\ job[j].op.dir \in Directions
        BY DEF ElIInv, ElTyped, JobStates, ElOperations
      <4>2. QED BY <4>1, ElAssumption DEF ElIInv, HoldersFit, Waits
    <3>9. job[j].at = "suspended" /\ ~TokenTold(j) => held \/ Contains(loop.due, j)
      BY DEF ElIInv, Called
    <3> HIDE DEF n, held, told
    <3>10. Nodes("cancelled", j) = IF job[j].at = "suspended" /\ told THEN 1 ELSE 0
      BY <3>1, <3>4, <3>6
    <3>11. job[j].at = "suspended" /\ ~told => CallersOf(j) = 1
      BY <3>1, <3>5, <3>7, <3>9
    <3>12. job[j].at \notin {"suspended", "adding"} => CallersOf(j) = 0
      BY <3>5, <3>7, <3>8
    <3>13. QED BY <3>10, <3>11, <3>12 DEF told
  <2>3. QED BY <2>1, <2>2 DEF ResumedByOne
<1>2. QED BY <1>1, LoopInductive, PTL

(* An operation that readiness resumed finds its descriptor ready, although *)
(* descriptors are given up and registered again, at addresses that were    *)
(* used before, while a batch is run (epoll_impl.cpp:229-308).              *)
THEOREM LoopResumesReady == ElSpec => []ReadyWhenResumed
<1>1. ElIInv => ReadyWhenResumed
  BY DEF ElIInv, ResumedReady, Ready, ReadyWhenResumed
<1>2. QED BY <1>1, LoopInductive, PTL
=============================================================================
