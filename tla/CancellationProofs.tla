------------------------- MODULE CancellationProofs -------------------------
(***************************************************************************)
(* Proofs about the two users of cancel_token that hand something over      *)
(* while it may be cancelled: the HTTP client pool, for every number of     *)
(* callers, clients and calls, and the task group, for every number of      *)
(* children.                                                                *)
(***************************************************************************)
EXTENDS TaskGroup, ClientPool, WaiterQueueProofs, FiniteSetTheorems

-----------------------------------------------------------------------------
(* The client pool.  What the fields range over.                            *)
CallerPlaces == {"idle", "locking", "inside", "suspending", "registering", "waiting",
                 "relocking", "resumed", "holding"}

CallerStates == [at : CallerPlaces, slot : Nat, queued : BOOLEAN, registered : BOOLEAN]

CallerTokens == [reason : {"none", "caller"}, cancelled : BOOLEAN, dispatched : BOOLEAN,
                 op : Callers \cup {Nobody}, notify : BOOLEAN]

Postings == {<< >>, <<"resume">>, <<"cancel">>}

PoolTyped ==
    /\ leased \in Seq(BOOLEAN) /\ waiters \in Seq(Callers)
    /\ caller \in [Callers -> CallerStates]
    /\ token \in [Callers -> CallerTokens]
    /\ posted \in [Callers -> Postings]
    /\ returning \in SUBSET Nat
    /\ closer \in {"no", "draining", "closed"}

(* The state r of an acquire(), its token t and its node p fit together:    *)
(* only a waiter has a node posted or a registration, and one that can      *)
(* still be completed has not been posted.                                  *)
Fits(c, r, t, p) ==
    /\ r.queued => r.at \in {"registering", "waiting"} /\ r.slot = 0
    /\ r.registered => r.at \in {"registering", "waiting", "relocking", "resumed"}
    /\ r.slot # 0 => r.at \in {"waiting", "relocking", "resumed", "holding"}
    /\ r.at = "holding" => r.slot # 0
    /\ p # << >> => r.at = "waiting"
    /\ p = <<"resume">> => ~r.queued
    /\ t.op \in {Nobody, c}
    /\ t.op = c => r.at = "waiting"
    /\ t.op = c /\ t.notify => p = << >>

WaitersFit == \A c \in Callers : Fits(c, caller[c], token[c], posted[c])

(* close() has waited for every waiter.                                     *)
NoneLate == closer = "closed" => \A c \in Callers : ~caller[c].registered

(* A client that is leased has one owner: a caller or a posted return.      *)
Taken == {k \in DOMAIN leased : leased[k]}

OwnedOnce ==
    /\ \A c \in Callers : caller[c].slot # 0 => caller[c].slot \in Taken \ returning
    /\ \A c, d \in Callers : caller[c].slot = caller[d].slot /\ caller[c].slot # 0 => c = d
    /\ returning \subseteq Taken
    /\ \A k \in Taken : k \in returning \/ \E c \in Callers : caller[c].slot = k

(* The counters count.                                                      *)
Waiting == {c \in Callers : caller[c].registered}

ClientsCounted == checkedOut = Cardinality(Taken) /\ idle = Cardinality(IdleSlots)
WaitersCounted == activeWaiters = Cardinality(Waiting)

PoolInv ==
    PoolTyped /\ WaitersFit /\ NoneLate /\ OwnedOnce /\ ClientsCounted /\ WaitersCounted

(* The records of callers and tokens have their fields.                     *)
LEMMA PoolHere ==
    ASSUME PoolInv, NEW c \in Callers
    PROVE  /\ caller[c] \in CallerStates /\ token[c] \in CallerTokens /\ posted[c] \in Postings
           /\ Fits(c, caller[c], token[c], posted[c])
           /\ c # Nobody
BY PoolAssumption DEF PoolInv, PoolTyped, WaitersFit

(* What the operations on a token leave: its type, and whose it is.         *)
LEMMA TokenOperations ==
    ASSUME NEW t \in CallerTokens, NEW c \in Callers, t.op \in {Nobody, c}
    PROVE  /\ FreshToken \in CallerTokens /\ FreshToken.op = Nobody
           /\ Retired(t, c) \in CallerTokens /\ Retired(t, c).op = Nobody
           /\ LET p == Published(Reasoned(t, "caller"))
              IN p \in CallerTokens /\ p.op = t.op /\ p.notify = t.notify
           /\ LET d == Dispatched(IF Tells(t) THEN Told(t) ELSE t)
              IN d \in CallerTokens /\ d.op = t.op /\ (d.notify => ~Tells(t) /\ t.notify)
           /\ LET r == Registered(t, c)
              IN /\ r \in CallerTokens
                 /\ IF t.cancelled THEN r = t ELSE r.op = c
<1>a. c # Nobody
  BY PoolAssumption
<1>1. FreshToken \in CallerTokens /\ FreshToken.op = Nobody
  BY DEF FreshToken, CallerTokens
<1>2. Retired(t, c) \in CallerTokens /\ Retired(t, c).op = Nobody
  BY <1>a DEF Retired, CallerTokens
<1>3. LET p == Published(Reasoned(t, "caller"))
      IN p \in CallerTokens /\ p.op = t.op /\ p.notify = t.notify
  BY DEF Published, Reasoned, CallerTokens
<1>4. LET d == Dispatched(IF Tells(t) THEN Told(t) ELSE t)
      IN d \in CallerTokens /\ d.op = t.op /\ (d.notify => ~Tells(t) /\ t.notify)
  BY DEF Dispatched, Told, CallerTokens
<1>5. LET r == Registered(t, c)
      IN r \in CallerTokens /\ IF t.cancelled THEN r = t ELSE r.op = c
  BY DEF Registered, CallerTokens
<1> QED
  BY <1>1, <1>2, <1>3, <1>4, <1>5

(* A node that is posted is posted once.                                    *)
LEMMA OnePosting ==
    ASSUME NEW p \in Postings, p # << >>
    PROVE  p = <<Head(p)>> /\ Tail(p) = << >>
<1>1. \A x \in {"resume", "cancel"} : Head(<<x>>) = x /\ Tail(<<x>>) = << >>
  <2> TAKE x \in {"resume", "cancel"}
  <2>1. <<x>> \in Seq({"resume", "cancel"}) /\ Len(<<x>>) = 1
    OBVIOUS
  <2>2. Tail(<<x>>) \in Seq({"resume", "cancel"}) /\ Len(Tail(<<x>>)) = 0
    BY <2>1
  <2> QED
    BY <2>2
<1>2. p = <<"resume">> \/ p = <<"cancel">>
  BY DEF Postings
<1> QED
  BY <1>1, <1>2

(* One acquire() comes to be in another state; the others stay as they are. *)
Becomes(c, r, t, p) ==
    /\ r \in CallerStates /\ t \in CallerTokens /\ p \in Postings /\ Fits(c, r, t, p)
    /\ caller' = [caller EXCEPT ![c] = r] /\ token' = [token EXCEPT ![c] = t]
    /\ posted' = [posted EXCEPT ![c] = p]

(* A step that changes nothing but the state of one acquire().              *)
LEMMA OneCaller ==
    ASSUME PoolInv, NEW c \in Callers, NEW r, NEW t, NEW p, Becomes(c, r, t, p),
           leased' \in Seq(BOOLEAN), waiters' \in Seq(Callers), returning' \in SUBSET Nat,
           UNCHANGED closer, r.registered => caller[c].registered \/ closer # "closed"
    PROVE  PoolTyped' /\ WaitersFit' /\ NoneLate'
<1>1. PoolTyped'
  BY DEF Becomes, PoolInv, PoolTyped
<1>2. /\ caller'[c] = r /\ token'[c] = t /\ posted'[c] = p
      /\ \A d \in Callers : d # c =>
            caller'[d] = caller[d] /\ token'[d] = token[d] /\ posted'[d] = posted[d]
  BY DEF Becomes, PoolInv, PoolTyped
<1>3. WaitersFit'
  BY <1>2 DEF Becomes, PoolInv, WaitersFit
<1>4. NoneLate'
  BY <1>2 DEF PoolInv, NoneLate
<1> QED
  BY <1>1, <1>3, <1>4

(* Leases stay what they are while nobody gets a client or gives one back,  *)
(* and so do waiters while nobody becomes or ceases to be registered.       *)
LEMMA SameLeases ==
    ASSUME PoolInv, UNCHANGED <<leased, returning, idle, checkedOut>>,
           \A c \in Callers : caller'[c].slot = caller[c].slot
    PROVE  OwnedOnce' /\ ClientsCounted'
<1>1. Taken' = Taken /\ IdleSlots' = IdleSlots
  BY DEF Taken, IdleSlots
<1> QED
  BY <1>1 DEF PoolInv, OwnedOnce, ClientsCounted

LEMMA SameWaiters ==
    ASSUME PoolInv, UNCHANGED activeWaiters,
           \A c \in Callers : caller'[c].registered = caller[c].registered
    PROVE  WaitersCounted'
<1>1. Waiting' = Waiting
  BY DEF Waiting
<1> QED
  BY <1>1 DEF PoolInv, WaitersCounted

(* All of it at once.                                                       *)
LEMMA QuietCall ==
    ASSUME PoolInv, NEW c \in Callers, NEW r, NEW t, NEW p, Becomes(c, r, t, p),
           r.slot = caller[c].slot, r.registered = caller[c].registered,
           waiters' \in Seq(Callers),
           UNCHANGED <<leased, returning, closer, activeWaiters, idle, checkedOut>>
    PROVE  PoolInv'
<1>1. leased' \in Seq(BOOLEAN) /\ returning' \in SUBSET Nat
  BY DEF PoolInv, PoolTyped
<1>2. PoolTyped' /\ WaitersFit' /\ NoneLate'
  BY <1>1, OneCaller
<1>3. \A d \in Callers : /\ caller'[d].slot = caller[d].slot
                         /\ caller'[d].registered = caller[d].registered
  BY DEF Becomes, PoolInv, PoolTyped
<1> QED
  BY <1>2, <1>3, SameLeases, SameWaiters DEF PoolInv

(* remove_waiter() leaves a list of callers.                                *)
LEMMA WithoutOne ==
    ASSUME PoolInv, NEW c \in Callers
    PROVE  WithoutWaiter(c) \in Seq(Callers)
<1> DEFINE found == {i \in DOMAIN waiters : waiters[i] = c}
           i == Min(found)
<1>1. waiters \in Seq(Callers)
  BY DEF PoolInv, PoolTyped
<1>2. CASE found = {}
  BY <1>1, <1>2 DEF WithoutWaiter
<1>3. CASE found # {}
  <2>1. found \in SUBSET Nat
    BY <1>1
  <2>2. i \in found
    <3> HIDE DEF found
    <3> QED
      BY <1>3, <2>1, LeastNat
  <2>3. i \in 1 .. Len(waiters)
    BY <1>1, <2>2
  <2> HIDE DEF i
  <2>4. SubSeq(waiters, 1, i - 1) \in Seq(Callers) /\ SubSeq(waiters, i + 1, Len(waiters)) \in Seq(Callers)
    BY <1>1, <2>3
  <2>5. RemoveAt(waiters, i) \in Seq(Callers)
    BY <2>4 DEF RemoveAt
  <2> QED
    BY <1>1, <2>5 DEF WithoutWaiter, i
<1> QED
  BY <1>2, <1>3

(* A caller on its way to the queue, a registration, a resumption and a     *)
(* cancellation change nothing but the state of one acquire().              *)
LEMMA CallSteps ==
    ASSUME PoolInv, NEW c \in Callers,
           \/ Call(c) \/ Enter(c) \/ Refuse(c) \/ RegisterWaiter(c) \/ ResumeWaiter(c)
           \/ DispatchCancellation(c) \/ CancelPublish(c) \/ CancelDispatch(c)
    PROVE  PoolInv'
<1> DEFINE r == caller[c]
           t == token[c]
           p == posted[c]
<1>h. /\ r \in CallerStates /\ t \in CallerTokens /\ p \in Postings /\ Fits(c, r, t, p)
      /\ c # Nobody
  BY PoolHere
<1>k. /\ caller = [caller EXCEPT ![c] = r] /\ token = [token EXCEPT ![c] = t]
      /\ posted = [posted EXCEPT ![c] = p] /\ waiters \in Seq(Callers)
  BY DEF PoolInv, PoolTyped
<1>o. t.op \in {Nobody, c}
  BY <1>h DEF Fits
<1>t. /\ FreshToken \in CallerTokens /\ FreshToken.op = Nobody
      /\ Retired(t, c) \in CallerTokens /\ Retired(t, c).op = Nobody
  BY <1>h, <1>o, TokenOperations
<1>p. << >> \in Postings /\ <<"resume">> \in Postings /\ <<"cancel">> \in Postings
  BY DEF Postings
<1>1. CASE Call(c)
  <2> DEFINE r1 == [r EXCEPT !.at = "locking"]
  <2>1. /\ r.at = "idle" /\ caller' = [caller EXCEPT ![c] = r1]
        /\ token' = [token EXCEPT ![c] = FreshToken]
        /\ UNCHANGED <<posted, waiters, leased, returning, closer, activeWaiters, idle, checkedOut>>
    BY <1>1 DEF Call, Move, Counters
  <2>2. r1 \in CallerStates /\ r1.slot = r.slot /\ r1.registered = r.registered
    BY <1>h DEF CallerStates, CallerPlaces
  <2>3. Fits(c, r1, FreshToken, p)
    BY <1>h, <1>t, <2>1 DEF Fits, CallerStates
  <2> HIDE DEF r1
  <2>b. Becomes(c, r1, FreshToken, p) /\ waiters' \in Seq(Callers)
    BY <1>h, <1>k, <1>t, <2>1, <2>2, <2>3 DEF Becomes
  <2> QED
    BY <2>b, <2>1, <2>2, QuietCall
<1>2. CASE Enter(c)
  <2>1. PICK at \in {"inside", "resumed"} :
           /\ at = "inside" => r.at = "locking"
           /\ at = "resumed" => r.at = "relocking"
           /\ caller' = [caller EXCEPT ![c].at = at]
           /\ UNCHANGED <<token, posted, waiters, leased, returning, closer, activeWaiters, idle, checkedOut>>
    BY <1>2 DEF Enter, Move, Counters
  <2> DEFINE r1 == [r EXCEPT !.at = at]
  <2>2. caller' = [caller EXCEPT ![c] = r1]
    BY <2>1
  <2>3. r1 \in CallerStates /\ r1.slot = r.slot /\ r1.registered = r.registered
    BY <1>h, <2>1 DEF CallerStates, CallerPlaces
  <2>4. Fits(c, r1, t, p)
    BY <1>h, <2>1 DEF Fits, CallerStates
  <2> HIDE DEF r1
  <2>b. Becomes(c, r1, t, p) /\ waiters' \in Seq(Callers)
    BY <1>h, <1>k, <2>1, <2>2, <2>3, <2>4 DEF Becomes
  <2> QED
    BY <2>b, <2>1, <2>3, QuietCall
<1>3. CASE Refuse(c)
  <2>1. /\ r.at = "inside" /\ caller' = [caller EXCEPT ![c] = NotCalling]
        /\ UNCHANGED <<token, posted, waiters, leased, returning, closer, activeWaiters, idle, checkedOut>>
    BY <1>3 DEF Refuse, Counters
  <2>2. NotCalling \in CallerStates /\ NotCalling.slot = r.slot /\ NotCalling.registered = r.registered
    BY <1>h, <2>1 DEF Fits, NotCalling, CallerStates, CallerPlaces
  <2>3. Fits(c, NotCalling, t, p)
    BY <1>h, <2>1 DEF Fits, NotCalling
  <2>b. Becomes(c, NotCalling, t, p) /\ waiters' \in Seq(Callers)
    BY <1>h, <1>k, <2>1, <2>2, <2>3 DEF Becomes
  <2> QED
    BY <2>b, <2>1, <2>2, QuietCall
<1>4. CASE RegisterWaiter(c)
  <2> DEFINE r1 == [r EXCEPT !.at = "waiting"]
             t1 == Registered(t, c)
             p1 == IF t.cancelled THEN <<"cancel">> ELSE << >>
  <2>0. r.at = "registering" /\ p = << >> /\ t.op = Nobody
    BY <1>4, <1>h DEF RegisterWaiter, Fits
  <2>1. /\ caller' = [caller EXCEPT ![c] = r1] /\ token' = [token EXCEPT ![c] = t1]
        /\ posted' = [posted EXCEPT ![c] = p1]
        /\ UNCHANGED <<waiters, leased, returning, closer, activeWaiters, idle, checkedOut>>
    BY <1>4, <1>k, <2>0 DEF RegisterWaiter, Move, Post, Counters
  <2>2. t1 \in CallerTokens /\ IF t.cancelled THEN t1 = t ELSE t1.op = c
    BY <1>h, <1>o, TokenOperations
  <2>3. r1 \in CallerStates /\ r1.slot = r.slot /\ r1.registered = r.registered /\ p1 \in Postings
    BY <1>h, <1>p DEF CallerStates, CallerPlaces
  <2> HIDE DEF t1
  <2>4. Fits(c, r1, t1, p1)
    BY <1>h, <2>0, <2>2 DEF Fits, CallerStates
  <2> HIDE DEF r1, p1
  <2>b. Becomes(c, r1, t1, p1) /\ waiters' \in Seq(Callers)
    BY <1>k, <2>1, <2>2, <2>3, <2>4 DEF Becomes
  <2> QED
    BY <2>b, <2>1, <2>3, QuietCall
<1>5. CASE ResumeWaiter(c)
  <2> DEFINE r1 == [r EXCEPT !.at = "relocking"]
  <2>0. p # << >> /\ Head(p) = "resume"
    BY <1>5 DEF ResumeWaiter
  <2>a. p = <<"resume">> /\ Tail(p) = << >>
    BY <1>h, <2>0, OnePosting
  <2>1. /\ caller' = [caller EXCEPT ![c] = r1] /\ token' = [token EXCEPT ![c] = Retired(t, c)]
        /\ posted' = [posted EXCEPT ![c] = << >>]
        /\ UNCHANGED <<waiters, leased, returning, closer, activeWaiters, idle, checkedOut>>
    BY <1>5, <2>a DEF ResumeWaiter, Move, Counters
  <2>2. r1 \in CallerStates /\ r1.slot = r.slot /\ r1.registered = r.registered
    BY <1>h DEF CallerStates, CallerPlaces
  <2>3. Fits(c, r1, Retired(t, c), << >>)
    BY <1>h, <1>t, <2>a DEF Fits, CallerStates
  <2> HIDE DEF r1
  <2>b. Becomes(c, r1, Retired(t, c), << >>) /\ waiters' \in Seq(Callers)
    BY <1>k, <1>p, <1>t, <2>1, <2>2, <2>3 DEF Becomes
  <2> QED
    BY <2>b, <2>1, <2>2, QuietCall
<1>6. CASE DispatchCancellation(c)
  <2> DEFINE r1 == [Unqueued(c) EXCEPT !.at = "relocking"]
  <2>0. p # << >> /\ Head(p) = "cancel"
    BY <1>6 DEF DispatchCancellation
  <2>a. p = <<"cancel">> /\ Tail(p) = << >>
    BY <1>h, <2>0, OnePosting
  <2>1. /\ caller' = [caller EXCEPT ![c] = r1] /\ token' = [token EXCEPT ![c] = Retired(t, c)]
        /\ posted' = [posted EXCEPT ![c] = << >>] /\ waiters' = WithoutWaiter(c)
        /\ UNCHANGED <<leased, returning, closer, activeWaiters, idle, checkedOut>>
    BY <1>6, <2>a DEF DispatchCancellation, Counters
  <2>2. /\ r1 \in CallerStates /\ r1.slot = r.slot /\ r1.registered = r.registered
        /\ r1.at = "relocking" /\ ~r1.queued
    BY <1>h DEF CallerStates, CallerPlaces, Unqueued
  <2> HIDE DEF r1
  <2>3. Fits(c, r1, Retired(t, c), << >>)
    BY <1>h, <1>t, <2>a, <2>2 DEF Fits
  <2>4. waiters' \in Seq(Callers)
    BY <2>1, WithoutOne
  <2>b. Becomes(c, r1, Retired(t, c), << >>) /\ waiters' \in Seq(Callers)
    BY <1>p, <1>t, <2>1, <2>2, <2>3, <2>4 DEF Becomes
  <2> QED
    BY <2>b, <2>1, <2>2, QuietCall
<1>7. CASE CancelPublish(c)
  <2> DEFINE t1 == Published(Reasoned(t, "caller"))
  <2>1. /\ token' = [token EXCEPT ![c] = t1]
        /\ UNCHANGED <<caller, posted, waiters, leased, returning, closer, activeWaiters, idle, checkedOut>>
    BY <1>7 DEF CancelPublish, Counters
  <2>2. t1 \in CallerTokens /\ t1.op = t.op /\ t1.notify = t.notify
    BY <1>h, <1>o, TokenOperations
  <2> HIDE DEF t1
  <2>3. Fits(c, r, t1, p)
    BY <1>h, <2>2 DEF Fits
  <2>b. Becomes(c, r, t1, p) /\ waiters' \in Seq(Callers)
    BY <1>h, <1>k, <2>1, <2>2, <2>3 DEF Becomes
  <2> QED
    BY <2>b, <2>1, <2>2, QuietCall
<1>8. CASE CancelDispatch(c)
  <2> DEFINE t1 == Dispatched(IF Tells(t) THEN Told(t) ELSE t)
             p1 == IF Tells(t) THEN <<"cancel">> ELSE p
  <2>0. Tells(t) => t.op = c /\ t.notify /\ p = << >>
    BY <1>h, <1>o DEF Tells, Fits
  <2>1. /\ token' = [token EXCEPT ![c] = t1] /\ posted' = [posted EXCEPT ![c] = p1]
        /\ UNCHANGED <<caller, waiters, leased, returning, closer, activeWaiters, idle, checkedOut>>
    <3>1. CASE Tells(t)
      <4>1. posted' = [posted EXCEPT ![c] = Append(p, "cancel")]
        BY <1>8, <3>1 DEF CancelDispatch, Post
      <4>2. Append(p, "cancel") = p1
        <5>1. Append(<< >>, "cancel") = <<"cancel">>
          OBVIOUS
        <5>2. p = << >> /\ p1 = <<"cancel">>
          BY <2>0, <3>1
        <5> HIDE DEF p, p1
        <5> QED
          BY <5>1, <5>2
      <4> QED
        BY <1>8, <4>1, <4>2 DEF CancelDispatch, Counters
    <3>2. CASE ~Tells(t)
      <4>1. UNCHANGED posted
        BY <1>8, <3>2 DEF CancelDispatch
      <4>2. posted' = [posted EXCEPT ![c] = p1]
        BY <1>k, <3>2, <4>1
      <4> QED
        BY <1>8, <4>2 DEF CancelDispatch, Counters
    <3> QED
      BY <3>1, <3>2
  <2>2. t1 \in CallerTokens /\ t1.op = t.op /\ (t1.notify => ~Tells(t) /\ t.notify)
    BY <1>h, <1>o, TokenOperations
  <2> HIDE DEF t1
  <2>3. Fits(c, r, t1, p1) /\ p1 \in Postings
    BY <1>h, <1>p, <2>0, <2>2 DEF Fits
  <2> HIDE DEF p1
  <2>b. Becomes(c, r, t1, p1) /\ waiters' \in Seq(Callers)
    BY <1>h, <1>k, <2>1, <2>2, <2>3 DEF Becomes
  <2> QED
    BY <2>b, <2>1, <2>2, QuietCall
<1> QED
  BY <1>1, <1>2, <1>3, <1>4, <1>5, <1>6, <1>7, <1>8

-----------------------------------------------------------------------------
(* What the counters count is finite.                                       *)
LEMMA PoolFinite ==
    ASSUME PoolInv
    PROVE  /\ IsFiniteSet(Taken) /\ IsFiniteSet(IdleSlots) /\ IsFiniteSet(Waiting)
           /\ checkedOut \in Nat /\ idle \in Nat /\ activeWaiters \in Nat
           /\ Taken \subseteq Nat \ {0} /\ IdleSlots \subseteq Nat \ {0}
           /\ leased \in Seq(BOOLEAN) /\ waiters \in Seq(Callers)
<1>1. leased \in Seq(BOOLEAN) /\ waiters \in Seq(Callers)
  BY DEF PoolInv, PoolTyped
<1>2. DOMAIN leased = 1 .. Len(leased) /\ Len(leased) \in Nat
  BY <1>1
<1>3. IsFiniteSet(1 .. Len(leased))
  BY <1>2, FS_Interval
<1>4. IsFiniteSet(Taken) /\ IsFiniteSet(IdleSlots)
  BY <1>2, <1>3, FS_Subset DEF Taken, IdleSlots
<1>5. IsFiniteSet(Waiting)
  BY PoolAssumption, FS_Subset DEF Waiting
<1>6. checkedOut \in Nat /\ idle \in Nat /\ activeWaiters \in Nat
  BY <1>4, <1>5, FS_CardinalityType DEF PoolInv, ClientsCounted, WaitersCounted
<1> QED
  BY <1>1, <1>2, <1>4, <1>5, <1>6 DEF Taken, IdleSlots

(* A list with one more element at its end.                                 *)
LEMMA LastAdded ==
    ASSUME NEW S, NEW q \in Seq(S), NEW x \in S
    PROVE  /\ Append(q, x) \in Seq(S)
           /\ Len(q) + 1 \notin DOMAIN q /\ DOMAIN Append(q, x) = DOMAIN q \cup {Len(q) + 1}
           /\ Append(q, x)[Len(q) + 1] = x /\ \A j \in DOMAIN q : Append(q, x)[j] = q[j]
<1>1. Append(q, x) \in Seq(S) /\ Len(Append(q, x)) = Len(q) + 1 /\ Len(q) \in Nat
  OBVIOUS
<1>2. DOMAIN q = 1 .. Len(q) /\ DOMAIN Append(q, x) = 1 .. Len(q) + 1
  BY <1>1
<1> QED
  BY <1>1, <1>2

(* A caller gets client k, which nobody had.                                *)
LEMMA LeaseTo ==
    ASSUME PoolInv, NEW c \in Callers, NEW r, NEW k \in Nat \ {0},
           Becomes(c, r, token[c], posted[c]),
           caller[c].slot = 0, r.slot = k, r.registered = caller[c].registered,
           leased' \in Seq(BOOLEAN), k \notin Taken,
           Taken' = Taken \cup {k}, IdleSlots' = IdleSlots \ {k},
           checkedOut' = checkedOut + 1,
           idle' = IF k \in IdleSlots THEN idle - 1 ELSE idle,
           UNCHANGED <<waiters, returning, closer, activeWaiters>>
    PROVE  PoolInv'
<1>1. waiters' \in Seq(Callers) /\ returning' \in SUBSET Nat
  BY DEF PoolInv, PoolTyped
<1>2. PoolTyped' /\ WaitersFit' /\ NoneLate'
  BY <1>1, OneCaller DEF PoolInv, NoneLate
<1>3. caller'[c] = r /\ \A d \in Callers : d # c => caller'[d] = caller[d]
  BY DEF Becomes, PoolInv, PoolTyped
<1>4. OwnedOnce'
  <2>1. /\ OwnedOnce /\ returning' = returning /\ k \notin returning
        /\ caller'[c].slot = k /\ \A d \in Callers : d # c => caller'[d].slot = caller[d].slot
    BY <1>3 DEF PoolInv, OwnedOnce
  <2>2. \A d \in Callers : caller'[d].slot # 0 => caller'[d].slot \in Taken' \ returning'
    BY <2>1 DEF OwnedOnce
  <2>3. \A d, e \in Callers : caller'[d].slot = caller'[e].slot /\ caller'[d].slot # 0 => d = e
    BY <2>1 DEF OwnedOnce
  <2>4. returning' \subseteq Taken'
    BY <2>1 DEF OwnedOnce
  <2>5. \A j \in Taken' : j \in returning' \/ \E d \in Callers : caller'[d].slot = j
    BY <2>1, PoolFinite DEF OwnedOnce
  <2> QED
    BY <2>2, <2>3, <2>4, <2>5 DEF OwnedOnce
<1>5. ClientsCounted'
  <2>1. Cardinality(Taken') = Cardinality(Taken) + 1
    BY PoolFinite, FS_AddElement
  <2>2. Cardinality(IdleSlots') = idle'
    BY PoolFinite, FS_RemoveElement DEF PoolInv, ClientsCounted
  <2> QED
    BY <2>1, <2>2 DEF PoolInv, ClientsCounted
<1>6. WaitersCounted'
  BY <1>3, SameWaiters
<1> QED
  BY <1>2, <1>4, <1>5, <1>6 DEF PoolInv

(* acquire() finds an idle client, makes one, gives up or goes to wait.     *)
LEMMA ChooseStep ==
    ASSUME PoolInv, NEW c \in Callers, Choose(c)
    PROVE  PoolInv'
<1> DEFINE r == caller[c]
           t == token[c]
           p == posted[c]
<1>h. /\ r \in CallerStates /\ t \in CallerTokens /\ p \in Postings /\ Fits(c, r, t, p)
  BY PoolHere
<1>i. /\ r.at = "inside" /\ r.slot = 0 /\ ~r.queued /\ ~r.registered
      /\ p = << >> /\ t.op = Nobody
  BY <1>h, PoolHere DEF Choose, Fits, CallerStates
<1>k. /\ caller = [caller EXCEPT ![c] = r] /\ token = [token EXCEPT ![c] = t]
      /\ posted = [posted EXCEPT ![c] = p] /\ waiters \in Seq(Callers)
      /\ leased \in Seq(BOOLEAN)
  BY DEF PoolInv, PoolTyped
<1>u. UNCHANGED <<waiters, token, posted, returning, closer, activeWaiters>>
  BY DEF Choose
<1> DEFINE holding(k) == [r EXCEPT !.at = "holding", !.slot = k]
<1>f. \A k \in Nat \ {0} : /\ holding(k) \in CallerStates /\ holding(k).slot = k
                           /\ holding(k).registered = r.registered
                           /\ Fits(c, holding(k), t, p)
  <2> TAKE k \in Nat \ {0}
  <2>1. /\ holding(k) \in CallerStates /\ holding(k).slot = k /\ holding(k).at = "holding"
        /\ holding(k).registered = r.registered /\ holding(k).queued = r.queued
    BY <1>h DEF CallerStates, CallerPlaces
  <2> HIDE DEF holding
  <2> QED
    BY <1>i, <2>1, PoolHere DEF Fits
<1>1. CASE /\ IdleSlots # {}
           /\ leased' = [leased EXCEPT ![Min(IdleSlots)] = TRUE]
           /\ caller' = [caller EXCEPT ![c] = [@ EXCEPT !.at = "holding", !.slot = Min(IdleSlots)]]
           /\ idle' = idle - 1 /\ checkedOut' = checkedOut + 1
  <2> DEFINE k == Min(IdleSlots)
  <2>1. k \in IdleSlots /\ k \in Nat \ {0}
    BY <1>1, PoolFinite, LeastNat
  <2>2. leased' = [leased EXCEPT ![k] = TRUE] /\ caller' = [caller EXCEPT ![c] = holding(k)]
    BY <1>1
  <2> HIDE DEF k, holding
  <2>3. Becomes(c, holding(k), t, p)
    BY <1>h, <1>f, <1>k, <1>u, <2>1, <2>2 DEF Becomes
  <2>4. leased' \in Seq(BOOLEAN) /\ DOMAIN leased' = DOMAIN leased
    <3>1. leased \in [1 .. Len(leased) -> BOOLEAN] /\ Len(leased) \in Nat
      BY <1>k
    <3>2. leased' \in [1 .. Len(leased) -> BOOLEAN]
      BY <2>2, <3>1
    <3> QED
      BY <3>1, <3>2
  <2>5. k \notin Taken /\ Taken' = Taken \cup {k} /\ IdleSlots' = IdleSlots \ {k}
    BY <1>k, <2>1, <2>2, <2>4 DEF Taken, IdleSlots
  <2> QED
    BY <1>1, <1>f, <1>i, <1>u, <2>1, <2>3, <2>4, <2>5, LeaseTo
<1>2. CASE /\ IdleSlots = {}
           /\ leased' = Append(leased, TRUE)
           /\ caller' = [caller EXCEPT ![c] = [@ EXCEPT !.at = "holding", !.slot = Len(leased) + 1]]
           /\ checkedOut' = checkedOut + 1 /\ UNCHANGED idle
  <2> DEFINE k == Len(leased) + 1
  <2>1. k \in Nat \ {0}
    BY <1>k
  <2>2. caller' = [caller EXCEPT ![c] = holding(k)]
    BY <1>2
  <2>4. /\ leased' \in Seq(BOOLEAN) /\ DOMAIN leased' = DOMAIN leased \cup {k}
        /\ k \notin DOMAIN leased /\ leased'[k] = TRUE
        /\ \A j \in DOMAIN leased : leased'[j] = leased[j]
    <3>1. leased' = Append(leased, TRUE)
      BY <1>2
    <3>2. /\ Append(leased, TRUE) \in Seq(BOOLEAN)
          /\ k \notin DOMAIN leased /\ DOMAIN Append(leased, TRUE) = DOMAIN leased \cup {k}
          /\ Append(leased, TRUE)[k] = TRUE
          /\ \A j \in DOMAIN leased : Append(leased, TRUE)[j] = leased[j]
      <4>1. \A x \in BOOLEAN :
               /\ Append(leased, x) \in Seq(BOOLEAN)
               /\ k \notin DOMAIN leased /\ DOMAIN Append(leased, x) = DOMAIN leased \cup {k}
               /\ Append(leased, x)[k] = x
               /\ \A j \in DOMAIN leased : Append(leased, x)[j] = leased[j]
        BY <1>k, LastAdded
      <4> QED
        BY <4>1, Zenon
    <3> QED
      BY <3>1, <3>2, Zenon
  <2> HIDE DEF k, holding
  <2>3. Becomes(c, holding(k), t, p)
    BY <1>h, <1>f, <1>k, <1>u, <2>1, <2>2 DEF Becomes
  <2>5. k \notin Taken /\ Taken' = Taken \cup {k} /\ IdleSlots' = IdleSlots \ {k} /\ k \notin IdleSlots
    BY <1>2, <2>4 DEF Taken, IdleSlots
  <2> QED
    BY <1>2, <1>f, <1>i, <1>u, <2>1, <2>3, <2>4, <2>5, LeaseTo
<1>3. CASE caller' = [caller EXCEPT ![c] = NotCalling] /\ UNCHANGED <<leased, idle, checkedOut>>
  <2>1. /\ NotCalling \in CallerStates /\ NotCalling.slot = r.slot
        /\ NotCalling.registered = r.registered
    BY <1>h, <1>i DEF NotCalling, CallerStates, CallerPlaces
  <2>2. Fits(c, NotCalling, t, p)
    BY <1>h, <1>i DEF Fits, NotCalling
  <2>3. Becomes(c, NotCalling, t, p) /\ waiters' \in Seq(Callers)
    BY <1>h, <1>k, <1>u, <1>3, <2>1, <2>2 DEF Becomes
  <2> QED
    BY <1>3, <1>u, <2>1, <2>3, QuietCall
<1>4. CASE Move(c, "suspending") /\ UNCHANGED <<leased, idle, checkedOut>>
  <2> DEFINE r1 == [r EXCEPT !.at = "suspending"]
  <2>0. caller' = [caller EXCEPT ![c] = r1]
    BY <1>4 DEF Move
  <2>1. r1 \in CallerStates /\ r1.slot = r.slot /\ r1.registered = r.registered
    BY <1>h DEF CallerStates, CallerPlaces
  <2>2. Fits(c, r1, t, p)
    BY <1>h, <1>i DEF Fits, CallerStates
  <2> HIDE DEF r1
  <2>3. Becomes(c, r1, t, p) /\ waiters' \in Seq(Callers)
    BY <1>h, <1>k, <1>u, <2>0, <2>1, <2>2 DEF Becomes
  <2> QED
    BY <1>4, <1>u, <2>1, <2>3, QuietCall
<1> QED
  BY <1>1, <1>2, <1>3, <1>4 DEF Choose

(* await_suspend() posts the node of a caller that need not wait, and       *)
(* registers the one that must.                                             *)
LEMMA SuspendStep ==
    ASSUME PoolInv, NEW c \in Callers, Suspend(c)
    PROVE  PoolInv'
<1> DEFINE r == caller[c]
           t == token[c]
           p == posted[c]
<1>h. /\ r \in CallerStates /\ t \in CallerTokens /\ p \in Postings /\ Fits(c, r, t, p)
  BY PoolHere
<1>i. /\ r.at = "suspending" /\ r.slot = 0 /\ ~r.queued /\ ~r.registered
      /\ p = << >> /\ t.op = Nobody
  BY <1>h, PoolHere DEF Suspend, Fits, CallerStates
<1>k. /\ caller = [caller EXCEPT ![c] = r] /\ token = [token EXCEPT ![c] = t]
      /\ posted = [posted EXCEPT ![c] = p] /\ waiters \in Seq(Callers)
      /\ leased \in Seq(BOOLEAN) /\ returning \in SUBSET Nat
  BY DEF PoolInv, PoolTyped
<1>u. UNCHANGED <<leased, token, returning, closer, idle, checkedOut>>
  BY DEF Suspend
<1>1. CASE /\ Move(c, "waiting") /\ Post(c, "resume")
           /\ UNCHANGED <<waiters, activeWaiters>>
  <2> DEFINE r1 == [r EXCEPT !.at = "waiting"]
  <2>0. caller' = [caller EXCEPT ![c] = r1]
    BY <1>1 DEF Move
  <2>1. posted' = [posted EXCEPT ![c] = <<"resume">>]
    <3>1. posted' = [posted EXCEPT ![c] = Append(p, "resume")]
      BY <1>1 DEF Post
    <3>2. Append(<< >>, "resume") = <<"resume">>
      OBVIOUS
    <3> HIDE DEF p
    <3> QED
      BY <1>i, <3>1, <3>2
  <2>2. r1 \in CallerStates /\ r1.slot = r.slot /\ r1.registered = r.registered
    BY <1>h DEF CallerStates, CallerPlaces
  <2>3. Fits(c, r1, t, <<"resume">>)
    BY <1>h, <1>i, PoolHere DEF Fits, CallerStates
  <2>4. <<"resume">> \in Postings
    BY DEF Postings
  <2> HIDE DEF r1
  <2>5. Becomes(c, r1, t, <<"resume">>) /\ waiters' \in Seq(Callers)
    BY <1>1, <1>h, <1>k, <1>u, <2>0, <2>1, <2>2, <2>3, <2>4 DEF Becomes
  <2> QED
    BY <1>1, <1>u, <2>2, <2>5, QuietCall
<1>2. CASE /\ ~Closing /\ waiters' = Append(waiters, c)
           /\ caller' = [caller EXCEPT ![c] =
                  [@ EXCEPT !.at = "registering", !.queued = TRUE, !.registered = TRUE]]
           /\ activeWaiters' = activeWaiters + 1 /\ UNCHANGED posted
  <2> DEFINE r1 == [r EXCEPT !.at = "registering", !.queued = TRUE, !.registered = TRUE]
  <2>0. caller' = [caller EXCEPT ![c] = r1]
    BY <1>2
  <2>2. r1 \in CallerStates /\ r1.slot = r.slot /\ r1.registered = TRUE
    BY <1>h DEF CallerStates, CallerPlaces
  <2>3. Fits(c, r1, t, p)
    BY <1>h, <1>i, PoolHere DEF Fits, CallerStates
  <2> HIDE DEF r1
  <2>4. Becomes(c, r1, t, p)
    BY <1>2, <1>h, <1>k, <1>u, <2>0, <2>2, <2>3 DEF Becomes
  <2>5. waiters' \in Seq(Callers)
    BY <1>2, <1>k
  <2>6. closer # "closed"
    BY <1>2 DEF Closing
  <2>7. PoolTyped' /\ WaitersFit' /\ NoneLate'
    BY <1>k, <1>u, <2>4, <2>5, <2>6, OneCaller
  <2>8. caller'[c] = r1 /\ \A d \in Callers : d # c => caller'[d] = caller[d]
    BY <2>0 DEF PoolInv, PoolTyped
  <2>9. OwnedOnce' /\ ClientsCounted'
    BY <1>u, <2>2, <2>8, SameLeases
  <2>10. WaitersCounted'
    <3>1. c \notin Waiting /\ Waiting' = Waiting \cup {c}
      BY <1>i, <2>2, <2>8 DEF Waiting
    <3>2. Cardinality(Waiting') = Cardinality(Waiting) + 1
      BY <3>1, PoolFinite, FS_AddElement
    <3> QED
      BY <1>2, <3>2 DEF PoolInv, WaitersCounted
  <2> QED
    BY <2>7, <2>9, <2>10 DEF PoolInv
<1> QED
  BY <1>1, <1>2 DEF Suspend

(* The rest of acquire(): with a client or without, it waits no more.       *)
LEMMA AfterWaitStep ==
    ASSUME PoolInv, NEW c \in Callers, AfterWait(c)
    PROVE  PoolInv'
<1> DEFINE r == caller[c]
           t == token[c]
           p == posted[c]
           r1 == IF r.slot # 0 THEN [NotCalling EXCEPT !.at = "holding", !.slot = r.slot] ELSE NotCalling
<1>h. /\ r \in CallerStates /\ t \in CallerTokens /\ p \in Postings /\ Fits(c, r, t, p)
  BY PoolHere
<1>i. r.at = "resumed" /\ p = << >> /\ t.op = Nobody
  BY <1>h, PoolHere DEF AfterWait, Fits, CallerStates
<1>k. /\ token = [token EXCEPT ![c] = t] /\ posted = [posted EXCEPT ![c] = p]
      /\ leased \in Seq(BOOLEAN) /\ returning \in SUBSET Nat
  BY DEF PoolInv, PoolTyped
<1>u. UNCHANGED <<leased, token, posted, returning, closer, idle, checkedOut>>
  BY DEF AfterWait
<1>1. caller' = [caller EXCEPT ![c] = r1]
  BY DEF AfterWait
<1>2. /\ r1 \in CallerStates /\ r1.slot = r.slot /\ r1.registered = FALSE /\ r1.queued = FALSE
      /\ r1.at = IF r.slot # 0 THEN "holding" ELSE "idle"
  BY <1>h DEF CallerStates, CallerPlaces, NotCalling
<1> HIDE DEF r1
<1>3. Fits(c, r1, t, p)
  BY <1>i, <1>2, PoolHere DEF Fits
<1>4. Becomes(c, r1, t, p)
  BY <1>h, <1>k, <1>u, <1>1, <1>2, <1>3 DEF Becomes
<1>5. waiters' \in Seq(Callers)
  BY WithoutOne DEF AfterWait
<1>6. PoolTyped' /\ WaitersFit' /\ NoneLate'
  BY <1>k, <1>u, <1>2, <1>4, <1>5, OneCaller
<1>7. caller'[c] = r1 /\ \A d \in Callers : d # c => caller'[d] = caller[d]
  BY <1>1 DEF PoolInv, PoolTyped
<1>8. OwnedOnce' /\ ClientsCounted'
  BY <1>u, <1>2, <1>7, SameLeases
<1>9. WaitersCounted'
  <2>1. Waiting' = Waiting \ {c} /\ (c \in Waiting <=> r.registered)
    BY <1>2, <1>7 DEF Waiting
  <2>2. Cardinality(Waiting') = IF c \in Waiting THEN Cardinality(Waiting) - 1 ELSE Cardinality(Waiting)
    BY <2>1, PoolFinite, FS_RemoveElement
  <2> QED
    BY <2>1, <2>2 DEF AfterWait, PoolInv, WaitersCounted
<1> QED
  BY <1>6, <1>8, <1>9 DEF PoolInv

-----------------------------------------------------------------------------
(* Between a caller, or a posted return, that lets go of client k and what  *)
(* release_locked() does with it: k is leased and nobody's.                 *)
Loose(k, callers) ==
    /\ k \in Taken /\ callers \in [Callers -> CallerStates]
    /\ \A d \in Callers : /\ Fits(d, callers[d], token[d], posted[d])
                          /\ callers[d].queued = caller[d].queued
                          /\ callers[d].registered = caller[d].registered
                          /\ callers[d].slot # 0 => callers[d].slot \in Taken \ returning'
                          /\ callers[d].slot # k
    /\ \A c, d \in Callers : callers[c].slot = callers[d].slot /\ callers[c].slot # 0 => c = d
    /\ returning' \subseteq Taken \ {k}
    /\ \A j \in Taken : j = k \/ j \in returning' \/ \E d \in Callers : callers[d].slot = j

(* release_locked() hands k to the first waiter that can still be           *)
(* completed, whose node it posts, or makes k idle.                         *)
LEMMA ReleaseStep ==
    ASSUME PoolInv, NEW k, NEW callers, Loose(k, callers), ReleaseLocked(k, callers),
           UNCHANGED <<closer, activeWaiters>>
    PROVE  PoolInv'
<1> DEFINE at == {i \in DOMAIN waiters : Completable(waiters[i])}
           first == IF Closing \/ at = {} THEN 0 ELSE Min(at)
           w == waiters[first]
           dropped == IF Closing THEN {} ELSE
                      {waiters[i] : i \in {j \in DOMAIN waiters : first = 0 \/ j <= first}}
           unqueued == [c \in Callers |-> IF c \in dropped THEN [callers[c] EXCEPT !.queued = FALSE]
                                         ELSE callers[c]]
<1>l. /\ leased \in Seq(BOOLEAN) /\ waiters \in Seq(Callers) /\ k \in Nat \ {0}
      /\ returning' \in SUBSET Nat /\ 0 \notin Taken
  BY PoolFinite DEF Loose
<1>m. callers \in [Callers -> CallerStates]
  BY DEF Loose
<1>a. /\ DOMAIN unqueued = Callers /\ unqueued = [c \in Callers |-> unqueued[c]]
      /\ \A c \in Callers :
            unqueued[c] = IF c \in dropped THEN [callers[c] EXCEPT !.queued = FALSE] ELSE callers[c]
  <2> HIDE DEF dropped
  <2> QED
    OBVIOUS
<1>b. first # 0 => /\ first \in 1 .. Len(waiters) /\ w \in Callers /\ Completable(w)
                   /\ w \in dropped
  <2> SUFFICES ASSUME first # 0
               PROVE  /\ first \in 1 .. Len(waiters) /\ w \in Callers /\ Completable(w)
                      /\ w \in dropped
    OBVIOUS
  <2>1. at \in SUBSET Nat /\ at # {} /\ first = Min(at) /\ ~Closing
    BY <1>l
  <2>2. first \in at
    <3> HIDE DEF at, first
    <3> QED
      BY <2>1, LeastNat
  <2> HIDE DEF first
  <2>3. first \in 1 .. Len(waiters) /\ waiters[first] \in Callers /\ Completable(waiters[first])
    BY <1>l, <2>2
  <2>4. first \in {j \in DOMAIN waiters : first = 0 \/ j <= first}
    BY <1>l, <2>3
  <2> QED
    BY <2>1, <2>3, <2>4
<1>d. \/ /\ first # 0
         /\ waiters' = SubSeq(waiters, first + 1, Len(waiters))
         /\ caller' = [unqueued EXCEPT ![w].slot = k]
         /\ token' = [token EXCEPT ![w] = Retired(@, w)]
         /\ Post(w, "resume")
         /\ UNCHANGED <<leased, idle, checkedOut>>
      \/ /\ waiters' = IF Closing THEN waiters ELSE << >>
         /\ caller' = unqueued
         /\ leased' = [leased EXCEPT ![k] = FALSE]
         /\ idle' = idle + 1 /\ checkedOut' = checkedOut - 1
         /\ UNCHANGED <<token, posted>>
  BY DEF ReleaseLocked
<1> HIDE DEF at, first, w, dropped, unqueued
<1>q. \A c \in Callers : /\ unqueued[c] \in CallerStates
                         /\ unqueued[c].at = callers[c].at /\ unqueued[c].slot = callers[c].slot
                         /\ unqueued[c].registered = callers[c].registered
                         /\ c \in dropped => unqueued[c].queued = FALSE
                         /\ c \notin dropped => unqueued[c] = callers[c]
  <2> SUFFICES ASSUME NEW c \in Callers
               PROVE  /\ unqueued[c] \in CallerStates
                      /\ unqueued[c].at = callers[c].at /\ unqueued[c].slot = callers[c].slot
                      /\ unqueued[c].registered = callers[c].registered
                      /\ c \in dropped => unqueued[c].queued = FALSE
                      /\ c \notin dropped => unqueued[c] = callers[c]
    OBVIOUS
  <2>1. callers[c] \in CallerStates
    BY <1>m
  <2>2. CASE c \in dropped
    <3>1. unqueued[c] = [callers[c] EXCEPT !.queued = FALSE]
      BY <1>a, <2>2
    <3> QED
      BY <2>1, <2>2, <3>1 DEF CallerStates
  <2>3. CASE c \notin dropped
    BY <1>a, <2>1, <2>3
  <2> QED
    BY <2>2, <2>3
<1>f. \A c \in Callers : Fits(c, unqueued[c], token[c], posted[c])
  <2> SUFFICES ASSUME NEW c \in Callers PROVE Fits(c, unqueued[c], token[c], posted[c])
    OBVIOUS
  <2>1. Fits(c, callers[c], token[c], posted[c])
    BY DEF Loose
  <2>2. CASE c \in dropped
    BY <1>q, <2>1, <2>2 DEF Fits
  <2>3. CASE c \notin dropped
    BY <1>q, <2>1, <2>3
  <2> QED
    BY <2>2, <2>3
<1>t. unqueued \in [Callers -> CallerStates]
  BY <1>a, <1>q
<1>1. CASE /\ first # 0
           /\ waiters' = SubSeq(waiters, first + 1, Len(waiters))
           /\ caller' = [unqueued EXCEPT ![w].slot = k]
           /\ token' = [token EXCEPT ![w] = Retired(@, w)]
           /\ Post(w, "resume")
           /\ UNCHANGED <<leased, idle, checkedOut>>
  <2>2. first \in 1 .. Len(waiters) /\ w \in Callers /\ Completable(w)
    BY <1>1, <1>b
  <2>3. w \in dropped
    BY <1>1, <1>b
  <2>4. waiters' \in Seq(Callers)
    BY <1>1, <1>l, <2>2
  <2>5. /\ callers[w].queued /\ callers[w].slot = 0 /\ callers[w].at = "waiting"
        /\ posted[w] = << >> /\ token[w].op = w
    BY <2>2, PoolHere DEF Completable, Completes, Loose, Fits
  <2> DEFINE r1 == [unqueued[w] EXCEPT !.slot = k]
  <2>6. /\ r1 \in CallerStates /\ r1.slot = k /\ r1.at = "waiting" /\ ~r1.queued
        /\ r1.registered = callers[w].registered
    BY <1>l, <1>q, <2>2, <2>3, <2>5 DEF CallerStates
  <2>7. caller' = [unqueued EXCEPT ![w] = r1]
    BY <1>1
  <2> HIDE DEF r1
  <2>8. posted' = [posted EXCEPT ![w] = <<"resume">>]
    <3>1. posted' = [posted EXCEPT ![w] = Append(posted[w], "resume")]
      BY <1>1 DEF Post
    <3>2. Append(<< >>, "resume") = <<"resume">>
      OBVIOUS
    <3> QED
      BY <2>5, <3>1, <3>2
  <2>9. token' = [token EXCEPT ![w] = Retired(token[w], w)]
    BY <1>1
  <2>10. Retired(token[w], w) \in CallerTokens /\ Retired(token[w], w).op = Nobody
    BY <2>2, <2>5, PoolHere, TokenOperations
  <2>11. Fits(w, r1, Retired(token[w], w), <<"resume">>) /\ <<"resume">> \in Postings
    BY <1>l, <1>q, <2>2, <2>6, <2>10, PoolHere DEF Fits, Postings, Loose
  <2>12. PoolTyped'
    BY <1>1, <1>l, <1>t, <2>2, <2>4, <2>6, <2>7, <2>8, <2>9, <2>10, <2>11 DEF PoolInv, PoolTyped
  <2>13. /\ caller'[w] = r1 /\ token'[w] = Retired(token[w], w) /\ posted'[w] = <<"resume">>
         /\ \A d \in Callers : d # w =>
               caller'[d] = unqueued[d] /\ token'[d] = token[d] /\ posted'[d] = posted[d]
    BY <1>t, <2>2, <2>7, <2>8, <2>9 DEF PoolInv, PoolTyped
  <2>14. WaitersFit'
    BY <1>f, <2>11, <2>13 DEF WaitersFit
  <2>15. \A d \in Callers : /\ caller'[d].registered = caller[d].registered
                            /\ caller'[d].slot = IF d = w THEN k ELSE callers[d].slot
    <3> TAKE d \in Callers
    <3>1. callers[d].registered = caller[d].registered
      BY DEF Loose
    <3>2. CASE d = w
      BY <2>6, <2>13, <3>1, <3>2
    <3>3. CASE d # w
      BY <1>q, <2>13, <3>1, <3>3
    <3> QED
      BY <3>2, <3>3
  <2>16. Taken' = Taken /\ IdleSlots' = IdleSlots
    BY <1>1 DEF Taken, IdleSlots
  <2>17. OwnedOnce'
    <3>1. \A d \in Callers : caller'[d].slot # 0 => caller'[d].slot \in Taken' \ returning'
      BY <2>15, <2>16 DEF Loose
    <3>2. \A d, e \in Callers : caller'[d].slot = caller'[e].slot /\ caller'[d].slot # 0 => d = e
      BY <2>15 DEF Loose
    <3>3. returning' \subseteq Taken'
      BY <2>16 DEF Loose
    <3>4. \A j \in Taken' : j \in returning' \/ \E d \in Callers : caller'[d].slot = j
      <4> TAKE j \in Taken'
      <4>1. CASE j = k
        BY <2>2, <2>15, <4>1
      <4>2. CASE \E d \in Callers : callers[d].slot = j
        <5>1. PICK d \in Callers : callers[d].slot = j
          BY <4>2
        <5>2. d # w
          BY <1>l, <2>5, <2>16, <5>1
        <5> QED
          BY <2>15, <5>1, <5>2
      <4> QED
        BY <2>16, <4>1, <4>2 DEF Loose
    <3> QED
      BY <3>1, <3>2, <3>3, <3>4 DEF OwnedOnce
  <2>18. ClientsCounted'
    BY <1>1, <2>16 DEF PoolInv, ClientsCounted
  <2>19. NoneLate' /\ WaitersCounted'
    BY <2>15, SameWaiters DEF PoolInv, NoneLate
  <2> QED
    BY <2>12, <2>14, <2>17, <2>18, <2>19 DEF PoolInv
<1>2. CASE /\ waiters' = IF Closing THEN waiters ELSE << >>
           /\ caller' = unqueued
           /\ leased' = [leased EXCEPT ![k] = FALSE]
           /\ idle' = idle + 1 /\ checkedOut' = checkedOut - 1
           /\ UNCHANGED <<token, posted>>
  <2>1. k \in DOMAIN leased /\ leased[k]
    BY DEF Loose, Taken
  <2>2. leased' \in Seq(BOOLEAN) /\ DOMAIN leased' = DOMAIN leased
    <3>1. leased \in [1 .. Len(leased) -> BOOLEAN] /\ Len(leased) \in Nat
      BY <1>l
    <3>2. leased' \in [1 .. Len(leased) -> BOOLEAN]
      BY <1>2, <3>1
    <3> QED
      BY <3>1, <3>2
  <2>3. /\ Taken' = Taken \ {k} /\ IdleSlots' = IdleSlots \cup {k}
        /\ k \in Taken /\ k \notin IdleSlots
    BY <1>2, <1>l, <2>1, <2>2 DEF Taken, IdleSlots
  <2>4. waiters' \in Seq(Callers)
    BY <1>2, <1>l
  <2>5. PoolTyped'
    BY <1>2, <1>l, <1>t, <2>2, <2>4 DEF PoolInv, PoolTyped
  <2>6. WaitersFit'
    BY <1>2, <1>f DEF WaitersFit
  <2>7. \A d \in Callers : /\ caller'[d].registered = caller[d].registered
                           /\ caller'[d].slot = callers[d].slot
    <3> TAKE d \in Callers
    <3>1. callers[d].registered = caller[d].registered
      BY DEF Loose
    <3> QED
      BY <1>2, <1>q, <3>1
  <2>8. OwnedOnce'
    <3>1. \A d \in Callers : caller'[d].slot # 0 => caller'[d].slot \in Taken' \ returning'
      BY <2>3, <2>7 DEF Loose
    <3>2. \A d, e \in Callers : caller'[d].slot = caller'[e].slot /\ caller'[d].slot # 0 => d = e
      BY <2>7 DEF Loose
    <3>3. returning' \subseteq Taken'
      BY <2>3 DEF Loose
    <3>4. \A j \in Taken' : j \in returning' \/ \E d \in Callers : caller'[d].slot = j
      BY <2>3, <2>7 DEF Loose
    <3> QED
      BY <3>1, <3>2, <3>3, <3>4 DEF OwnedOnce
  <2>9. ClientsCounted'
    <3>1. Cardinality(Taken') = Cardinality(Taken) - 1 /\ Cardinality(IdleSlots') = Cardinality(IdleSlots) + 1
      BY <2>3, PoolFinite, FS_RemoveElement, FS_AddElement
    <3> QED
      BY <1>2, <3>1 DEF PoolInv, ClientsCounted
  <2>10. NoneLate' /\ WaitersCounted'
    BY <2>7, SameWaiters DEF PoolInv, NoneLate
  <2> QED
    BY <2>5, <2>6, <2>8, <2>9, <2>10 DEF PoolInv
<1> QED
  BY <1>d, <1>1, <1>2

(* A lease is let go: released at once, posted, or taken up again.          *)
LEMMA ReturnSteps ==
    ASSUME PoolInv, \/ \E c \in Callers : ReturnLease(c)
                    \/ \E k \in DOMAIN leased : DispatchReturn(k)
    PROVE  PoolInv'
<1>o. OwnedOnce /\ caller \in [Callers -> CallerStates] /\ returning \in SUBSET Nat
  BY DEF PoolInv, PoolTyped
<1>1. ASSUME NEW c \in Callers, ReturnLease(c) PROVE PoolInv'
  <2> DEFINE k == caller[c].slot
             callers == [caller EXCEPT ![c] = NotCalling]
  <2>h. /\ caller[c] \in CallerStates /\ Fits(c, caller[c], token[c], posted[c]) /\ c # Nobody
    BY PoolHere
  <2>i. /\ caller[c].at = "holding" /\ k # 0 /\ ~caller[c].queued /\ ~caller[c].registered
        /\ posted[c] = << >> /\ token[c].op = Nobody
    BY <1>1, <2>h DEF ReturnLease, Fits, CallerStates
  <2>n. /\ NotCalling \in CallerStates /\ NotCalling.slot = 0 /\ NotCalling.at = "idle"
        /\ NotCalling.queued = FALSE /\ NotCalling.registered = FALSE
    BY DEF NotCalling, CallerStates, CallerPlaces
  <2>f. Fits(c, NotCalling, token[c], posted[c])
    BY <2>h, <2>i, <2>n DEF Fits
  <2>m. /\ callers[c] = NotCalling /\ \A d \in Callers : d # c => callers[d] = caller[d]
        /\ callers \in [Callers -> CallerStates]
    BY <1>o, <2>n
  <2>r. caller[c].queued = NotCalling.queued /\ caller[c].registered = NotCalling.registered
    BY <2>h, <2>i, <2>n DEF CallerStates
  <2>k. k \in Taken /\ k \notin returning
    BY <1>o, <2>i DEF OwnedOnce
  <2>1. CASE ReleaseLocked(k, callers) /\ UNCHANGED <<returning, closer, activeWaiters>>
    <3> HIDE DEF k, callers
    <3>1. \A d \in Callers : /\ Fits(d, callers[d], token[d], posted[d])
                             /\ callers[d].queued = caller[d].queued
                             /\ callers[d].registered = caller[d].registered
      <4> TAKE d \in Callers
      <4>1. CASE d = c
        BY <2>f, <2>m, <2>r, <4>1
      <4>2. CASE d # c
        BY <2>m, <4>2, PoolHere
      <4> QED
        BY <4>1, <4>2
    <3>2. \A d \in Callers : /\ callers[d].slot # 0 => callers[d].slot \in Taken \ returning'
                             /\ callers[d].slot # k
      <4> TAKE d \in Callers
      <4>1. CASE d = c
        BY <2>m, <2>n, <2>i, <4>1
      <4>2. CASE d # c
        BY <1>o, <2>m, <2>1, <2>i, <4>2 DEF OwnedOnce, k
      <4> QED
        BY <4>1, <4>2
    <3>3. \A d, e \in Callers : callers[d].slot = callers[e].slot /\ callers[d].slot # 0 => d = e
      BY <1>o, <2>m, <2>n DEF OwnedOnce
    <3>4. \A j \in Taken : j = k \/ j \in returning' \/ \E d \in Callers : callers[d].slot = j
      BY <1>o, <2>m, <2>1 DEF OwnedOnce, k
    <3>5. returning' \subseteq Taken \ {k}
      BY <1>o, <2>k, <2>1 DEF OwnedOnce
    <3>6. Loose(k, callers)
      BY <2>k, <2>m, <3>1, <3>2, <3>3, <3>4, <3>5 DEF Loose
    <3> QED
      BY <2>1, <3>6, ReleaseStep
  <2>2. CASE /\ returning' = returning \cup {k} /\ caller' = callers
             /\ UNCHANGED <<leased, waiters, token, posted, closer, idle, checkedOut, activeWaiters>>
    <3>1. caller' = [caller EXCEPT ![c] = NotCalling]
      BY <2>2
    <3> HIDE DEF callers
    <3>2. Becomes(c, NotCalling, token[c], posted[c])
      BY <2>2, <2>f, <2>n, <3>1, PoolHere DEF Becomes, PoolInv, PoolTyped
    <3>3. /\ leased' \in Seq(BOOLEAN) /\ waiters' \in Seq(Callers) /\ returning' \in SUBSET Nat
          /\ 0 \notin Taken
      BY <1>o, <2>2, <2>k, PoolFinite
    <3>4. PoolTyped' /\ WaitersFit' /\ NoneLate'
      BY <2>2, <2>n, <3>2, <3>3, OneCaller
    <3>5. Taken' = Taken /\ IdleSlots' = IdleSlots
      BY <2>2 DEF Taken, IdleSlots
    <3>6. caller'[c].slot = 0 /\ \A d \in Callers : d # c => caller'[d].slot = caller[d].slot
      BY <2>2, <2>m, <2>n
    <3>7. OwnedOnce'
      <4>1. \A d \in Callers : caller'[d].slot # 0 => caller'[d].slot \in Taken' \ returning'
        BY <1>o, <2>2, <2>i, <3>5, <3>6 DEF OwnedOnce
      <4>2. \A d, e \in Callers : caller'[d].slot = caller'[e].slot /\ caller'[d].slot # 0 => d = e
        BY <1>o, <3>6 DEF OwnedOnce
      <4>3. returning' \subseteq Taken'
        BY <1>o, <2>2, <2>k, <3>5 DEF OwnedOnce
      <4>4. \A j \in Taken' : j \in returning' \/ \E d \in Callers : caller'[d].slot = j
        BY <1>o, <2>2, <3>5, <3>6 DEF OwnedOnce
      <4> QED
        BY <4>1, <4>2, <4>3, <4>4 DEF OwnedOnce
    <3>8. ClientsCounted'
      BY <2>2, <3>5 DEF PoolInv, ClientsCounted
    <3>9. WaitersCounted'
      <4>1. \A d \in Callers : caller'[d].registered = caller[d].registered
        BY <2>2, <2>m, <2>r
      <4> QED
        BY <2>2, <4>1, SameWaiters
    <3> QED
      BY <3>4, <3>7, <3>8, <3>9 DEF PoolInv
  <2> QED
    BY <1>1, <2>1, <2>2 DEF ReturnLease
<1>2. ASSUME NEW k \in DOMAIN leased, DispatchReturn(k) PROVE PoolInv'
  <2>1. /\ k \in returning /\ returning' = returning \ {k} /\ ReleaseLocked(k, caller)
        /\ UNCHANGED <<closer, activeWaiters>>
    BY <1>2 DEF DispatchReturn
  <2>2. k \in Taken /\ returning' \subseteq Taken \ {k}
    BY <1>o, <2>1 DEF OwnedOnce
  <2>3. \A d \in Callers : /\ Fits(d, caller[d], token[d], posted[d])
                           /\ caller[d].slot # 0 => caller[d].slot \in Taken \ returning'
                           /\ caller[d].slot # k
    BY <1>o, <2>1, <2>2, PoolHere, PoolFinite DEF OwnedOnce
  <2>4. \A j \in Taken : j = k \/ j \in returning' \/ \E d \in Callers : caller[d].slot = j
    BY <1>o, <2>1 DEF OwnedOnce
  <2>5. Loose(k, caller)
    BY <1>o, <2>2, <2>3, <2>4 DEF Loose, OwnedOnce
  <2> QED
    BY <2>1, <2>5, ReleaseStep
<1> QED
  BY <1>1, <1>2

(* close() wakes everybody queued, and settles once nothing is leased and   *)
(* nobody registered.                                                       *)
LEMMA CloseSteps ==
    ASSUME PoolInv, PoolClose \/ CloseSettles
    PROVE  PoolInv'
<1>p. PoolTyped
  BY DEF PoolInv
<1>1. CASE PoolClose
  <2> DEFINE queue == Range(waiters)
             woken == {c \in Callers : c \in queue /\ Completable(c)}
  <2>1. /\ closer' = "draining" /\ waiters' = << >>
        /\ posted' = [c \in Callers |-> IF c \in woken THEN Append(posted[c], "resume") ELSE posted[c]]
        /\ token' = [c \in Callers |-> IF c \in woken THEN Retired(token[c], c) ELSE token[c]]
        /\ caller' = [c \in Callers |-> IF c \in queue THEN Unqueued(c) ELSE caller[c]]
        /\ UNCHANGED <<leased, returning, activeWaiters, idle, checkedOut>>
    BY <1>1 DEF PoolClose, Counters
  <2>w. \A c \in woken : c \in queue /\ Completable(c)
    OBVIOUS
  <2> HIDE DEF queue, woken
  <2>2. ASSUME NEW c \in Callers
        PROVE  /\ caller'[c] \in CallerStates /\ token'[c] \in CallerTokens /\ posted'[c] \in Postings
               /\ Fits(c, caller'[c], token'[c], posted'[c])
               /\ caller'[c].slot = caller[c].slot /\ caller'[c].registered = caller[c].registered
    <3>h. /\ caller[c] \in CallerStates /\ token[c] \in CallerTokens /\ posted[c] \in Postings
          /\ Fits(c, caller[c], token[c], posted[c]) /\ c # Nobody
      BY PoolHere
    <3>q. /\ Unqueued(c) \in CallerStates /\ Unqueued(c).queued = FALSE
          /\ Unqueued(c).at = caller[c].at /\ Unqueued(c).slot = caller[c].slot
          /\ Unqueued(c).registered = caller[c].registered
      BY <3>h DEF Unqueued, CallerStates
    <3>1. CASE c \in woken
      <4>1. /\ token[c].op = c /\ caller[c].at = "waiting" /\ posted[c] = << >>
        BY <2>w, <3>1, <3>h DEF Completable, Completes, Fits
      <4>2. Append(<< >>, "resume") = <<"resume">> /\ <<"resume">> \in Postings
        BY DEF Postings
      <4>3. Retired(token[c], c) \in CallerTokens /\ Retired(token[c], c).op = Nobody
        BY <3>h, <4>1, TokenOperations
      <4>4. posted'[c] = <<"resume">>
        BY <2>1, <3>1, <4>1, <4>2
      <4>5. caller'[c] = Unqueued(c) /\ token'[c] = Retired(token[c], c)
        BY <2>1, <2>w, <3>1
      <4>6. Fits(c, Unqueued(c), Retired(token[c], c), <<"resume">>)
        BY <3>h, <3>q, <4>1, <4>3 DEF Fits
      <4> QED
        BY <3>q, <4>2, <4>3, <4>4, <4>5, <4>6
    <3>2. CASE c \notin woken
      <4>1. token'[c] = token[c] /\ posted'[c] = posted[c]
        BY <2>1, <3>2
      <4>2. CASE c \in queue
        <5>1. caller'[c] = Unqueued(c)
          BY <2>1, <4>2
        <5>2. Fits(c, Unqueued(c), token[c], posted[c])
          BY <3>h, <3>q DEF Fits
        <5> QED
          BY <3>h, <3>q, <4>1, <5>1, <5>2
      <4>3. CASE c \notin queue
        BY <2>1, <3>h, <4>1, <4>3
      <4> QED
        BY <4>2, <4>3
    <3> QED
      BY <3>1, <3>2
  <2>3. PoolTyped'
    <3>1. caller' \in [Callers -> CallerStates]
      BY <2>1, <2>2
    <3>2. token' \in [Callers -> CallerTokens]
      BY <2>1, <2>2
    <3>3. posted' \in [Callers -> Postings]
      BY <2>1, <2>2
    <3> QED
      BY <1>p, <2>1, <3>1, <3>2, <3>3 DEF PoolTyped
  <2>4. WaitersFit' /\ NoneLate'
    BY <2>1, <2>2 DEF WaitersFit, NoneLate
  <2> QED
    BY <2>1, <2>2, <2>3, <2>4, SameLeases, SameWaiters DEF PoolInv
<1>2. CASE CloseSettles
  <2>1. /\ checkedOut = 0 /\ activeWaiters = 0 /\ leased' = << >> /\ idle' = 0 /\ closer' = "closed"
        /\ UNCHANGED <<waiters, caller, token, posted, returning, activeWaiters, checkedOut>>
    BY <1>2 DEF CloseSettles, Settled
  <2>2. Taken = {} /\ Waiting = {}
    BY <2>1, PoolFinite, FS_EmptySet DEF PoolInv, ClientsCounted, WaitersCounted
  <2>3. PoolTyped' /\ WaitersFit'
    BY <1>p, <2>1 DEF PoolTyped, PoolInv, WaitersFit
  <2>4. NoneLate'
    BY <2>1, <2>2 DEF NoneLate, Waiting
  <2>5. Taken' = {} /\ IdleSlots' = {} /\ Waiting' = {}
    BY <2>1, <2>2 DEF Taken, IdleSlots, Waiting
  <2>6. OwnedOnce'
    BY <2>1, <2>2, <2>5 DEF PoolInv, OwnedOnce
  <2>7. ClientsCounted' /\ WaitersCounted'
    BY <2>1, <2>5, FS_EmptySet DEF ClientsCounted, WaitersCounted
  <2> QED
    BY <2>3, <2>4, <2>6, <2>7 DEF PoolInv
<1> QED
  BY <1>1, <1>2

-----------------------------------------------------------------------------
LEMMA PoolInitially == CpInit => PoolInv
<1> SUFFICES ASSUME CpInit PROVE PoolInv
  OBVIOUS
<1>n. /\ NotCalling \in CallerStates /\ NotCalling.slot = 0 /\ NotCalling.at = "idle"
      /\ NotCalling.queued = FALSE /\ NotCalling.registered = FALSE
  BY DEF NotCalling, CallerStates, CallerPlaces
<1>t. FreshToken \in CallerTokens /\ FreshToken.op = Nobody /\ << >> \in Postings
  BY DEF FreshToken, CallerTokens, Postings
<1>1. PoolTyped
  BY <1>n, <1>t DEF CpInit, PoolTyped
<1>2. WaitersFit /\ NoneLate
  <2>1. \A c \in Callers : Fits(c, NotCalling, FreshToken, << >>)
    BY <1>n, <1>t, PoolAssumption DEF Fits
  <2> QED
    BY <2>1 DEF CpInit, WaitersFit, NoneLate
<1>3. Taken = {} /\ IdleSlots = {} /\ Waiting = {}
  BY <1>n DEF CpInit, Taken, IdleSlots, Waiting
<1>4. OwnedOnce /\ ClientsCounted /\ WaitersCounted
  BY <1>n, <1>3, FS_EmptySet DEF CpInit, OwnedOnce, ClientsCounted, WaitersCounted
<1> QED
  BY <1>1, <1>2, <1>4 DEF PoolInv

LEMMA PoolStep == PoolInv /\ [CpNext]_cpVars => PoolInv'
<1> SUFFICES ASSUME PoolInv, [CpNext]_cpVars PROVE PoolInv'
  OBVIOUS
<1>1. CASE UNCHANGED cpVars
  BY <1>1 DEF cpVars, PoolInv, PoolTyped, WaitersFit, NoneLate, OwnedOnce, ClientsCounted,
              WaitersCounted, Taken, IdleSlots, Waiting
<1>2. CASE \E c \in Callers : Call(c)
  BY <1>2, CallSteps
<1>3. ASSUME NEW c \in Callers, CpStep(c) PROVE PoolInv'
  BY <1>3, CallSteps, ChooseStep, SuspendStep, AfterWaitStep, ReturnSteps DEF CpStep
<1>4. CASE \E k \in DOMAIN leased : DispatchReturn(k)
  BY <1>4, ReturnSteps
<1>5. CASE PoolClose \/ CloseSettles
  BY <1>5, CloseSteps
<1> QED
  BY <1>1, <1>2, <1>3, <1>4, <1>5 DEF CpNext

LEMMA PoolAlways == CpSpec => []PoolInv
  BY PoolInitially, PoolStep, PTL DEF CpSpec

(* At most one element is counted as at most one.                           *)
LEMMA CountOfOne ==
    ASSUME NEW S, NEW x, S \subseteq {x}
    PROVE  Cardinality(S) = IF x \in S THEN 1 ELSE 0
<1>1. CASE x \in S
  <2>1. S = {x}
    BY <1>1
  <2> QED
    BY <1>1, <2>1, FS_Singleton
<1>2. CASE x \notin S
  <2>1. S = {}
    BY <1>2
  <2> QED
    BY <1>2, <2>1, FS_EmptySet
<1> QED
  BY <1>1, <1>2

(* Whatever order release, cancellation and close() come in, with any       *)
(* number of callers and clients, a leased client has one owner and the     *)
(* counters that close() waits for count the leases.                        *)
THEOREM PoolLeases == CpSpec => []LeasesAreExclusive
<1>1. ASSUME PoolInv PROVE LeasesAreExclusive
  <2>1. ASSUME NEW k \in DOMAIN leased
        PROVE  Cardinality({c \in Callers : caller[c].slot = k}) + (IF k \in returning THEN 1 ELSE 0)
                   = IF leased[k] THEN 1 ELSE 0
    <3> DEFINE owners == {c \in Callers : caller[c].slot = k}
    <3>o. OwnedOnce /\ k # 0
      BY <1>1, PoolFinite DEF PoolInv, Taken, IdleSlots
    <3>1. CASE \E c \in Callers : caller[c].slot = k
      <4>1. PICK c \in Callers : caller[c].slot = k
        BY <3>1
      <4>2. owners \subseteq {c} /\ c \in owners
        BY <3>o, <4>1 DEF OwnedOnce
      <4>3. leased[k] /\ k \notin returning
        BY <3>o, <4>1 DEF OwnedOnce, Taken
      <4> HIDE DEF owners
      <4>4. Cardinality(owners) = 1
        BY <4>2, CountOfOne
      <4> QED
        BY <4>3, <4>4 DEF owners
    <3>2. CASE ~\E c \in Callers : caller[c].slot = k
      <4>1. owners = {}
        BY <3>2
      <4>2. Cardinality(owners) = 0
        BY <4>1, FS_EmptySet
      <4>3. leased[k] <=> k \in returning
        BY <3>o, <3>2 DEF OwnedOnce, Taken
      <4> QED
        BY <4>2, <4>3
    <3> QED
      BY <3>1, <3>2
  <2>2. Taken = DOMAIN leased \ IdleSlots
    BY DEF Taken, IdleSlots
  <2> QED
    BY <1>1, <2>1, <2>2 DEF LeasesAreExclusive, PoolInv, ClientsCounted
<1> QED
  BY <1>1, PoolAlways, PTL

(* The node in the frame of a waiting acquire() is never in two queues,     *)
(* never outlives the wait, and has run before close() returns.             *)
THEOREM PoolNotifications == CpSpec => []NotificationsAreOwned
<1>1. ASSUME PoolInv PROVE NotificationsAreOwned
  <2> SUFFICES ASSUME NEW c \in Callers
               PROVE  /\ Len(posted[c]) <= 1
                      /\ posted[c] # << >> =>
                            caller[c].at = "waiting" /\ (caller[c].registered => closer # "closed")
    BY DEF NotificationsAreOwned
  <2>1. posted[c] \in Postings /\ Fits(c, caller[c], token[c], posted[c])
    BY <1>1, PoolHere
  <2>2. Len(posted[c]) <= 1
    <3>1. Len(<< >>) = 0 /\ Len(<<"resume">>) = 1 /\ Len(<<"cancel">>) = 1
      OBVIOUS
    <3>2. posted[c] = << >> \/ posted[c] = <<"resume">> \/ posted[c] = <<"cancel">>
      BY <2>1 DEF Postings
    <3>3. Len(posted[c]) = 0 \/ Len(posted[c]) = 1
      BY <3>1, <3>2
    <3>4. \A n \in {0, 1} : n <= 1
      OBVIOUS
    <3>5. Len(posted[c]) \in {0, 1}
      BY <3>3, Zenon
    <3> QED
      BY <3>4, <3>5, Zenon
  <2> QED
    BY <1>1, <2>1, <2>2 DEF Fits, PoolInv, NoneLate
<1> QED
  BY <1>1, PoolAlways, PTL

-----------------------------------------------------------------------------
(* The task group.  What the fields range over.                             *)
ActivePlaces == {"running", "registered", "error", "retiring", "sweeping"}
HoldingPlaces == {"reasoning", "publishing", "dispatching", "telling"}

ChildTokens == [reason : {"none", "caller", "deadline"}, cancelled : BOOLEAN, dispatched : BOOLEAN,
                op : Children \cup {Nobody}, notify : BOOLEAN]
Slots == [token : TokenIds, active : BOOLEAN]
ChildStates == [at : ActivePlaces \cup {"new", "retired", "done"}, slot : Nat,
                token : TokenIds \cup {0}]
SweepStates == [at : HoldingPlaces \cup {"idle", "counting", "picking", "end"}, i : Nat, n : Nat,
                token : TokenIds \cup {0}]

GroupTyped ==
    /\ tok \in [TokenIds -> ChildTokens] /\ slots \in Seq(Slots) /\ firstFree \in Seq(Nat)
    /\ child \in [Children -> ChildStates] /\ sweep \in [Sweepers -> SweepStates]

(* A child that has not retired has a slot of its own, which is active and  *)
(* refers to its token.                                                     *)
IsActive(c) == child[c].at \in ActivePlaces

OwnSlots ==
    /\ \A c \in Children : IsActive(c) =>
          /\ child[c].slot \in DOMAIN slots /\ slots[child[c].slot].active
          /\ slots[child[c].slot].token = child[c].token
    /\ \A c, d \in Children : IsActive(c) /\ IsActive(d) /\ child[c].slot = child[d].slot => c = d

(* No two slots refer to one token.                                         *)
OwnTokens == \A j, k \in DOMAIN slots : slots[j].token = slots[k].token => j = k

(* The free list holds slots that are not active, each once.                *)
FreeSlots ==
    /\ IsInjective(firstFree)
    /\ \A k : Contains(firstFree, k) => k \in DOMAIN slots /\ ~slots[k].active

(* A sweep stays among the slots there are, and whose token it holds has    *)
(* been picked.                                                             *)
SweepsPicked ==
    \A s \in Sweepers :
        /\ sweep[s].n <= Len(slots)
        /\ sweep[s].at = "picking" => sweep[s].i # 0
        /\ sweep[s].at \in HoldingPlaces =>
              /\ sweep[s].token \in TokenIds
              /\ \A c \in Children : IsActive(c) /\ child[c].token = sweep[s].token => c \in hit

GroupInv == GroupTyped /\ OwnSlots /\ OwnTokens /\ FreeSlots /\ SweepsPicked /\ CancelHitsItsChild

(* What CancelHitsItsChild asks of a child that is at work.                 *)
WorkingPlaces == {"running", "registered"}
Marked(t, c) == t.reason # "none" \/ t.cancelled \/ (t.op = c /\ ~t.notify)

LEMMA HitsSaid ==
    CancelHitsItsChild <=>
        \A c \in Children : child[c].at \in WorkingPlaces /\ Marked(tok[child[c].token], c) => c \in hit
BY DEF CancelHitsItsChild, WorkingPlaces, Marked

(* The records of children and sweeps have their fields.                    *)
LEMMA ChildHere ==
    ASSUME GroupInv, NEW c \in Children
    PROVE  /\ child[c] \in ChildStates /\ c # Nobody
           /\ IsActive(c) => /\ child[c].slot \in DOMAIN slots /\ slots[child[c].slot].active
                             /\ slots[child[c].slot].token = child[c].token
                             /\ child[c].token \in TokenIds /\ tok[child[c].token] \in ChildTokens
<1>1. child[c] \in ChildStates /\ c # Nobody
  BY TgAssumption DEF GroupInv, GroupTyped
<1>2. ASSUME IsActive(c)
      PROVE  /\ child[c].slot \in DOMAIN slots /\ slots[child[c].slot].active
             /\ slots[child[c].slot].token = child[c].token
             /\ child[c].token \in TokenIds /\ tok[child[c].token] \in ChildTokens
  <2>1. /\ child[c].slot \in DOMAIN slots /\ slots[child[c].slot].active
        /\ slots[child[c].slot].token = child[c].token
    BY <1>2 DEF GroupInv, OwnSlots
  <2>2. slots \in Seq(Slots)
    BY DEF GroupInv, GroupTyped
  <2>3. slots[child[c].slot] \in Slots
    BY <2>1, <2>2
  <2>4. child[c].token \in TokenIds
    BY <2>1, <2>3 DEF Slots
  <2> QED
    BY <2>1, <2>4 DEF GroupInv, GroupTyped
<1> QED
  BY <1>1, <1>2

(* Two children at work have two tokens.                                    *)
LEMMA TokensDiffer ==
    ASSUME GroupInv, NEW c \in Children, NEW d \in Children, IsActive(c), IsActive(d),
           child[c].token = child[d].token
    PROVE  c = d
<1>1. child[c].slot = child[d].slot
  BY ChildHere DEF GroupInv, OwnTokens
<1> QED
  BY <1>1 DEF GroupInv, OwnSlots

(* What the operations on a token leave.                                    *)
LEMMA ChildTokenOperations ==
    ASSUME NEW t \in ChildTokens, NEW c \in Children
    PROVE  /\ FreshToken \in ChildTokens /\ ~Marked(FreshToken, c)
           /\ Registered(t, c) \in ChildTokens /\ (Marked(Registered(t, c), c) => Marked(t, c))
           /\ Retired(t, c) \in ChildTokens /\ (Marked(Retired(t, c), c) => Marked(t, c))
           /\ \A r \in {"caller", "deadline"} : Reasoned(t, r) \in ChildTokens
           /\ Published(t) \in ChildTokens /\ Dispatched(t) \in ChildTokens
           /\ (IF Tells(t) THEN Told(t) ELSE t) \in ChildTokens
<1>a. c # Nobody
  BY TgAssumption
<1>1. FreshToken \in ChildTokens /\ ~Marked(FreshToken, c)
  BY <1>a DEF FreshToken, ChildTokens, Marked
<1>2. Registered(t, c) \in ChildTokens /\ (Marked(Registered(t, c), c) => Marked(t, c))
  BY DEF Registered, ChildTokens, Marked
<1>3. Retired(t, c) \in ChildTokens /\ (Marked(Retired(t, c), c) => Marked(t, c))
  BY <1>a DEF Retired, ChildTokens, Marked
<1>4. \A r \in {"caller", "deadline"} : Reasoned(t, r) \in ChildTokens
  BY DEF Reasoned, ChildTokens
<1>5. Published(t) \in ChildTokens /\ Dispatched(t) \in ChildTokens
  BY DEF Published, Dispatched, ChildTokens
<1>6. (IF Tells(t) THEN Told(t) ELSE t) \in ChildTokens
  BY DEF Told, ChildTokens
<1> QED
  BY <1>1, <1>2, <1>3, <1>4, <1>5, <1>6

(* A step marks the token of no child at work that has not been picked.     *)
Unmarked ==
    /\ tok' \in [TokenIds -> ChildTokens]
    /\ \A d \in Children : child[d].at \in WorkingPlaces /\ Marked(tok'[child[d].token], d) =>
           Marked(tok[child[d].token], d) \/ d \in hit

(* Neither a child that changes its own token ...                           *)
LEMMA ChildTouches ==
    ASSUME GroupInv, NEW c \in Children, IsActive(c), NEW x \in ChildTokens,
           tok' = [tok EXCEPT ![child[c].token] = x], Marked(x, c) => Marked(tok[child[c].token], c)
    PROVE  Unmarked
<1>1. /\ tok \in [TokenIds -> ChildTokens] /\ child[c].token \in TokenIds
  BY ChildHere DEF GroupInv, GroupTyped
<1>2. ASSUME NEW d \in Children, child[d].at \in WorkingPlaces, Marked(tok'[child[d].token], d)
      PROVE  Marked(tok[child[d].token], d)
  <2>1. IsActive(d) /\ child[d].token \in TokenIds
    BY <1>2, ChildHere DEF IsActive, ActivePlaces, WorkingPlaces
  <2>2. CASE d = c
    BY <1>1, <1>2, <2>2
  <2>3. CASE d # c
    <3>1. child[d].token # child[c].token
      BY <2>1, <2>3, TokensDiffer
    <3> QED
      BY <1>1, <1>2, <2>1, <3>1
  <2> QED
    BY <2>2, <2>3
<1> QED
  BY <1>1, <1>2 DEF Unmarked

(* ... nor a sweep that changes the token it holds.                         *)
LEMMA SweepTouches ==
    ASSUME GroupInv, NEW s \in Sweepers, sweep[s].at \in HoldingPlaces, NEW x \in ChildTokens,
           tok' = [tok EXCEPT ![sweep[s].token] = x]
    PROVE  Unmarked
<1>1. /\ tok \in [TokenIds -> ChildTokens] /\ sweep[s].token \in TokenIds
      /\ \A c \in Children : IsActive(c) /\ child[c].token = sweep[s].token => c \in hit
  BY DEF GroupInv, GroupTyped, SweepsPicked
<1>2. ASSUME NEW d \in Children, child[d].at \in WorkingPlaces, Marked(tok'[child[d].token], d)
      PROVE  Marked(tok[child[d].token], d) \/ d \in hit
  <2>1. IsActive(d) /\ child[d].token \in TokenIds
    BY <1>2, ChildHere DEF IsActive, ActivePlaces, WorkingPlaces
  <2>2. CASE child[d].token = sweep[s].token
    BY <1>1, <2>1, <2>2
  <2>3. CASE child[d].token # sweep[s].token
    BY <1>1, <1>2, <2>1, <2>3
  <2> QED
    BY <2>2, <2>3
<1> QED
  BY <1>1, <1>2 DEF Unmarked

LEMMA NothingTouched ==
    ASSUME GroupInv, UNCHANGED tok
    PROVE  Unmarked
BY DEF Unmarked, GroupInv, GroupTyped

(* A child that works, or is active, did so before, with its slot and token.*)
Keeps(c) ==
    /\ child'[c].at \in WorkingPlaces => child[c].at \in WorkingPlaces
    /\ child'[c].at \in ActivePlaces =>
          child[c].at \in ActivePlaces /\ child'[c].slot = child[c].slot /\ child'[c].token = child[c].token

(* A sweep that holds a token held it before.                               *)
Carries(s) ==
    /\ sweep'[s].n <= Len(slots) /\ (sweep'[s].at = "picking" => sweep'[s].i # 0)
    /\ sweep'[s].at \in HoldingPlaces =>
          sweep[s].at \in HoldingPlaces /\ sweep'[s].token = sweep[s].token

(* Steps that hand out no slot and no token keep the invariant.             *)
LEMMA GroupQuiet ==
    ASSUME GroupInv, UNCHANGED <<slots, firstFree, hit>>, Unmarked,
           child' \in [Children -> ChildStates], \A c \in Children : Keeps(c),
           sweep' \in [Sweepers -> SweepStates], \A s \in Sweepers : Carries(s)
    PROVE  GroupInv'
<1>1. GroupTyped'
  BY DEF GroupInv, GroupTyped, Unmarked
<1>2. OwnSlots'
  BY DEF GroupInv, OwnSlots, Keeps, IsActive
<1>3. OwnTokens' /\ FreeSlots'
  BY DEF GroupInv, OwnTokens, FreeSlots
<1>4. SweepsPicked'
  <2> SUFFICES ASSUME NEW s \in Sweepers
               PROVE  /\ sweep'[s].n <= Len(slots')
                      /\ sweep'[s].at = "picking" => sweep'[s].i # 0
                      /\ sweep'[s].at \in HoldingPlaces =>
                            /\ sweep'[s].token \in TokenIds
                            /\ \A c \in Children :
                                  child'[c].at \in ActivePlaces /\ child'[c].token = sweep'[s].token => c \in hit'
    BY DEF SweepsPicked, IsActive
  <2>1. Carries(s) /\ slots' = slots
    OBVIOUS
  <2>2. ASSUME sweep'[s].at \in HoldingPlaces
        PROVE  /\ sweep'[s].token \in TokenIds
               /\ \A c \in Children :
                     child'[c].at \in ActivePlaces /\ child'[c].token = sweep'[s].token => c \in hit'
    BY <2>1, <2>2 DEF Carries, Keeps, GroupInv, SweepsPicked, IsActive
  <2> QED
    BY <2>1, <2>2 DEF Carries
<1>5. CancelHitsItsChild'
  <2>1. ASSUME NEW c \in Children, child'[c].at \in WorkingPlaces, Marked(tok'[child'[c].token], c)
        PROVE  c \in hit'
    <3>1. child'[c].token = child[c].token /\ child[c].at \in WorkingPlaces
      BY <2>1 DEF Keeps, ActivePlaces, WorkingPlaces
    <3>2. Marked(tok[child[c].token], c) \/ c \in hit
      BY <2>1, <3>1 DEF Unmarked
    <3> QED
      BY <3>1, <3>2, HitsSaid DEF GroupInv
  <2> QED
    BY <2>1 DEF CancelHitsItsChild, WorkingPlaces, Marked
<1> QED
  BY <1>1, <1>2, <1>3, <1>4, <1>5 DEF GroupInv

(* One child goes on; it stays at work only if it was at work.              *)
LEMMA OneChild ==
    ASSUME GroupInv, NEW c \in Children, NEW at,
           at \in ActivePlaces \cup {"retired"}, child[c].at \in ActivePlaces,
           at \in WorkingPlaces => child[c].at \in WorkingPlaces,
           child' = [child EXCEPT ![c].at = at]
    PROVE  child' \in [Children -> ChildStates] /\ \A d \in Children : Keeps(d)
<1> DEFINE r == [child[c] EXCEPT !.at = at]
<1>1. child \in [Children -> ChildStates] /\ child[c] \in ChildStates
  BY DEF GroupInv, GroupTyped
<1>2. r \in ChildStates /\ r.at = at /\ r.slot = child[c].slot /\ r.token = child[c].token
  BY <1>1 DEF ChildStates
<1>3. child' = [child EXCEPT ![c] = r]
  OBVIOUS
<1> HIDE DEF r
<1>4. child'[c] = r /\ \A d \in Children : d # c => child'[d] = child[d]
  BY <1>1, <1>3
<1>5. \A d \in Children : Keeps(d)
  BY <1>2, <1>4 DEF Keeps
<1> QED
  BY <1>1, <1>2, <1>3, <1>5

(* One sweep goes on.                                                       *)
LEMMA OneSweep ==
    ASSUME GroupInv, NEW s \in Sweepers, NEW w \in SweepStates, sweep' = [sweep EXCEPT ![s] = w],
           w.n <= Len(slots), w.at = "picking" => w.i # 0,
           w.at \in HoldingPlaces => sweep[s].at \in HoldingPlaces /\ w.token = sweep[s].token
    PROVE  sweep' \in [Sweepers -> SweepStates] /\ \A z \in Sweepers : Carries(z)
<1>1. sweep \in [Sweepers -> SweepStates]
  BY DEF GroupInv, GroupTyped
<1>2. sweep'[s] = w /\ \A z \in Sweepers : z # s => sweep'[z] = sweep[z]
  BY <1>1
<1>3. \A z \in Sweepers : Carries(z)
  BY <1>2 DEF Carries, GroupInv, SweepsPicked
<1> QED
  BY <1>1, <1>3

LEMMA ChildrenStay ==
    ASSUME GroupInv, UNCHANGED child
    PROVE  child' \in [Children -> ChildStates] /\ \A d \in Children : Keeps(d)
BY DEF GroupInv, GroupTyped, Keeps

LEMMA SweepsStay ==
    ASSUME GroupInv, UNCHANGED sweep
    PROVE  sweep' \in [Sweepers -> SweepStates] /\ \A z \in Sweepers : Carries(z)
BY DEF GroupInv, GroupTyped, SweepsPicked, Carries

(* The steps of a child, but for the first and the last two.                *)
LEMMA ChildSteps ==
    ASSUME GroupInv, NEW c \in Children,
           Register(c) \/ Complete(c) \/ Finish(c) \/ Return(c) \/ Fail(c)
    PROVE  GroupInv'
<1> DEFINE t == tok[child[c].token]
<1>a. \A p \in ActivePlaces : child[c].at = p => t \in ChildTokens /\ child[c].at \in ActivePlaces /\ IsActive(c)
  BY ChildHere DEF IsActive
<1>p. /\ {"running", "registered", "error", "retiring", "sweeping"} = ActivePlaces
      /\ {"running", "registered"} = WorkingPlaces
  BY DEF ActivePlaces, WorkingPlaces
<1>1. CASE Register(c)
  <2>1. /\ child[c].at = "running" /\ tok' = [tok EXCEPT ![child[c].token] = Registered(t, c)]
        /\ UNCHANGED <<slots, firstFree, sweep, hit>>
    BY <1>1 DEF Register
  <2>2. PICK at \in WorkingPlaces \cup {"error"} : child' = [child EXCEPT ![c].at = at]
    BY <1>1, <1>p DEF Register, Outcome
  <2>3. Unmarked
    BY <1>a, <1>p, <2>1, ChildTouches, ChildTokenOperations
  <2>4. child' \in [Children -> ChildStates] /\ \A d \in Children : Keeps(d)
    BY <1>p, <2>1, <2>2, OneChild
  <2> QED
    BY <2>1, <2>3, <2>4, SweepsStay, GroupQuiet
<1>2. CASE Complete(c) \/ Finish(c)
  <2>1. /\ child[c].at = "registered" /\ tok' = [tok EXCEPT ![child[c].token] = Retired(t, c)]
        /\ UNCHANGED <<slots, firstFree, sweep, hit>>
    BY <1>2 DEF Complete, Finish
  <2>2. PICK at \in WorkingPlaces \cup {"error"} : child' = [child EXCEPT ![c].at = at]
    BY <1>2, <1>p DEF Complete, Finish, Outcome
  <2>3. Unmarked
    BY <1>a, <1>p, <2>1, ChildTouches, ChildTokenOperations
  <2>4. child' \in [Children -> ChildStates] /\ \A d \in Children : Keeps(d)
    BY <1>p, <2>1, <2>2, OneChild
  <2> QED
    BY <2>1, <2>3, <2>4, SweepsStay, GroupQuiet
<1>3. CASE Return(c)
  <2>1. child[c].at = "running" /\ UNCHANGED <<tok, slots, firstFree, sweep, hit>>
    BY <1>3 DEF Return
  <2>2. PICK at \in {"retiring", "error"} : child' = [child EXCEPT ![c].at = at]
    BY <1>3 DEF Return, Outcome
  <2>4. child' \in [Children -> ChildStates] /\ \A d \in Children : Keeps(d)
    BY <1>p, <2>1, <2>2, OneChild
  <2> QED
    BY <2>1, <2>4, NothingTouched, SweepsStay, GroupQuiet
<1>4. CASE Fail(c)
  <2>1. child[c].at = "error" /\ UNCHANGED <<tok, slots, firstFree, hit>>
    BY <1>4 DEF Fail
  <2>2. PICK at \in {"retiring", "sweeping"} : child' = [child EXCEPT ![c].at = at]
    BY <1>4 DEF Fail, Outcome
  <2>3. child' \in [Children -> ChildStates] /\ \A d \in Children : Keeps(d)
    BY <1>p, <2>1, <2>2, OneChild
  <2>4. sweep' \in [Sweepers -> SweepStates] /\ \A z \in Sweepers : Carries(z)
    <3>1. CASE UNCHANGED sweep
      BY <3>1, SweepsStay
    <3>2. CASE StartSweep(c)
      <4> DEFINE w == [sweep[c] EXCEPT !.at = "counting"]
      <4>1. sweep' = [sweep EXCEPT ![c] = w] /\ c \in Sweepers
        BY <3>2 DEF StartSweep, Sweepers
      <4>2. sweep[c] \in SweepStates /\ sweep[c].n <= Len(slots)
        BY <4>1 DEF GroupInv, GroupTyped, SweepsPicked
      <4>3. w \in SweepStates /\ w.at = "counting" /\ w.n = sweep[c].n
        BY <4>2 DEF SweepStates
      <4> HIDE DEF w
      <4> QED
        BY <4>1, <4>2, <4>3, OneSweep DEF HoldingPlaces
    <3> QED
      BY <1>4, <3>1, <3>2 DEF Fail
  <2> QED
    BY <2>1, <2>3, <2>4, NothingTouched, GroupQuiet
<1> QED
  BY <1>1, <1>2, <1>3, <1>4

(* The steps of a sweep, and what starts one from outside.                  *)
LEMMA SweepSteps ==
    ASSUME GroupInv, NEW s \in Sweepers,
           \/ CountSlots(s) \/ Reason(s) \/ Publish(s) \/ Dispatch(s) \/ Tell(s)
           \/ s = "deadline" /\ DeadlineElapses
           \/ s = "caller" /\ CallCancel
    PROVE  GroupInv'
<1> DEFINE r == sweep[s]
           t == tok[r.token]
           moves(at) == [r EXCEPT !.at = at]
           next == [r EXCEPT !.at = "picking", !.i = r.i + 1, !.token = 0]
<1>h. /\ r \in SweepStates /\ r.n <= Len(slots) /\ Len(slots) \in Nat
      /\ sweep \in [Sweepers -> SweepStates]
  BY DEF GroupInv, GroupTyped, SweepsPicked
<1>t. r.at \in HoldingPlaces => t \in ChildTokens
  BY DEF GroupInv, GroupTyped, SweepsPicked
<1>n. /\ next \in SweepStates /\ next.n = r.n /\ next.at = "picking" /\ next.i # 0
  <2>1. r.i \in Nat
    BY <1>h DEF SweepStates
  <2>2. r.i + 1 \in Nat /\ r.i + 1 # 0
    BY <2>1
  <2> QED
    BY <1>h, <2>2 DEF SweepStates
<1>v. \A at \in HoldingPlaces \cup {"idle", "counting", "end"} :
         moves(at) \in SweepStates /\ moves(at).n = r.n /\ moves(at).at = at /\ moves(at).token = r.token
  BY <1>h DEF SweepStates
<1>p. HoldingPlaces = {"reasoning", "publishing", "dispatching", "telling"}
  BY DEF HoldingPlaces
<1>m. ASSUME NEW at \in HoldingPlaces \cup {"idle", "counting", "end"},
             sweep' = [sweep EXCEPT ![s] = moves(at)], at \in HoldingPlaces => r.at \in HoldingPlaces
      PROVE  sweep' \in [Sweepers -> SweepStates] /\ \A z \in Sweepers : Carries(z)
  <2> DEFINE w == moves(at)
  <2>1. w \in SweepStates /\ w.n = r.n /\ w.at = at /\ w.token = r.token
    BY <1>v
  <2>2. sweep' = [sweep EXCEPT ![s] = w]
    BY <1>m
  <2> HIDE DEF w, moves
  <2>3. w.at # "picking"
    BY <1>p, <2>1
  <2> QED
    BY <1>h, <1>m, <2>1, <2>2, <2>3, OneSweep
<1>o. ASSUME sweep' = MoveOn(s)
      PROVE  sweep' \in [Sweepers -> SweepStates] /\ \A z \in Sweepers : Carries(z)
  <2>1. sweep' = [sweep EXCEPT ![s] = next]
    BY <1>o DEF MoveOn
  <2> HIDE DEF next
  <2> QED
    BY <1>h, <1>n, <1>p, <2>1, OneSweep
<1>g. \A at : Goes(s, at) = [sweep EXCEPT ![s] = moves(at)]
  BY DEF Goes
<1> HIDE DEF next, moves
<1>c. ASSUME NEW x \in ChildTokens, tok' = [tok EXCEPT ![r.token] = x], r.at \in HoldingPlaces
      PROVE  Unmarked
  BY <1>c, SweepTouches
<1>1. CASE CountSlots(s)
  <2> DEFINE w == [r EXCEPT !.at = "picking", !.i = 1, !.n = Len(slots)]
  <2>1. sweep' = [sweep EXCEPT ![s] = w] /\ UNCHANGED <<tok, slots, firstFree, child, hit>>
    BY <1>1 DEF CountSlots
  <2>2. w \in SweepStates /\ w.n = Len(slots) /\ w.at = "picking" /\ w.i = 1
    BY <1>h DEF SweepStates
  <2> HIDE DEF w
  <2>3. sweep' \in [Sweepers -> SweepStates] /\ \A z \in Sweepers : Carries(z)
    <3>1. w.n <= Len(slots) /\ w.i # 0 /\ w.at \notin HoldingPlaces
      BY <1>h, <1>p, <2>2
    <3> QED
      BY <2>1, <2>2, <3>1, OneSweep
  <2> QED
    BY <2>1, <2>3, NothingTouched, ChildrenStay, GroupQuiet
<1>2. CASE Reason(s)
  <2>1. r.at = "reasoning" /\ UNCHANGED <<slots, firstFree, child, hit>>
    BY <1>2 DEF Reason
  <2>2. \/ sweep' = Goes(s, "publishing") \/ sweep' = MoveOn(s) \/ sweep' = Goes(s, "dispatching")
    BY <1>2 DEF Reason
  <2>3. sweep' \in [Sweepers -> SweepStates] /\ \A z \in Sweepers : Carries(z)
    BY <1>g, <1>m, <1>o, <1>p, <2>1, <2>2
  <2>4. PICK why \in {"caller", "deadline"} : tok' = [tok EXCEPT ![r.token] = Reasoned(t, why)]
    BY <1>2 DEF Reason
  <2>5. Reasoned(t, why) \in ChildTokens
    BY <1>p, <1>t, <2>1 DEF Reasoned, ChildTokens
  <2>6. Unmarked
    BY <1>c, <1>p, <2>1, <2>4, <2>5
  <2> QED
    BY <2>1, <2>3, <2>6, ChildrenStay, GroupQuiet
<1>3. CASE Publish(s)
  <2>1. /\ r.at = "publishing" /\ UNCHANGED <<slots, firstFree, child, hit>>
        /\ sweep' = Goes(s, "dispatching") /\ tok' = [tok EXCEPT ![r.token] = Published(t)]
    BY <1>3 DEF Publish
  <2>2. Published(t) \in ChildTokens
    BY <1>p, <1>t, <2>1 DEF Published, ChildTokens
  <2>3. sweep' \in [Sweepers -> SweepStates] /\ \A z \in Sweepers : Carries(z)
    BY <1>g, <1>m, <1>p, <2>1
  <2>4. Unmarked
    BY <1>c, <1>p, <2>1, <2>2
  <2> QED
    BY <2>1, <2>3, <2>4, ChildrenStay, GroupQuiet
<1>4. CASE Dispatch(s)
  <2>1. r.at = "dispatching" /\ UNCHANGED <<slots, firstFree, child, hit>>
    BY <1>4 DEF Dispatch
  <2>2. \/ sweep' = Goes(s, "telling") /\ tok' = [tok EXCEPT ![r.token] = Dispatched(t)]
        \/ sweep' = MoveOn(s) /\ UNCHANGED tok
    BY <1>4 DEF Dispatch
  <2>3. Dispatched(t) \in ChildTokens
    BY <1>p, <1>t, <2>1 DEF Dispatched, ChildTokens
  <2>4. sweep' \in [Sweepers -> SweepStates] /\ \A z \in Sweepers : Carries(z)
    BY <1>g, <1>m, <1>o, <1>p, <2>1, <2>2
  <2>5. Unmarked
    BY <1>c, <1>p, <2>1, <2>2, <2>3, NothingTouched
  <2> QED
    BY <2>1, <2>4, <2>5, ChildrenStay, GroupQuiet
<1>5. CASE Tell(s)
  <2> DEFINE x == IF Tells(t) THEN Told(t) ELSE t
  <2>1. /\ r.at = "telling" /\ UNCHANGED <<slots, firstFree, child, hit>>
        /\ sweep' = MoveOn(s) /\ tok' = [tok EXCEPT ![r.token] = x]
    BY <1>5 DEF Tell
  <2>2. x \in ChildTokens
    BY <1>p, <1>t, <2>1 DEF Told, ChildTokens
  <2> HIDE DEF x
  <2>3. Unmarked
    BY <1>c, <1>p, <2>1, <2>2
  <2> QED
    BY <1>o, <2>1, <2>3, ChildrenStay, GroupQuiet
<1>6. CASE (s = "deadline" /\ DeadlineElapses) \/ (s = "caller" /\ CallCancel)
  <2>1. UNCHANGED <<tok, slots, firstFree, child, hit>>
    BY <1>6 DEF DeadlineElapses, CallCancel
  <2>2. sweep' = [sweep EXCEPT ![s] = moves("end")] \/ sweep' = [sweep EXCEPT ![s] = moves("counting")]
    BY <1>6 DEF DeadlineElapses, CallCancel, StartSweep, moves
  <2>3. sweep' \in [Sweepers -> SweepStates] /\ \A z \in Sweepers : Carries(z)
    BY <1>m, <1>p, <2>2
  <2> QED
    BY <2>1, <2>3, NothingTouched, ChildrenStay, GroupQuiet
<1> QED
  BY <1>1, <1>2, <1>3, <1>4, <1>5, <1>6

(* A sweep goes past a slot, or picks whoever occupies it.                  *)
LEMMA PickStep ==
    ASSUME GroupInv, NEW s \in Sweepers, Pick(s)
    PROVE  GroupInv'
<1> DEFINE r == sweep[s]
<1>h. /\ r \in SweepStates /\ r.n <= Len(slots) /\ Len(slots) \in Nat /\ slots \in Seq(Slots)
      /\ sweep \in [Sweepers -> SweepStates] /\ r.at = "picking" /\ r.i # 0 /\ r.i \in Nat /\ r.n \in Nat
  BY DEF GroupInv, GroupTyped, SweepsPicked, Pick, SweepStates
<1>u. UNCHANGED <<tok, slots, firstFree, child>>
  BY DEF Pick
<1>p. HoldingPlaces = {"reasoning", "publishing", "dispatching", "telling"}
  BY DEF HoldingPlaces
<1>1. CASE sweep' = [sweep EXCEPT ![s].at = "end"] /\ UNCHANGED hit
  <2> DEFINE w == [r EXCEPT !.at = "end"]
  <2>1. sweep' = [sweep EXCEPT ![s] = w]
    BY <1>1
  <2>2. w \in SweepStates /\ w.n = r.n /\ w.at = "end"
    BY <1>h DEF SweepStates
  <2> HIDE DEF w
  <2>3. sweep' \in [Sweepers -> SweepStates] /\ \A z \in Sweepers : Carries(z)
    BY <1>h, <1>p, <2>1, <2>2, OneSweep
  <2> QED
    BY <1>1, <1>u, <2>3, NothingTouched, ChildrenStay, GroupQuiet
<1>2. CASE sweep' = [sweep EXCEPT ![s].i = @ + 1] /\ UNCHANGED hit
  <2> DEFINE w == [r EXCEPT !.i = r.i + 1]
  <2>1. sweep' = [sweep EXCEPT ![s] = w]
    BY <1>2
  <2>a. r.i + 1 \in Nat /\ r.i + 1 # 0
    BY <1>h
  <2>2. w \in SweepStates /\ w.n = r.n /\ w.at = "picking" /\ w.i # 0
    BY <1>h, <2>a DEF SweepStates
  <2> HIDE DEF w
  <2>3. w.n <= Len(slots) /\ w.at \notin HoldingPlaces
    BY <1>h, <1>p, <2>2
  <2>4. sweep' \in [Sweepers -> SweepStates] /\ \A z \in Sweepers : Carries(z)
    BY <2>1, <2>2, <2>3, OneSweep
  <2> QED
    BY <1>2, <1>u, <2>4, NothingTouched, ChildrenStay, GroupQuiet
<1>3. CASE /\ r.i <= r.n /\ slots[r.i].active
           /\ sweep' = [sweep EXCEPT ![s] = [@ EXCEPT !.at = "reasoning", !.token = slots[r.i].token]]
           /\ hit' = hit \cup Occupant(r.i)
  <2> DEFINE w == [r EXCEPT !.at = "reasoning", !.token = slots[r.i].token]
  <2>1. sweep' = [sweep EXCEPT ![s] = w]
    BY <1>3
  <2>2. r.i \in DOMAIN slots /\ slots[r.i] \in Slots
    BY <1>h, <1>3
  <2>3. slots[r.i].token \in TokenIds
    BY <2>2 DEF Slots
  <2>4. w \in SweepStates /\ w.n = r.n /\ w.at = "reasoning" /\ w.token = slots[r.i].token
    BY <1>h, <2>3 DEF SweepStates, HoldingPlaces
  <2> HIDE DEF w
  <2>5. sweep'[s] = w /\ \A z \in Sweepers : z # s => sweep'[z] = sweep[z]
    BY <1>h, <2>1
  <2>6. GroupTyped'
    BY <1>h, <1>u, <2>1, <2>4 DEF GroupInv, GroupTyped
  <2>7. OwnSlots' /\ OwnTokens' /\ FreeSlots'
    BY <1>u DEF GroupInv, OwnSlots, OwnTokens, FreeSlots, IsActive
  <2>8. \A c \in Children : IsActive(c) /\ child[c].token = slots[r.i].token => c \in Occupant(r.i)
    <3> TAKE c \in Children
    <3> HAVE IsActive(c) /\ child[c].token = slots[r.i].token
    <3>1. child[c].slot = r.i
      BY <2>2, ChildHere DEF GroupInv, OwnTokens
    <3> QED
      BY <3>1 DEF Occupant, IsActive, ActivePlaces
  <2>9. SweepsPicked'
    <3> SUFFICES ASSUME NEW z \in Sweepers
                 PROVE  /\ sweep'[z].n <= Len(slots')
                        /\ sweep'[z].at = "picking" => sweep'[z].i # 0
                        /\ sweep'[z].at \in HoldingPlaces =>
                              /\ sweep'[z].token \in TokenIds
                              /\ \A c \in Children :
                                    child'[c].at \in ActivePlaces /\ child'[c].token = sweep'[z].token => c \in hit'
      BY DEF SweepsPicked, IsActive
    <3>1. CASE z = s
      BY <1>3, <1>h, <1>u, <2>3, <2>4, <2>5, <2>8, <3>1 DEF IsActive
    <3>2. CASE z # s
      BY <1>3, <1>u, <2>5, <3>2 DEF GroupInv, SweepsPicked, IsActive
    <3> QED
      BY <3>1, <3>2
  <2>10. CancelHitsItsChild'
    BY <1>3, <1>u DEF GroupInv, CancelHitsItsChild
  <2> QED
    BY <2>6, <2>7, <2>9, <2>10 DEF GroupInv
<1> QED
  BY <1>1, <1>2, <1>3 DEF Pick

(* A list with one more element at its front.                               *)
LEMMA FirstAdded ==
    ASSUME NEW S, NEW q \in Seq(S), NEW x \in S, IsInjective(q), ~Contains(q, x)
    PROVE  /\ <<x>> \o q \in Seq(S) /\ IsInjective(<<x>> \o q)
           /\ \A y : Contains(<<x>> \o q, y) <=> y = x \/ Contains(q, y)
<1> DEFINE p == <<x>> \o q
<1>1. <<x>> \in Seq(S) /\ Len(<<x>>) = 1 /\ <<x>>[1] = x
  OBVIOUS
<1>2. /\ p \in Seq(S) /\ Len(p) = Len(q) + 1 /\ p[1] = x /\ Len(q) \in Nat
      /\ \A i \in 2 .. Len(p) : p[i] = q[i - 1]
  BY <1>1
<1> HIDE DEF p
<1>3. \A i \in 2 .. Len(p) : i - 1 \in 1 .. Len(q) /\ i - 1 \in DOMAIN q
  BY <1>2
<1>4. \A i \in 1 .. Len(p) : i = 1 \/ i \in 2 .. Len(p)
  BY <1>2
<1>5. IsInjective(p)
  <2> SUFFICES ASSUME NEW a \in 1 .. Len(p), NEW b \in 1 .. Len(p), p[a] = p[b] PROVE a = b
    BY <1>2 DEF IsInjective
  <2>1. \A i \in 2 .. Len(p) : p[i] # x
    BY <1>2, <1>3 DEF Contains
  <2>2. CASE a = 1 \/ b = 1
    BY <1>2, <1>4, <2>1, <2>2
  <2>3. CASE a \in 2 .. Len(p) /\ b \in 2 .. Len(p)
    BY <1>2, <1>3, <2>3 DEF IsInjective
  <2> QED
    BY <1>4, <2>2, <2>3
<1>6. ASSUME NEW y PROVE Contains(p, y) <=> y = x \/ Contains(q, y)
  <2>1. ASSUME Contains(p, y) PROVE y = x \/ Contains(q, y)
    BY <1>2, <1>3, <1>4, <2>1 DEF Contains
  <2>2. ASSUME y = x PROVE Contains(p, y)
    BY <1>2, <2>2 DEF Contains
  <2>3. ASSUME Contains(q, y) PROVE Contains(p, y)
    <3>1. PICK i \in 1 .. Len(q) : q[i] = y
      BY <2>3 DEF Contains
    <3>2. i + 1 \in 2 .. Len(p) /\ i + 1 \in 1 .. Len(p) /\ (i + 1) - 1 = i
      BY <1>2
    <3>3. p[i + 1] = y
      BY <1>2, <3>1, <3>2
    <3> QED
      BY <3>2, <3>3 DEF Contains
  <2> QED
    BY <2>1, <2>2, <2>3
<1> QED
  BY <1>2, <1>5, <1>6 DEF p

(* A child gives its slot back, then its token.                             *)
LEMMA LeaveSteps ==
    ASSUME GroupInv, NEW c \in Children, Retire(c) \/ DoneChild(c)
    PROVE  GroupInv'
<1>h. child \in [Children -> ChildStates] /\ child[c] \in ChildStates
  BY DEF GroupInv, GroupTyped
<1>1. CASE DoneChild(c)
  <2> DEFINE r == [child[c] EXCEPT !.at = "done", !.token = 0]
  <2>1. /\ child' = [child EXCEPT ![c] = r] /\ UNCHANGED <<tok, slots, firstFree, sweep, hit>>
    BY <1>1 DEF DoneChild
  <2>2. r \in ChildStates /\ r.at = "done"
    BY <1>h DEF ChildStates
  <2> HIDE DEF r
  <2>3. child' \in [Children -> ChildStates] /\ \A d \in Children : Keeps(d)
    BY <1>h, <2>1, <2>2 DEF Keeps, ActivePlaces, WorkingPlaces
  <2> QED
    BY <2>1, <2>3, NothingTouched, SweepsStay, GroupQuiet
<1>2. CASE Retire(c)
  <2> DEFINE k == child[c].slot
  <2>1. /\ slots' = [slots EXCEPT ![k].active = FALSE] /\ firstFree' = <<k>> \o firstFree
        /\ child' = [child EXCEPT ![c].at = "retired"] /\ UNCHANGED <<tok, sweep, hit>>
        /\ child[c].at \in ActivePlaces
    BY <1>2 DEF Retire, Outcome, ActivePlaces
  <2>2. k \in DOMAIN slots /\ slots[k].active /\ slots[k].token = child[c].token
    BY <2>1, ChildHere DEF IsActive
  <2>3. child' \in [Children -> ChildStates] /\ \A d \in Children : Keeps(d)
    BY <2>1, OneChild DEF ActivePlaces, WorkingPlaces
  <2>4. child'[c].at = "retired" /\ \A d \in Children : d # c => child'[d] = child[d]
    BY <1>h, <2>1
  <2>s. slots \in Seq(Slots) /\ firstFree \in Seq(Nat) /\ k \in Nat
    BY <1>h DEF GroupInv, GroupTyped, ChildStates
  <2> DEFINE e == [slots[k] EXCEPT !.active = FALSE]
  <2>5. e \in Slots /\ e.token = slots[k].token /\ e.active = FALSE
    <3>1. slots[k] \in Slots
      BY <2>2, <2>s
    <3> QED
      BY <3>1 DEF Slots
  <2>6. slots' = [slots EXCEPT ![k] = e]
    BY <2>1
  <2> HIDE DEF e, k
  <2>7. /\ slots' \in Seq(Slots) /\ DOMAIN slots' = DOMAIN slots /\ Len(slots') = Len(slots)
        /\ slots'[k] = e /\ \A j \in DOMAIN slots : j # k => slots'[j] = slots[j]
    BY <2>2, <2>5, <2>6, <2>s
  <2>8. /\ firstFree' \in Seq(Nat) /\ IsInjective(firstFree')
        /\ \A y : Contains(firstFree', y) <=> y = k \/ Contains(firstFree, y)
    <3>1. IsInjective(firstFree) /\ ~Contains(firstFree, k)
      BY <2>2 DEF GroupInv, FreeSlots
    <3> QED
      BY <2>1, <2>s, <3>1, FirstAdded
  <2>9. GroupTyped'
    BY <2>1, <2>3, <2>7, <2>8 DEF GroupInv, GroupTyped
  <2>10. OwnSlots'
    <3>1. \A d \in Children : child'[d].at \in ActivePlaces =>
             /\ d # c /\ IsActive(d) /\ child'[d] = child[d] /\ child[d].slot # k
      BY <2>1, <2>4 DEF ActivePlaces, IsActive, GroupInv, OwnSlots, k
    <3> QED
      BY <2>7, <3>1 DEF GroupInv, OwnSlots, IsActive
  <2>11. OwnTokens'
    <3>1. \A j \in DOMAIN slots : slots'[j].token = slots[j].token
      BY <2>5, <2>7
    <3> QED
      BY <2>7, <3>1 DEF GroupInv, OwnTokens
  <2>12. FreeSlots'
    BY <2>2, <2>5, <2>7, <2>8 DEF GroupInv, FreeSlots
  <2>13. SweepsPicked'
    BY <2>1, <2>3, <2>7 DEF Keeps, GroupInv, SweepsPicked, IsActive
  <2>14. CancelHitsItsChild'
    BY <2>1, <2>4 DEF GroupInv, CancelHitsItsChild
  <2> QED
    BY <2>9, <2>10, <2>11, <2>12, <2>13, <2>14 DEF GroupInv
<1> QED
  BY <1>1, <1>2

(* A token that nobody refers to is nobody's, and one that its slot alone   *)
(* refers to is no child's, no sweep's and no other slot's.                 *)
LEMMA UseCount ==
    ASSUME GroupInv, NEW i
    PROVE  /\ Holders(i) = 0 =>
                 /\ \A k \in DOMAIN slots : slots[k].token # i
                 /\ \A c \in Children : child[c].token # i
                 /\ \A s \in Sweepers : sweep[s].token # i
           /\ \A k \in DOMAIN slots : slots[k].token = i /\ Holders(i) = 1 =>
                 /\ \A c \in Children : child[c].token # i
                 /\ \A s \in Sweepers : sweep[s].token # i
<1> DEFINE A == {k \in DOMAIN slots : slots[k].token = i}
           B == {c \in Children : child[c].token = i}
           C == {s \in Sweepers : sweep[s].token = i}
<1>1. IsFiniteSet(A)
  <2>1. slots \in Seq(Slots)
    BY DEF GroupInv, GroupTyped
  <2>2. DOMAIN slots = 1 .. Len(slots) /\ Len(slots) \in Nat
    BY <2>1
  <2>3. IsFiniteSet(1 .. Len(slots))
    BY <2>2, FS_Interval
  <2> QED
    BY <2>2, <2>3, FS_Subset
<1>2. IsFiniteSet(B)
  BY TgAssumption, FS_Subset
<1>3. IsFiniteSet(C)
  <2>1. IsFiniteSet({"caller"} \cup {"deadline"})
    BY FS_Singleton, FS_Union
  <2>2. {"caller"} \cup {"deadline"} = {"caller", "deadline"}
    OBVIOUS
  <2>3. IsFiniteSet(Sweepers)
    BY <2>1, <2>2, TgAssumption, FS_Union DEF Sweepers
  <2> QED
    BY <2>3, FS_Subset
<1>4. Holders(i) = Cardinality(A) + Cardinality(B) + Cardinality(C)
  BY DEF Holders
<1>a. \A k \in DOMAIN slots : slots[k].token = i => k \in A
  OBVIOUS
<1>b. B = {} => \A c \in Children : child[c].token # i
  OBVIOUS
<1>c. C = {} => \A s \in Sweepers : sweep[s].token # i
  OBVIOUS
<1> HIDE DEF A, B, C
<1>5. Cardinality(A) \in Nat /\ Cardinality(B) \in Nat /\ Cardinality(C) \in Nat
  BY <1>1, <1>2, <1>3, FS_CardinalityType
<1>6. Holders(i) = 0 => A = {} /\ B = {} /\ C = {}
  <2> HAVE Holders(i) = 0
  <2>1. Cardinality(A) = 0 /\ Cardinality(B) = 0 /\ Cardinality(C) = 0
    BY <1>4, <1>5
  <2> QED
    BY <1>1, <1>2, <1>3, <2>1, FS_EmptySet
<1>7. Holders(i) = 1 /\ A # {} => B = {} /\ C = {}
  <2> HAVE Holders(i) = 1 /\ A # {}
  <2>1. Cardinality(A) # 0
    BY <1>1, FS_EmptySet
  <2>2. Cardinality(B) = 0 /\ Cardinality(C) = 0
    BY <1>4, <1>5, <2>1
  <2> QED
    BY <1>2, <1>3, <2>2, FS_EmptySet
<1> QED
  BY <1>6, <1>7, <1>a, <1>b, <1>c

(* run() gives a child a slot that nobody occupies and a token that nobody  *)
(* else, no finishing child and no sweep, refers to.                        *)
LEMMA RunStep ==
    ASSUME GroupInv, NEW c \in Children, Run(c)
    PROVE  GroupInv'
<1> DEFINE k == IF firstFree = << >> THEN Len(slots) + 1 ELSE Head(firstFree)
           t == IF firstFree = << >> THEN MakeShared ELSE Recycled(k)
           entry == [token |-> t, active |-> TRUE]
           r == [at |-> "running", slot |-> k, token |-> t]
<1>1. /\ child[c].at = "new" /\ Unheld # {}
      /\ slots' = IF k > Len(slots) THEN Append(slots, entry) ELSE [slots EXCEPT ![k] = entry]
      /\ firstFree' = IF firstFree = << >> THEN firstFree ELSE Tail(firstFree)
      /\ tok' = [tok EXCEPT ![t] = FreshToken]
      /\ child' = [child EXCEPT ![c] = r]
      /\ UNCHANGED <<sweep, hit>>
  BY DEF Run
<1>h. /\ tok \in [TokenIds -> ChildTokens] /\ slots \in Seq(Slots) /\ firstFree \in Seq(Nat)
      /\ child \in [Children -> ChildStates] /\ sweep \in [Sweepers -> SweepStates]
      /\ Len(slots) \in Nat /\ DOMAIN slots = 1 .. Len(slots)
  BY DEF GroupInv, GroupTyped
<1>m. MakeShared \in TokenIds /\ Holders(MakeShared) = 0
  <2>1. Cardinality(Children) \in Nat
    BY TgAssumption, FS_CardinalityType
  <2>2. Unheld \in SUBSET Nat
    BY <2>1 DEF Unheld, TokenIds
  <2>3. MakeShared \in Unheld
    BY <1>1, <2>2, LeastNat DEF MakeShared
  <2> QED
    BY <2>3 DEF Unheld
<1>2. /\ k \in Nat \ {0} /\ (firstFree = << >> => k = Len(slots) + 1)
      /\ firstFree # << >> => k \in DOMAIN slots /\ ~slots[k].active
      /\ firstFree' \in Seq(Nat) /\ IsInjective(firstFree')
      /\ \A j : Contains(firstFree', j) => Contains(firstFree, j) /\ j # k
  <2>1. CASE firstFree = << >>
    BY <1>1, <1>h, <2>1, EmptyQueue
  <2>2. CASE firstFree # << >>
    <3>1. IsInjective(firstFree) /\ \A j : Contains(firstFree, j) => j \in DOMAIN slots /\ ~slots[j].active
      BY DEF GroupInv, FreeSlots
    <3>2. /\ Contains(firstFree, Head(firstFree)) /\ Tail(firstFree) \in Seq(Nat)
          /\ IsInjective(Tail(firstFree))
          /\ \A j : Contains(Tail(firstFree), j) <=> (j # Head(firstFree) /\ Contains(firstFree, j))
      BY <1>h, <2>2, <3>1, TailQueue
    <3>3. k = Head(firstFree) /\ firstFree' = Tail(firstFree)
      BY <1>1, <2>2
    <3> HIDE DEF k
    <3>4. k \in DOMAIN slots /\ ~slots[k].active
      BY <3>1, <3>2, <3>3
    <3>5. k \in Nat \ {0}
      BY <1>h, <3>4
    <3> QED
      BY <2>2, <3>2, <3>3, <3>4, <3>5
  <2> QED
    BY <2>1, <2>2
<1> HIDE DEF k
<1>3. /\ t \in TokenIds
      /\ \A j \in DOMAIN slots : slots[j].token = t => j = k
      /\ \A d \in Children : child[d].token # t
      /\ \A s \in Sweepers : sweep[s].token # t
  <2>1. CASE firstFree = << >> \/ Holders(slots[k].token) # 1
    <3>1. t = MakeShared
      BY <2>1 DEF Recycled
    <3> HIDE DEF t
    <3> QED
      BY <1>m, <3>1, UseCount
  <2>2. CASE firstFree # << >> /\ Holders(slots[k].token) = 1
    <3>1. t = slots[k].token /\ k \in DOMAIN slots
      BY <1>2, <2>2 DEF Recycled
    <3> HIDE DEF t
    <3>2. t \in TokenIds
      <4>1. slots[k] \in Slots
        BY <1>h, <3>1
      <4> QED
        BY <3>1, <4>1 DEF Slots
    <3>3. \A j \in DOMAIN slots : slots[j].token = t => j = k
      BY <3>1 DEF GroupInv, OwnTokens
    <3>4. /\ \A d \in Children : child[d].token # t
          /\ \A s \in Sweepers : sweep[s].token # t
      BY <2>2, <3>1, UseCount
    <3> QED
      BY <3>2, <3>3, <3>4
  <2> QED
    BY <2>1, <2>2
<1> HIDE DEF t
<1>e. entry \in Slots /\ entry.token = t /\ entry.active = TRUE
  BY <1>3 DEF Slots
<1>r. r \in ChildStates /\ r.at = "running" /\ r.slot = k /\ r.token = t
  BY <1>2, <1>3 DEF ChildStates, ActivePlaces
<1> HIDE DEF entry, r
<1>4. /\ slots' \in Seq(Slots) /\ DOMAIN slots' = DOMAIN slots \cup {k} /\ Len(slots) <= Len(slots')
      /\ slots'[k] = entry /\ \A j \in DOMAIN slots : j # k => slots'[j] = slots[j]
  <2>1. CASE firstFree = << >>
    <3>0. k = Len(slots) + 1 /\ k > Len(slots)
      BY <1>2, <1>h, <2>1
    <3>1. slots' = Append(slots, entry)
      BY <1>1, <3>0
    <3>2. /\ slots' \in Seq(Slots) /\ DOMAIN slots' = DOMAIN slots \cup {k} /\ k \notin DOMAIN slots
          /\ slots'[k] = entry /\ \A j \in DOMAIN slots : slots'[j] = slots[j]
      BY <1>e, <1>h, <3>0, <3>1, LastAdded
    <3>3. Len(slots) <= Len(slots')
      BY <1>e, <1>h, <3>1
    <3> QED
      BY <3>2, <3>3
  <2>2. CASE firstFree # << >>
    <3>1. k \in 1 .. Len(slots) /\ ~(k > Len(slots))
      BY <1>2, <1>h, <2>2
    <3>2. slots' = [slots EXCEPT ![k] = entry]
      BY <1>1, <3>1
    <3> QED
      BY <1>e, <1>h, <3>1, <3>2
  <2> QED
    BY <2>1, <2>2
<1>5. child'[c] = r /\ \A d \in Children : d # c => child'[d] = child[d]
  BY <1>1, <1>h
<1>6. tok'[t] = FreshToken /\ \A i \in TokenIds : i # t => tok'[i] = tok[i]
  BY <1>1, <1>3, <1>h
<1>7. GroupTyped'
  <2>1. FreshToken \in ChildTokens
    BY DEF FreshToken, ChildTokens
  <2> QED
    BY <1>1, <1>2, <1>3, <1>4, <1>h, <1>r, <2>1 DEF GroupTyped
<1>8. \A d \in Children : IsActive(d) => d # c /\ child[d].slot # k /\ child[d].slot \in DOMAIN slots
  <2> TAKE d \in Children
  <2> HAVE IsActive(d)
  <2>1. d # c
    BY <1>1 DEF IsActive, ActivePlaces
  <2>2. child[d].slot \in DOMAIN slots /\ slots[child[d].slot].active
    BY ChildHere
  <2>3. k \notin DOMAIN slots \/ ~slots[k].active
    BY <1>2, <1>h
  <2> QED
    BY <2>1, <2>2, <2>3
<1>9. OwnSlots'
  <2>1. \A d \in Children : child'[d].at \in ActivePlaces => d = c \/ (d # c /\ IsActive(d) /\ child'[d] = child[d])
    BY <1>5 DEF IsActive
  <2>2. ASSUME NEW d \in Children, child'[d].at \in ActivePlaces
        PROVE  /\ child'[d].slot \in DOMAIN slots' /\ slots'[child'[d].slot].active
               /\ slots'[child'[d].slot].token = child'[d].token
    <3>1. CASE d = c
      BY <1>4, <1>5, <1>e, <1>r, <3>1
    <3>2. CASE d # c
      BY <1>4, <1>8, <2>1, <2>2, <3>2, ChildHere
    <3> QED
      BY <3>1, <3>2
  <2>3. ASSUME NEW d \in Children, NEW e \in Children, child'[d].at \in ActivePlaces,
               child'[e].at \in ActivePlaces, child'[d].slot = child'[e].slot
        PROVE  d = e
    <3>1. CASE d = c \/ e = c
      BY <1>5, <1>8, <1>r, <2>1, <2>3, <3>1
    <3>2. CASE d # c /\ e # c
      BY <2>1, <2>3, <3>2 DEF GroupInv, OwnSlots
    <3> QED
      BY <3>1, <3>2
  <2> QED
    BY <2>2, <2>3 DEF OwnSlots, IsActive
<1>10. OwnTokens'
  <2> SUFFICES ASSUME NEW i \in DOMAIN slots', NEW j \in DOMAIN slots', slots'[i].token = slots'[j].token
               PROVE  i = j
    BY DEF OwnTokens
  <2>1. CASE i = k \/ j = k
    BY <1>3, <1>4, <1>e, <2>1
  <2>2. CASE i # k /\ j # k
    BY <1>4, <2>2 DEF GroupInv, OwnTokens
  <2> QED
    BY <2>1, <2>2
<1>11. FreeSlots'
  BY <1>2, <1>4 DEF GroupInv, FreeSlots
<1>12. SweepsPicked'
  <2> SUFFICES ASSUME NEW z \in Sweepers
               PROVE  /\ sweep'[z].n <= Len(slots')
                      /\ sweep'[z].at = "picking" => sweep'[z].i # 0
                      /\ sweep'[z].at \in HoldingPlaces =>
                            /\ sweep'[z].token \in TokenIds
                            /\ \A d \in Children :
                                  child'[d].at \in ActivePlaces /\ child'[d].token = sweep'[z].token => d \in hit'
    BY DEF SweepsPicked, IsActive
  <2>0. sweep' = sweep /\ hit' = hit
    BY <1>1
  <2>1. sweep'[z].n <= Len(slots')
    <3>1. sweep[z].n \in Nat /\ sweep[z].n <= Len(slots)
      BY <1>h DEF GroupInv, SweepsPicked, SweepStates
    <3>2. Len(slots') \in Nat
      BY <1>4
    <3> QED
      BY <1>4, <1>h, <2>0, <3>1, <3>2
  <2>2. \A d \in Children : child'[d].at \in ActivePlaces /\ child'[d].token = sweep[z].token =>
           IsActive(d) /\ child[d].token = sweep[z].token
    BY <1>3, <1>5, <1>r DEF IsActive
  <2> QED
    BY <2>0, <2>1, <2>2 DEF GroupInv, SweepsPicked
<1>13. CancelHitsItsChild'
  <2>1. ASSUME NEW d \in Children, child'[d].at \in WorkingPlaces, Marked(tok'[child'[d].token], d)
        PROVE  d \in hit'
    <3>1. d # c
      <4>1. ~Marked(FreshToken, d)
        BY TgAssumption DEF Marked, FreshToken
      <4> QED
        BY <1>5, <1>6, <1>r, <2>1, <4>1
    <3>2. child[d].at \in WorkingPlaces /\ child'[d] = child[d]
      BY <1>5, <2>1, <3>1
    <3>3. child[d].token \in TokenIds /\ child[d].token # t
      BY <1>3, <3>2, ChildHere DEF IsActive, ActivePlaces, WorkingPlaces
    <3>4. Marked(tok[child[d].token], d)
      BY <1>6, <2>1, <3>2, <3>3
    <3> QED
      BY <1>1, <3>2, <3>4, HitsSaid DEF GroupInv
  <2> QED
    BY <2>1 DEF CancelHitsItsChild, WorkingPlaces, Marked
<1> QED
  BY <1>7, <1>9, <1>10, <1>11, <1>12, <1>13 DEF GroupInv

-----------------------------------------------------------------------------
LEMMA GroupInitially == TgInit => GroupInv
<1> SUFFICES ASSUME TgInit PROVE GroupInv
  OBVIOUS
<1>1. FreshToken \in ChildTokens
  BY DEF FreshToken, ChildTokens
<1>2. GroupTyped
  BY <1>1 DEF TgInit, GroupTyped, ChildStates, SweepStates
<1>3. \A c \in Children : child[c].at = "new"
  BY DEF TgInit
<1>4. OwnSlots /\ CancelHitsItsChild
  BY <1>3 DEF OwnSlots, IsActive, ActivePlaces, CancelHitsItsChild
<1>5. OwnTokens /\ FreeSlots
  BY EmptyQueue DEF TgInit, OwnTokens, FreeSlots
<1>6. SweepsPicked
  <2>1. \A s \in Sweepers : sweep[s].at = "idle" /\ sweep[s].n = 0
    BY DEF TgInit
  <2>2. Len(slots) = 0
    BY DEF TgInit
  <2> QED
    BY <2>1, <2>2 DEF SweepsPicked, HoldingPlaces
<1> QED
  BY <1>2, <1>4, <1>5, <1>6 DEF GroupInv

LEMMA GroupStep == GroupInv /\ [TgNext]_tgVars => GroupInv'
<1> SUFFICES ASSUME GroupInv, [TgNext]_tgVars PROVE GroupInv'
  OBVIOUS
<1>1. CASE UNCHANGED tgVars
  <2>1. UNCHANGED <<tok, slots, firstFree, child, sweep, hit>>
    BY <1>1 DEF tgVars
  <2> QED
    BY <2>1, NothingTouched, ChildrenStay, SweepsStay, GroupQuiet
<1>2. ASSUME NEW c \in Children, Run(c) \/ ChildEnds(c) \/ Complete(c) \/ Return(c) PROVE GroupInv'
  BY <1>2, RunStep, ChildSteps, LeaveSteps DEF ChildEnds
<1>3. ASSUME NEW s \in Sweepers, SweepStep(s) PROVE GroupInv'
  BY <1>3, SweepSteps, PickStep DEF SweepStep
<1>4. CASE DeadlineElapses \/ CallCancel
  <2>1. "deadline" \in Sweepers /\ "caller" \in Sweepers
    BY DEF Sweepers
  <2> QED
    BY <1>4, <2>1, SweepSteps
<1>5. CASE Seal
  <2>1. UNCHANGED <<tok, slots, firstFree, child, sweep, hit>>
    BY <1>5 DEF Seal
  <2> QED
    BY <2>1, NothingTouched, ChildrenStay, SweepsStay, GroupQuiet
<1> QED
  BY <1>1, <1>2, <1>3, <1>4, <1>5 DEF TgNext

(* However many children there are, and however slots and tokens are        *)
(* reused, only a child that a sweep has picked finds its token cancelled   *)
(* or its operation told (task_group.cpp:72).                               *)
THEOREM GroupCancelsItsOwn == TgSpec => []CancelHitsItsChild
<1>1. GroupInv => CancelHitsItsChild
  BY DEF GroupInv
<1> QED
  BY <1>1, GroupInitially, GroupStep, PTL DEF TgSpec
=============================================================================
