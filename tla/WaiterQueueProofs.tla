------------------------- MODULE WaiterQueueProofs --------------------------
(***************************************************************************)
(* Facts about the data that several components keep: the intrusive FIFO    *)
(* waiter lists of the coroutine primitives, in which a list without        *)
(* duplicates stays so when a new waiter is linked behind it or its head is *)
(* unlinked, and the first index of many.                                   *)
(***************************************************************************)
EXTENDS Naturals, Sequences, SequencesExt, WellFoundedInduction, TLAPS

(* The empty list holds nobody.                                             *)
LEMMA EmptyQueue == IsInjective(<< >>) /\ \A x : ~Contains(<< >>, x)
  BY DEF IsInjective, Contains

(* A list that holds somebody is not empty.                                 *)
LEMMA NonEmptyQueue ==
    ASSUME NEW S, NEW q \in Seq(S), NEW x, Contains(q, x)
    PROVE  q # << >>
  BY DEF Contains

(* Linking a waiter behind the others adds exactly that waiter.             *)
LEMMA AppendQueue ==
    ASSUME NEW S, NEW q \in Seq(S), NEW t \in S,
           IsInjective(q), ~Contains(q, t)
    PROVE  /\ Append(q, t) \in Seq(S)
           /\ Append(q, t) # << >>
           /\ IsInjective(Append(q, t))
           /\ \A x : Contains(Append(q, t), x) <=> (x = t \/ Contains(q, x))
  <1>1. /\ Append(q, t) \in Seq(S)
        /\ Len(Append(q, t)) = Len(q) + 1
        /\ DOMAIN Append(q, t) = 1 .. (Len(q) + 1)
        /\ DOMAIN q = 1 .. Len(q)
        /\ Len(q) \in Nat
        /\ \A i \in 1 .. Len(q) : Append(q, t)[i] = q[i]
        /\ Append(q, t)[Len(q) + 1] = t
    OBVIOUS
  <1>2. Append(q, t) # << >>
    BY <1>1, Len(Append(q, t)) # Len(<< >>)
  <1>3. IsInjective(Append(q, t))
    BY <1>1 DEF IsInjective, Contains
  <1>4. \A x : Contains(Append(q, t), x) <=> (x = t \/ Contains(q, x))
    BY <1>1 DEF Contains
  <1>5. QED BY <1>1, <1>2, <1>3, <1>4

(* Unlinking the head removes exactly the head.                             *)
LEMMA TailQueue ==
    ASSUME NEW S, NEW q \in Seq(S), q # << >>, IsInjective(q)
    PROVE  /\ Head(q) \in S
           /\ Contains(q, Head(q))
           /\ Tail(q) \in Seq(S)
           /\ IsInjective(Tail(q))
           /\ \A x : Contains(Tail(q), x) <=> (x # Head(q) /\ Contains(q, x))
  <1>1. /\ Head(q) \in S
        /\ Head(q) = q[1]
        /\ Tail(q) \in Seq(S)
        /\ Len(q) \in Nat \ {0}
        /\ DOMAIN q = 1 .. Len(q)
        /\ Len(Tail(q)) = Len(q) - 1
        /\ DOMAIN Tail(q) = 1 .. (Len(q) - 1)
        /\ \A i \in 1 .. (Len(q) - 1) : Tail(q)[i] = q[i + 1]
    OBVIOUS
  <1>2. IsInjective(Tail(q))
    BY <1>1 DEF IsInjective
  <1>3. Contains(q, Head(q))
    BY <1>1 DEF Contains
  <1>4. ASSUME NEW x
        PROVE  Contains(Tail(q), x) <=> (x # Head(q) /\ Contains(q, x))
    <2>1. ASSUME Contains(Tail(q), x)
          PROVE  x # Head(q) /\ Contains(q, x)
      <3>1. PICK i \in 1 .. (Len(q) - 1) : Tail(q)[i] = x
        BY <1>1, <2>1 DEF Contains
      <3>2. i + 1 \in 1 .. Len(q) /\ q[i + 1] = x /\ i + 1 # 1
        BY <1>1, <3>1
      <3>3. x # q[1]
        BY <1>1, <3>2 DEF IsInjective
      <3>4. QED BY <1>1, <3>2, <3>3 DEF Contains
    <2>2. ASSUME x # Head(q), Contains(q, x)
          PROVE  Contains(Tail(q), x)
      <3>1. PICK i \in 1 .. Len(q) : q[i] = x
        BY <2>2 DEF Contains
      <3>2. i - 1 \in 1 .. (Len(q) - 1)
        BY <1>1, <2>2, <3>1
      <3>3. Tail(q)[i - 1] = x
        BY <1>1, <3>1, <3>2
      <3>4. QED BY <1>1, <3>2, <3>3 DEF Contains
    <2>3. QED BY <2>1, <2>2
  <1>5. QED BY <1>1, <1>2, <1>3, <1>4

-----------------------------------------------------------------------------
(* Every non-empty set of numbers has a least one, which is what Min gives. *)
LEMMA LeastNat ==
    ASSUME NEW S \in SUBSET Nat, S # {}
    PROVE  Min(S) \in S /\ \A y \in S : Min(S) <= y
<1> DEFINE R == OpToRel(<, Nat)
<1>1. IsWellFoundedOn(R, Nat)
  BY NatLessThanWellFounded, Zenon
<1>2. PICK x \in S : \A y \in S : ~(<<y, x>> \in R)
  <2> HIDE DEF R
  <2> QED
    BY <1>1, WFMin
<1>3. \A y \in S : y < x => <<y, x>> \in R
  BY DEF OpToRel
<1> HIDE DEF R
<1>4. \A y \in S : ~(y < x)
  BY <1>2, <1>3, Zenon
<1>5. \A y \in S : x <= y
  BY ONLY <1>4, x \in S, S \in SUBSET Nat
<1> QED
  BY <1>5 DEF Min
=============================================================================
