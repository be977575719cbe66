---------------------------- MODULE Http2Proofs ----------------------------
(***************************************************************************)
(* Theorems about the HTTP/2 server session: flow control.                  *)
(*                                                                          *)
(* Windows and credit are sums, and a change of a window drains the pending *)
(* responses in some order, so the first part says what the folds behind    *)
(* both compute.  Induction is on the size of a finite set, as the least    *)
(* counterexample.  A fold picks its elements with CHOOSE; the lemmas name  *)
(* that choice and use only that it is made from the set.                   *)
(***************************************************************************)
EXTENDS Http2, WaiterQueueProofs, FiniteSetTheorems

Pick(s) == CHOOSE x \in s : TRUE

LEMMA PickIsMember == \A s : s # {} => Pick(s) \in s
  BY Zenon DEF Pick

(* What holds of a set whenever it holds of all its proper subsets.         *)
LEMMA SubsetInduction ==
    ASSUME NEW S, IsFiniteSet(S), NEW P,
           \A s \in SUBSET S : (\A t \in SUBSET s : t # s => t \in P) => s \in P
    PROVE  \A s \in SUBSET S : s \in P
<1> DEFINE Bad == {n \in Nat : \E s \in SUBSET S : s \notin P /\ Cardinality(s) = n}
<1> SUFFICES ASSUME NEW r \in SUBSET S, r \notin P PROVE FALSE
  OBVIOUS
<1>1. \A s \in SUBSET S : IsFiniteSet(s) /\ Cardinality(s) \in Nat
  BY FS_Subset, FS_CardinalityType
<1>2. Bad \in SUBSET Nat /\ Bad # {}
  BY <1>1
<1>3. PICK s \in SUBSET S : s \notin P /\ \A y \in Bad : Cardinality(s) <= y
  <2>1. Min(Bad) \in Bad /\ \A y \in Bad : Min(Bad) <= y
    BY <1>2, LeastNat
  <2> QED
    BY <2>1
<1>4. ASSUME NEW t \in SUBSET s, t # s PROVE t \in P
  <2>1. t \in SUBSET S /\ Cardinality(t) \in Nat /\ Cardinality(s) \in Nat
    BY <1>1
  <2>2. Cardinality(t) < Cardinality(s)
    <3>1. Cardinality(t) <= Cardinality(s) /\ (Cardinality(s) = Cardinality(t) => s = t)
      BY <1>1, FS_Subset
    <3> QED
      BY <1>4, <2>1, <3>1
  <2>3. Cardinality(t) \notin Bad
    BY <1>3, <2>1, <2>2
  <2> QED
    BY <2>1, <2>3
<1> QED
  BY <1>3, <1>4

IsFold(g, S, V, base, step) ==
    /\ g \in [SUBSET S -> V]
    /\ \A s \in SUBSET S : g[s] = IF s = {} THEN base ELSE step[Pick(s)][g[s \ {Pick(s)}]]

IsSum(g, S, f) ==
    /\ g \in [SUBSET S -> Int]
    /\ \A s \in SUBSET S : g[s] = IF s = {} THEN 0 ELSE f[Pick(s)] + g[s \ {Pick(s)}]

AnyOrder(g, S, f) == \A s \in SUBSET S : \A x \in s : g[s] = f[x] + g[s \ {x}]

(* A fold over the subsets of a finite set is defined.                      *)
LEMMA FoldExists ==
    ASSUME NEW S, IsFiniteSet(S), NEW V, NEW base \in V,
           NEW step \in [S -> [V -> V]]
    PROVE  \E g : IsFold(g, S, V, base, step)
<1> DEFINE D(n) == {s \in SUBSET S : Cardinality(s) <= n}
           Folds(g, n) == /\ g \in [D(n) -> V]
                          /\ \A s \in D(n) :
                                g[s] = IF s = {} THEN base ELSE step[Pick(s)][g[s \ {Pick(s)}]]
           Bad == {n \in Nat : ~\E g : Folds(g, n)}
<1>1. \A s \in SUBSET S : IsFiniteSet(s) /\ Cardinality(s) \in Nat /\ (Cardinality(s) = 0 <=> s = {})
  BY FS_Subset, FS_CardinalityType, FS_EmptySet
<1>2. \A s \in SUBSET S : s # {} =>
         /\ Pick(s) \in s /\ Pick(s) \in S /\ s \ {Pick(s)} \in SUBSET S
         /\ Cardinality(s \ {Pick(s)}) = Cardinality(s) - 1
  BY <1>1, PickIsMember, FS_RemoveElement
<1>3. Bad = {}
  <2> SUFFICES ASSUME Bad # {} PROVE FALSE
    OBVIOUS
  <2>1. PICK n \in Nat : n \in Bad /\ \A y \in Bad : n <= y
    <3>1. Min(Bad) \in Bad /\ \A y \in Bad : Min(Bad) <= y
      BY LeastNat
    <3> QED
      BY <3>1
  <2>2. n # 0
    <3> DEFINE g == [s \in D(0) |-> base]
    <3>1. \A s \in D(0) : s = {}
      BY <1>1
    <3>2. g \in [D(0) -> V] /\ \A s \in D(0) : g[s] = base /\ s = {}
      BY <3>1
    <3>3. Folds(g, 0)
      BY <3>2
    <3> HIDE DEF Folds, g
    <3>4. 0 \notin Bad
      BY <3>3
    <3> HIDE DEF Bad
    <3> QED
      BY <2>1, <3>4
  <2>3. PICK g : Folds(g, n - 1)
    <3>1. n - 1 \in Nat /\ n - 1 < n
      BY <2>2
    <3>2. n - 1 \notin Bad
      <4> HIDE DEF Bad
      <4> QED
        BY <2>1, <3>1
    <3> HIDE DEF Folds
    <3> QED
      BY <3>1, <3>2
  <2> DEFINE h == [s \in D(n) |-> IF s = {} THEN base ELSE step[Pick(s)][g[s \ {Pick(s)}]]]
  <2>4. \A s \in D(n) : s # {} => s \ {Pick(s)} \in D(n - 1) /\ s \ {Pick(s)} \in D(n) /\ Pick(s) \in S
    BY <1>1, <1>2
  <2>5. \A s \in D(n - 1) : h[s] = g[s]
    <3>1. \A s \in D(n - 1) : s \in D(n)
      BY <1>1
    <3> QED
      BY <2>3, <3>1
  <2>6. h \in [D(n) -> V]
    BY <2>3, <2>4
  <2>7. \A s \in D(n) : h[s] = IF s = {} THEN base ELSE step[Pick(s)][h[s \ {Pick(s)}]]
    BY <2>4, <2>5
  <2> QED
    BY <2>1, <2>6, <2>7
<1>4. PICK g : Folds(g, Cardinality(S))
  BY <1>1, <1>3
<1>5. D(Cardinality(S)) = SUBSET S
  BY <1>1, FS_Subset
<1> QED
  BY <1>4, <1>5 DEF IsFold

(* What a sum computes: one element at a time.                              *)
LEMMA SumDefined ==
    ASSUME NEW S, IsFiniteSet(S), NEW f, \A x \in S : f[x] \in Int
    PROVE  \E g : IsSum(g, S, f) /\ SumFunctionOnSet(f, S) = g[S]
<1> DEFINE Fold(g) == [s \in SUBSET S |-> IF s = {} THEN 0 ELSE f[Pick(s)] + g[s \ {Pick(s)}]]
           G == CHOOSE g : g = Fold(g)
           step == [x \in S |-> [v \in Int |-> f[x] + v]]
<1>1. SumFunctionOnSet(f, S) = G[S]
  BY Zenon DEF SumFunctionOnSet, FoldFunctionOnSet, MapThenFoldSet, Pick
<1>2. \E g : g = Fold(g)
  <2>1. step \in [S -> [Int -> Int]] /\ 0 \in Int
    OBVIOUS
  <2>2. PICK g : IsFold(g, S, Int, 0, step)
    <3> HIDE DEF step
    <3> QED
      BY <2>1, FoldExists
  <2>3. \A s \in SUBSET S : s # {} => Pick(s) \in S /\ g[s \ {Pick(s)}] \in Int
    BY <2>2, PickIsMember DEF IsFold
  <2>4. g = Fold(g)
    BY <2>2, <2>3 DEF IsFold
  <2> QED
    BY <2>4
<1>3. G = Fold(G)
  BY <1>2, Zenon
<1> HIDE DEF G
<1>4. \A s \in SUBSET S : G[s] = IF s = {} THEN 0 ELSE f[Pick(s)] + G[s \ {Pick(s)}]
  BY <1>3
<1>5. \A s \in SUBSET S : G[s] \in Int
  <2> DEFINE P == {s \in SUBSET S : G[s] \in Int}
  <2>1. ASSUME NEW s \in SUBSET S, \A t \in SUBSET s : t # s => t \in P
        PROVE  s \in P
    <3>1. CASE s # {}
      <4>1. Pick(s) \in s /\ f[Pick(s)] \in Int
        BY <3>1, PickIsMember
      <4> DEFINE r == s \ {Pick(s)}
      <4>2. r \in P
        BY <2>1, <4>1
      <4>3. G[s] = f[Pick(s)] + G[r] /\ G[r] \in Int
        BY <1>4, <3>1, <4>2
      <4> HIDE DEF r
      <4> QED
        BY <4>1, <4>3
    <3>2. CASE s = {}
      <4>1. G[s] = 0
        BY <1>4, <3>2
      <4> QED
        BY <4>1
    <3> QED
      BY <3>1, <3>2
  <2> HIDE DEF P
  <2>2. \A s \in SUBSET S : s \in P
    BY <2>1, SubsetInduction
  <2> QED
    BY <2>2 DEF P
<1>6. G \in [SUBSET S -> Int]
  BY <1>3, <1>5
<1> QED
  BY <1>1, <1>4, <1>6 DEF IsSum

(* An element counts once, whichever is taken first.                        *)
LEMMA SumTakesAny ==
    ASSUME NEW S, IsFiniteSet(S), NEW f, \A x \in S : f[x] \in Int,
           NEW g, IsSum(g, S, f)
    PROVE  AnyOrder(g, S, f)
<1> DEFINE P == {s \in SUBSET S : \A x \in s : g[s] = f[x] + g[s \ {x}]}
<1>1. ASSUME NEW s \in SUBSET S, \A t \in SUBSET s : t # s => t \in P
      PROVE  s \in P
  <2> SUFFICES ASSUME NEW x \in s PROVE g[s] = f[x] + g[s \ {x}]
    OBVIOUS
  <2> DEFINE y == Pick(s)
  <2>1. y \in s /\ s # {} /\ y \in S /\ x \in S
    BY PickIsMember
  <2>2. g[s] = f[y] + g[s \ {y}]
    BY <2>1 DEF IsSum
  <2> HIDE DEF y
  <2>3. CASE x # y
    <3> DEFINE p == s \ {y}
               q == s \ {x}
               r == p \ {x}
    <3>1. p \in P /\ q \in P /\ x \in p /\ y \in q
      BY <1>1, <2>1, <2>3
    <3>2. r = q \ {y} /\ r \in SUBSET S
      OBVIOUS
    <3>3. g[p] = f[x] + g[r]
      BY <3>1
    <3>4. g[q] = f[y] + g[r]
      <4>1. g[q] = f[y] + g[q \ {y}]
        <5> HIDE DEF q
        <5> QED
          BY <3>1
      <4> HIDE DEF q, r
      <4> QED
        BY <3>2, <4>1
    <3>5. f[x] \in Int /\ f[y] \in Int /\ g[r] \in Int
      BY <2>1, <3>2 DEF IsSum
    <3>6. g[s] = f[y] + g[p]
      BY <2>2
    <3> HIDE DEF p, q, r
    <3>7. g[s] = f[x] + g[q]
      BY <3>3, <3>4, <3>5, <3>6
    <3> QED
      BY <3>7 DEF q
  <2> QED
    BY <2>2, <2>3
<1> HIDE DEF P
<1>2. \A s \in SUBSET S : s \in P
  BY <1>1, SubsetInduction
<1> QED
  BY <1>2 DEF P, AnyOrder

(* The sum over a set is that over the set without an element, and it.      *)
LEMMA SumRemove ==
    ASSUME NEW S, IsFiniteSet(S), NEW f, \A x \in S : f[x] \in Int, NEW a \in S
    PROVE  /\ SumFunctionOnSet(f, S) \in Int /\ SumFunctionOnSet(f, S \ {a}) \in Int
           /\ SumFunctionOnSet(f, S) = f[a] + SumFunctionOnSet(f, S \ {a})
<1> DEFINE T == S \ {a}
<1>1. PICK g : IsSum(g, S, f) /\ SumFunctionOnSet(f, S) = g[S]
  BY SumDefined
<1>2. IsFiniteSet(T) /\ \A x \in T : f[x] \in Int
  BY FS_Subset
<1>3. PICK h : IsSum(h, T, f) /\ SumFunctionOnSet(f, T) = h[T]
  <2> HIDE DEF T
  <2> QED
    BY <1>2, SumDefined
<1>4. \A s \in SUBSET T : h[s] = g[s]
  <2> DEFINE P == {s \in SUBSET T : h[s] = g[s]}
  <2>1. \A s \in SUBSET T : (\A t \in SUBSET s : t # s => t \in P) => s \in P
    <3> SUFFICES ASSUME NEW s \in SUBSET T, \A t \in SUBSET s : t # s => t \in P PROVE s \in P
      OBVIOUS
    <3>1. s \in SUBSET S
      OBVIOUS
    <3>2. ASSUME s # {} PROVE s \ {Pick(s)} \in P
      BY <3>2, PickIsMember
    <3> QED
      BY <1>1, <1>3, <3>1, <3>2 DEF IsSum
  <2> HIDE DEF P, T
  <2>2. \A s \in SUBSET T : s \in P
    BY <1>2, <2>1, SubsetInduction
  <2> QED
    BY <2>2 DEF P
<1>5. g[S] = f[a] + g[T]
  <2>1. AnyOrder(g, S, f)
    BY <1>1, SumTakesAny
  <2>2. S \in SUBSET S
    OBVIOUS
  <2> QED
    BY <2>1, <2>2, Zenon DEF AnyOrder
<1> QED
  BY <1>1, <1>3, <1>4, <1>5 DEF IsSum

-----------------------------------------------------------------------------
(* Sums.                                                                    *)
Numbers(f, S) == IsFiniteSet(S) /\ \A x \in S : f[x] \in Int

LEMMA SumIsInt ==
    ASSUME NEW S, NEW f, Numbers(f, S)
    PROVE  SumFunctionOnSet(f, S) \in Int
<1>1. PICK g : IsSum(g, S, f) /\ SumFunctionOnSet(f, S) = g[S]
  BY SumDefined DEF Numbers
<1> QED
  BY <1>1 DEF IsSum

LEMMA SumEmpty == \A f : SumFunctionOnSet(f, {}) = 0
<1> SUFFICES ASSUME NEW f PROVE SumFunctionOnSet(f, {}) = 0
  OBVIOUS
<1>1. PICK g : IsSum(g, {}, f) /\ SumFunctionOnSet(f, {}) = g[{}]
  BY SumDefined, FS_EmptySet
<1> QED
  BY <1>1 DEF IsSum

LEMMA NumbersSubset ==
    ASSUME NEW S, NEW f, Numbers(f, S), NEW T \in SUBSET S
    PROVE  Numbers(f, T)
  BY FS_Subset DEF Numbers

LEMMA SumStep ==
    ASSUME NEW S, NEW f, Numbers(f, S), NEW a \in S
    PROVE  /\ SumFunctionOnSet(f, S \ {a}) \in Int /\ f[a] \in Int
           /\ SumFunctionOnSet(f, S) = f[a] + SumFunctionOnSet(f, S \ {a})
  BY SumRemove DEF Numbers

(* Elements that count nothing can be left out.                             *)
LEMMA SumOfSupport ==
    ASSUME NEW S, NEW f, NEW h, Numbers(f, S), Numbers(h, S), NEW T \in SUBSET S,
           \A x \in T : f[x] = h[x], \A x \in S \ T : f[x] = 0
    PROVE  SumFunctionOnSet(f, S) = SumFunctionOnSet(h, T)
<1> DEFINE P == {s \in SUBSET S : SumFunctionOnSet(f, s) = SumFunctionOnSet(h, s \cap T)}
<1>1. ASSUME NEW s \in SUBSET S, \A t \in SUBSET s : t # s => t \in P
      PROVE  s \in P
  <2>1. CASE s = {}
    <3>1. s \cap T = {}
      BY <2>1
    <3>2. SumFunctionOnSet(f, s) = 0 /\ SumFunctionOnSet(h, s \cap T) = 0
      BY <2>1, <3>1, SumEmpty
    <3> QED
      BY <3>2
  <2>2. CASE s # {}
    <3>1. PICK a : a \in s
      BY <2>2
    <3> DEFINE r == s \ {a}
               u == s \cap T
               v == r \cap T
    <3>2. r \in P
      BY <1>1, <3>1
    <3>3. SumFunctionOnSet(f, r) = SumFunctionOnSet(h, v)
      BY <3>2
    <3>4. Numbers(f, s) /\ Numbers(h, u)
      BY NumbersSubset
    <3>5. SumFunctionOnSet(f, r) \in Int /\ f[a] \in Int
          /\ SumFunctionOnSet(f, s) = f[a] + SumFunctionOnSet(f, r)
      BY <3>1, <3>4, SumStep
    <3>6. CASE a \in T
      <4>1. v = u \ {a} /\ a \in u /\ f[a] = h[a]
        BY <3>1, <3>6
      <4>2. SumFunctionOnSet(h, u) = h[a] + SumFunctionOnSet(h, v)
        <5> HIDE DEF u, v
        <5> QED
          BY <3>4, <4>1, SumStep
      <4>3. SumFunctionOnSet(f, s) = SumFunctionOnSet(h, u)
        <5> HIDE DEF u, v, r
        <5> QED
          BY <3>3, <3>5, <4>1, <4>2
      <4> QED
        BY <4>3
    <3>7. CASE a \notin T
      <4>1. v = u /\ f[a] = 0
        BY <3>1, <3>7
      <4>2. SumFunctionOnSet(f, s) = SumFunctionOnSet(h, u)
        <5> HIDE DEF u, v, r
        <5> QED
          BY <3>3, <3>5, <4>1
      <4> QED
        BY <4>2
    <3> QED
      BY <3>6, <3>7
  <2> QED
    BY <2>1, <2>2
<1> HIDE DEF P
<1>2. \A s \in SUBSET S : s \in P
  BY <1>1, SubsetInduction DEF Numbers
<1>3. S \in P /\ S \cap T = T
  BY <1>2
<1> QED
  BY <1>3 DEF P

LEMMA SumSame ==
    ASSUME NEW S, NEW f, NEW h, Numbers(f, S), \A x \in S : f[x] = h[x]
    PROVE  SumFunctionOnSet(f, S) = SumFunctionOnSet(h, S)
<1>1. Numbers(h, S) /\ S \in SUBSET S /\ \A x \in S \ S : f[x] = 0
  BY DEF Numbers
<1> QED
  BY <1>1, SumOfSupport

LEMMA SumZero ==
    ASSUME NEW S, NEW f, Numbers(f, S), \A x \in S : f[x] = 0
    PROVE  SumFunctionOnSet(f, S) = 0
<1>1. {} \in SUBSET S /\ (\A x \in {} : f[x] = f[x]) /\ \A x \in S \ {} : f[x] = 0
  OBVIOUS
<1>2. SumFunctionOnSet(f, S) = SumFunctionOnSet(f, {})
  BY <1>1, SumOfSupport
<1> QED
  BY <1>2, SumEmpty

(* One element changes.                                                     *)
LEMMA SumUpdate ==
    ASSUME NEW S, NEW f, NEW h, Numbers(f, S), Numbers(h, S), NEW a \in S,
           \A x \in S : x # a => h[x] = f[x]
    PROVE  SumFunctionOnSet(h, S) = SumFunctionOnSet(f, S) - f[a] + h[a]
<1> DEFINE T == S \ {a}
<1>1. Numbers(f, T) /\ \A x \in T : f[x] = h[x]
  BY NumbersSubset
<1>2. SumFunctionOnSet(f, T) = SumFunctionOnSet(h, T)
  <2> HIDE DEF T
  <2> QED
    BY <1>1, SumSame
<1>3. /\ SumFunctionOnSet(f, T) \in Int /\ f[a] \in Int /\ h[a] \in Int
      /\ SumFunctionOnSet(f, S) = f[a] + SumFunctionOnSet(f, T)
      /\ SumFunctionOnSet(h, S) = h[a] + SumFunctionOnSet(h, T)
  BY SumStep
<1> HIDE DEF T
<1> QED
  BY <1>2, <1>3

LEMMA SumAdd ==
    ASSUME NEW S, NEW f, NEW g, NEW h, Numbers(f, S), Numbers(g, S),
           \A x \in S : h[x] = f[x] + g[x]
    PROVE  SumFunctionOnSet(h, S) = SumFunctionOnSet(f, S) + SumFunctionOnSet(g, S)
<1> DEFINE F(s) == SumFunctionOnSet(f, s)
           G(s) == SumFunctionOnSet(g, s)
           H(s) == SumFunctionOnSet(h, s)
           P == {s \in SUBSET S : H(s) = F(s) + G(s)}
<1>0. Numbers(h, S)
  BY DEF Numbers
<1>1. ASSUME NEW s \in SUBSET S, \A t \in SUBSET s : t # s => t \in P
      PROVE  s \in P
  <2>1. CASE s = {}
    <3>1. F(s) = 0 /\ G(s) = 0 /\ H(s) = 0
      BY <2>1, SumEmpty
    <3> QED
      BY <3>1
  <2>2. CASE s # {}
    <3>1. PICK a : a \in s
      BY <2>2
    <3> DEFINE r == s \ {a}
    <3>2. r \in P
      BY <1>1, <3>1
    <3>3. Numbers(f, s) /\ Numbers(g, s) /\ Numbers(h, s)
      BY <1>0, NumbersSubset
    <3>4. /\ F(r) \in Int /\ f[a] \in Int /\ F(s) = f[a] + F(r)
          /\ G(r) \in Int /\ g[a] \in Int /\ G(s) = g[a] + G(r)
          /\ H(r) \in Int /\ H(s) = h[a] + H(r) /\ h[a] = f[a] + g[a]
      BY <3>1, <3>3, SumStep
    <3>5. H(r) = F(r) + G(r)
      BY <3>2
    <3> HIDE DEF r
    <3>6. H(s) = F(s) + G(s)
      BY <3>4, <3>5
    <3> QED
      BY <3>6
  <2> QED
    BY <2>1, <2>2
<1> HIDE DEF P
<1>2. \A s \in SUBSET S : s \in P
  BY <1>1, SubsetInduction DEF Numbers
<1>3. S \in P
  BY <1>2
<1> QED
  BY <1>3 DEF P

LEMMA NatSetInduction ==
    ASSUME NEW P, 0 \in P, \A n \in Nat : n \in P => n + 1 \in P
    PROVE  \A n \in Nat : n \in P
<1> DEFINE Bad == {n \in Nat : n \notin P}
<1> SUFFICES ASSUME Bad # {} PROVE FALSE
  OBVIOUS
<1>1. Min(Bad) \in Bad /\ \A y \in Bad : Min(Bad) <= y
  BY LeastNat
<1>2. PICK n \in Nat : n \notin P /\ \A y \in Bad : n <= y
  BY <1>1
<1>3. n # 0 /\ n - 1 \in Nat
  BY <1>2
<1>4. n - 1 \notin Bad
  BY <1>2, <1>3
<1> QED
  BY <1>2, <1>3, <1>4

LEMMA SumUpTo ==
    ASSUME NEW f, NEW n \in Nat, Numbers(f, 1 .. n), NEW k \in Nat, k + 1 <= n
    PROVE  /\ SumFunctionOnSet(f, 1 .. k) \in Int /\ f[k + 1] \in Int
           /\ SumFunctionOnSet(f, 1 .. (k + 1)) = f[k + 1] + SumFunctionOnSet(f, 1 .. k)
<1> DEFINE S == 1 .. (k + 1)
<1>1. S \in SUBSET (1 .. n)
  OBVIOUS
<1>2. k + 1 \in S
  OBVIOUS
<1>3. S \ {k + 1} = 1 .. k
  <2>1. \A x : x \in S \ {k + 1} <=> x \in 1 .. k
    OBVIOUS
  <2> QED
    BY <2>1
<1>4. Numbers(f, S)
  <2> HIDE DEF S
  <2> QED
    BY <1>1, NumbersSubset
<1> HIDE DEF S
<1>5. /\ SumFunctionOnSet(f, S \ {k + 1}) \in Int /\ f[k + 1] \in Int
      /\ SumFunctionOnSet(f, S) = f[k + 1] + SumFunctionOnSet(f, S \ {k + 1})
  BY <1>2, <1>4, SumStep
<1> QED
  BY <1>3, <1>5 DEF S

-----------------------------------------------------------------------------
(* The units that frames carry.                                             *)
FrameTypes == {"SETTINGS", "HEADERS", "DATA", "WINDOW_UPDATE", "RST_STREAM"}
Frames == [type : FrameTypes, id : Nat, n : Nat, end : BOOLEAN]

Weights(frames, type, id) ==
    [i \in DOMAIN frames |-> IF frames[i].type = type /\ frames[i].id = id THEN frames[i].n ELSE 0]

LEMMA UnitsAreSums ==
    ASSUME NEW q \in Seq(Frames), NEW type, NEW id
    PROVE  /\ Units(q, type, id) = SumFunctionOnSet(Weights(q, type, id), 1 .. Len(q))
           /\ Numbers(Weights(q, type, id), 1 .. Len(q))
           /\ Units(q, type, id) \in Int
<1>1. DOMAIN q = 1 .. Len(q) /\ Len(q) \in Nat /\ \A i \in 1 .. Len(q) : q[i] \in Frames
  OBVIOUS
<1>2. Units(q, type, id) = SumFunctionOnSet(Weights(q, type, id), DOMAIN q)
  BY DEF Units, Weights, SumFunction
<1>3. Numbers(Weights(q, type, id), 1 .. Len(q))
  <2>1. IsFiniteSet(1 .. Len(q))
    BY <1>1, FS_Interval
  <2>2. \A i \in 1 .. Len(q) : Weights(q, type, id)[i] \in Int
    BY <1>1 DEF Weights, Frames
  <2> QED
    BY <2>1, <2>2 DEF Numbers
<1> QED
  BY <1>1, <1>2, <1>3, SumIsInt

LEMMA UnitsNone == \A type, id : Units(<< >>, type, id) = 0
<1> SUFFICES ASSUME NEW type, NEW id PROVE Units(<< >>, type, id) = 0
  OBVIOUS
<1>1. << >> \in Seq(Frames) /\ 1 .. Len(<< >>) = {}
  OBVIOUS
<1>2. Units(<< >>, type, id) = SumFunctionOnSet(Weights(<< >>, type, id), 1 .. Len(<< >>))
  BY <1>1, UnitsAreSums
<1> QED
  BY <1>1, <1>2, SumEmpty

LEMMA UnitsOne ==
    ASSUME NEW f \in Frames, NEW type, NEW id
    PROVE  Units(<<f>>, type, id) = IF f.type = type /\ f.id = id THEN f.n ELSE 0
<1> DEFINE w == Weights(<<f>>, type, id)
<1>1. <<f>> \in Seq(Frames) /\ 1 .. Len(<<f>>) = {1} /\ <<f>>[1] = f /\ 1 \in DOMAIN <<f>>
  OBVIOUS
<1>2. Units(<<f>>, type, id) = SumFunctionOnSet(w, {1}) /\ Numbers(w, {1})
  BY <1>1, UnitsAreSums
<1>3. w[1] = IF f.type = type /\ f.id = id THEN f.n ELSE 0
  BY <1>1 DEF Weights
<1>4. {1} \ {1} = {} /\ 1 \in {1}
  OBVIOUS
<1> HIDE DEF w
<1>5. w[1] \in Int /\ SumFunctionOnSet(w, {1}) = w[1] + SumFunctionOnSet(w, {1} \ {1})
  BY <1>2, <1>4, SumStep
<1>6. SumFunctionOnSet(w, {1}) = w[1] + 0
  BY <1>4, <1>5, SumEmpty
<1> QED
  BY <1>2, <1>3, <1>5, <1>6

LEMMA UnitsConcat ==
    ASSUME NEW p \in Seq(Frames), NEW q \in Seq(Frames), NEW type, NEW id
    PROVE  Units(p \o q, type, id) = Units(p, type, id) + Units(q, type, id)
<1> DEFINE m == Len(p)
           r == p \o q
           F(k) == SumFunctionOnSet(Weights(r, type, id), 1 .. k)
           G(k) == SumFunctionOnSet(Weights(q, type, id), 1 .. k)
           base == Units(p, type, id)
           P == {k \in Nat : k <= Len(q) => F(m + k) = base + G(k)}
<1>1. /\ r \in Seq(Frames) /\ Len(r) = m + Len(q) /\ m \in Nat /\ Len(q) \in Nat
      /\ \A i \in 1 .. m : r[i] = p[i]
      /\ \A i \in 1 .. Len(q) : r[m + i] = q[i]
      /\ DOMAIN r = 1 .. Len(r) /\ DOMAIN p = 1 .. m /\ DOMAIN q = 1 .. Len(q)
  OBVIOUS
<1>2. /\ Numbers(Weights(r, type, id), 1 .. Len(r)) /\ Units(r, type, id) = F(Len(r))
      /\ Numbers(Weights(q, type, id), 1 .. Len(q)) /\ Units(q, type, id) = G(Len(q))
      /\ Numbers(Weights(p, type, id), 1 .. m)
      /\ base = SumFunctionOnSet(Weights(p, type, id), 1 .. m) /\ base \in Int
  BY <1>1, UnitsAreSums
<1>3. /\ \A i \in 1 .. m : Weights(r, type, id)[i] = Weights(p, type, id)[i]
      /\ \A i \in 1 .. Len(q) : Weights(r, type, id)[m + i] = Weights(q, type, id)[i]
  BY <1>1 DEF Weights
<1>4. 0 \in P
  <2>1. F(m) = base
    BY <1>2, <1>3, SumSame
  <2>2. 1 .. 0 = {} /\ m + 0 = m
    BY <1>1
  <2>3. G(0) = 0
    BY <2>2, SumEmpty
  <2> HIDE DEF F, G, base
  <2> QED
    BY <1>2, <2>1, <2>2, <2>3
<1>5. ASSUME NEW k \in Nat, k \in P PROVE k + 1 \in P
  <2> SUFFICES ASSUME k + 1 <= Len(q) PROVE F(m + (k + 1)) = base + G(k + 1)
    OBVIOUS
  <2>1. k + 1 \in 1 .. Len(q) /\ m + k \in Nat /\ (m + k) + 1 = m + (k + 1) /\ (m + k) + 1 <= Len(r)
    BY <1>1
  <2>3. F((m + k) + 1) = Weights(r, type, id)[(m + k) + 1] + F(m + k) /\ F(m + k) \in Int
    BY <1>1, <1>2, <2>1, SumUpTo
  <2>4. /\ G(k + 1) = Weights(q, type, id)[k + 1] + G(k) /\ G(k) \in Int
        /\ Weights(q, type, id)[k + 1] \in Int
    BY <1>1, <1>2, SumUpTo
  <2>5. Weights(r, type, id)[m + (k + 1)] = Weights(q, type, id)[k + 1]
    BY <1>3, <2>1
  <2>6. F(m + k) = base + G(k)
    BY <1>5
  <2> HIDE DEF F, G, base
  <2> QED
    BY <1>2, <2>1, <2>3, <2>4, <2>5, <2>6
<1> HIDE DEF P
<1>6. Len(q) \in P
  BY <1>1, <1>4, <1>5, NatSetInduction
<1>7. F(m + Len(q)) = base + G(Len(q))
  BY <1>1, <1>6 DEF P
<1> HIDE DEF F, G, base
<1>8. Units(r, type, id) = base + Units(q, type, id)
  BY <1>1, <1>2, <1>7
<1> QED
  BY <1>8 DEF base

(* The DATA of all streams.                                                 *)
AllUnits(frames) == SumFunction([id \in StreamIds |-> Units(frames, "DATA", id)])

LEMMA AllUnitsAreSums ==
    ASSUME NEW q \in Seq(Frames)
    PROVE  LET f == [id \in StreamIds |-> Units(q, "DATA", id)]
           IN /\ AllUnits(q) = SumFunctionOnSet(f, StreamIds) /\ Numbers(f, StreamIds)
              /\ AllUnits(q) \in Int
<1> DEFINE f == [id \in StreamIds |-> Units(q, "DATA", id)]
<1>1. AllUnits(q) = SumFunctionOnSet(f, StreamIds)
  BY DEF AllUnits, SumFunction
<1>2. Numbers(f, StreamIds)
  BY UnitsAreSums, H2Assumption DEF Numbers
<1>3. SumFunctionOnSet(f, StreamIds) \in Int
  <2> HIDE DEF f
  <2> QED
    BY <1>2, SumIsInt
<1> QED
  BY <1>1, <1>2, <1>3

LEMMA AllNone == AllUnits(<< >>) = 0
<1> DEFINE f == [id \in StreamIds |-> Units(<< >>, "DATA", id)]
<1>1. << >> \in Seq(Frames)
  OBVIOUS
<1>2. AllUnits(<< >>) = SumFunctionOnSet(f, StreamIds) /\ Numbers(f, StreamIds)
  BY <1>1, AllUnitsAreSums
<1>3. \A id \in StreamIds : f[id] = 0
  BY UnitsNone
<1> HIDE DEF f
<1> QED
  BY <1>2, <1>3, SumZero

LEMMA AllConcat ==
    ASSUME NEW p \in Seq(Frames), NEW q \in Seq(Frames)
    PROVE  AllUnits(p \o q) = AllUnits(p) + AllUnits(q)
<1> DEFINE f == [id \in StreamIds |-> Units(p, "DATA", id)]
           g == [id \in StreamIds |-> Units(q, "DATA", id)]
           h == [id \in StreamIds |-> Units(p \o q, "DATA", id)]
<1>1. p \o q \in Seq(Frames)
  OBVIOUS
<1>2. AllUnits(p) = SumFunctionOnSet(f, StreamIds) /\ Numbers(f, StreamIds)
  BY AllUnitsAreSums
<1>3. AllUnits(q) = SumFunctionOnSet(g, StreamIds) /\ Numbers(g, StreamIds)
  BY AllUnitsAreSums
<1>4. AllUnits(p \o q) = SumFunctionOnSet(h, StreamIds)
  BY <1>1, AllUnitsAreSums
<1>5. \A id \in StreamIds : h[id] = f[id] + g[id]
  BY UnitsConcat
<1> HIDE DEF f, g, h
<1> QED
  BY <1>2, <1>3, <1>4, <1>5, SumAdd

LEMMA AllOne ==
    ASSUME NEW f \in Frames, f.type = "DATA" => f.id \in StreamIds
    PROVE  AllUnits(<<f>>) = IF f.type = "DATA" THEN f.n ELSE 0
<1> DEFINE g == [id \in StreamIds |-> Units(<<f>>, "DATA", id)]
<1>1. <<f>> \in Seq(Frames)
  OBVIOUS
<1>2. AllUnits(<<f>>) = SumFunctionOnSet(g, StreamIds) /\ Numbers(g, StreamIds)
  BY <1>1, AllUnitsAreSums
<1>3. \A id \in StreamIds : g[id] = IF f.type = "DATA" /\ f.id = id THEN f.n ELSE 0
  BY UnitsOne
<1>4. CASE f.type # "DATA"
  <2>1. \A id \in StreamIds : g[id] = 0
    BY <1>3, <1>4
  <2> HIDE DEF g
  <2> QED
    BY <1>2, <1>4, <2>1, SumZero
<1>5. CASE f.type = "DATA"
  <2> DEFINE a == f.id
             z == [id \in StreamIds |-> 0]
  <2>1. a \in StreamIds /\ f.n \in Int
    BY <1>5 DEF Frames
  <2>2. Numbers(z, StreamIds) /\ \A id \in StreamIds : z[id] = 0
    BY H2Assumption DEF Numbers
  <2>3. g[a] = f.n /\ \A id \in StreamIds : id # a => g[id] = z[id]
    BY <1>3, <1>5, <2>1
  <2> HIDE DEF g, z, a
  <2>4. SumFunctionOnSet(z, StreamIds) = 0 /\ z[a] = 0
    BY <2>1, <2>2, SumZero
  <2>5. SumFunctionOnSet(g, StreamIds) = SumFunctionOnSet(z, StreamIds) - z[a] + g[a]
    BY <1>2, <2>1, <2>2, <2>3, SumUpdate
  <2> QED
    BY <1>2, <1>5, <2>1, <2>3, <2>4, <2>5
<1> QED
  BY <1>4, <1>5

(* Frames behind others, and the first frame.                               *)
LEMMA HeadAndTail ==
    ASSUME NEW S, NEW q \in Seq(S), q # << >>
    PROVE  Head(q) \in S /\ Tail(q) \in Seq(S) /\ q = <<Head(q)>> \o Tail(q)
  OBVIOUS

-----------------------------------------------------------------------------
(***************************************************************************)
(* The inductive invariant.                                                 *)
(***************************************************************************)
UpFrames == {f \in Frames : f.type \in {"HEADERS", "DATA"} => f.id \in StreamIds}
DownFrames ==
    {f \in Frames : /\ f.type \in {"HEADERS", "DATA", "WINDOW_UPDATE"}
                    /\ f.id \in StreamIds \/ (f.id = 0 /\ f.type = "WINDOW_UPDATE")
                    /\ f.type = "HEADERS" => f.n = 0}
StreamStates == [sendW : Int, recvW : Int, open : BOOLEAN, streaming : BOOLEAN]
Maps(V) == UNION {[D -> V] : D \in SUBSET StreamIds}
SrvStates == [initial : Int, sendW : Int, recvW : Int, streams : Maps(StreamStates),
              pending : Maps(Nat), out : Seq(DownFrames)]
Requests == [id : StreamIds, detached : BOOLEAN]
WorkPlaces == {"none", "handling", "plain", "source", "body", "closing"}
WorkStates == [at : WorkPlaces, left : Nat]
PeerPlaces == {"idle", "open", "done", "reset"}
PeerStreams == [at : PeerPlaces, sendW : Int, recvW : Int, left : Nat, answered : BOOLEAN]
PeerStates == [initial : Int, sendW : Int, recvW : Int, changed : BOOLEAN,
               streams : [StreamIds -> PeerStreams]]

H2Typed ==
    /\ plan \in Http2Setups
    /\ srv \in SrvStates
    /\ ready \in Seq(Requests)
    /\ dispatching \in BOOLEAN /\ ended \in BOOLEAN /\ batchCredit \in Nat
    /\ unread \in [StreamIds -> Nat] /\ credits \in [StreamIds -> Nat]
    /\ work \in [StreamIds -> WorkStates]
    /\ up \in Seq(UpFrames) /\ down \in Seq(DownFrames)
    /\ peer \in PeerStates

(* There is a frame of a type (of any type) for a stream on the wire.       *)
Carries(frames, type, id) == \E i \in DOMAIN frames : frames[i].type = type /\ frames[i].id = id
Mentions(frames, id) == \E i \in DOMAIN frames : frames[i].id = id
Listed(id) == \E i \in DOMAIN ready : ready[i].id = id

(* The session knows nothing of a stream, and has said nothing of it.       *)
Untouched(id) ==
    /\ id \notin Live /\ id \notin DOMAIN srv.pending /\ ~Listed(id) /\ work[id].at = "none"
    /\ ~Mentions(Sending, id)

(* A stream is opened by the first of its frames, once.                     *)
OpensOnce ==
    \A id \in StreamIds :
       /\ peer.streams[id].at = "idle" => Untouched(id) /\ ~Mentions(up, id)
       /\ \A i \in DOMAIN up : up[i].type = "HEADERS" /\ up[i].id = id =>
             Untouched(id) /\ \A j \in DOMAIN up : up[j].id = id => j >= i

(* A request waits for its handler, or has one, or its response waits: one  *)
(* of them.  Only a streamed body may still arrive when it is answered.     *)
AnsweredOnce ==
    /\ \A i, j \in DOMAIN ready : ready[i].id = ready[j].id => i = j
    /\ \A i \in DOMAIN ready :
          LET id == ready[i].id
          IN /\ work[id].at = "none" /\ id \notin DOMAIN srv.pending
             /\ IF ready[i].detached THEN id \notin Live /\ ~Mentions(Sending, id)
                ELSE id \in Live /\ ~srv.streams[id].open
    /\ \A id \in StreamIds :
          /\ work[id].at # "none" => id \notin DOMAIN srv.pending
          /\ (work[id].at # "none" \/ id \in DOMAIN srv.pending) /\ id \in Live
                => ~srv.streams[id].open \/ srv.streams[id].streaming
    /\ DOMAIN srv.pending \subseteq Live

(* SETTINGS is sent once.                                                   *)
SettlesOnce ==
    /\ \A i \in DOMAIN up : up[i].type = "SETTINGS" =>
          /\ peer.changed /\ up[i].n = peer.initial
          /\ \A j \in DOMAIN up : up[j].type = "SETTINGS" => i = j
    /\ (\A i \in DOMAIN up : up[i].type # "SETTINGS") => srv.initial = peer.initial

(* A request without a body gets no credit before it is answered, unless    *)
(* the peer extends the windows of such requests.                           *)
NoEarlyCredit ==
    \A id \in StreamIds :
       \/ \E i \in DOMAIN up : up[i].type = "HEADERS" /\ up[i].id = id /\ up[i].end
       \/ \E i \in DOMAIN ready : ready[i].id = id /\ ready[i].detached
       => peer.streams[id].at # "open" /\ ~Carries(up, "WINDOW_UPDATE", id)

(* What the peer may send of a body before the session knows of the stream. *)
BodyBeforeOpen ==
    \A id \in StreamIds :
       peer.streams[id].at = "idle" \/ Carries(up, "HEADERS", id) =>
          peer.streams[id].sendW + Units(up, "DATA", id) = Window

-----------------------------------------------------------------------------
(* The operations of the session.                                           *)
LEMMA MapFacts == \A V, m : m \in Maps(V) <=> DOMAIN m \in SUBSET StreamIds /\ m \in [DOMAIN m -> V]
  BY DEF Maps

LEMMA WithoutFacts ==
    ASSUME NEW V, NEW m \in Maps(V), NEW id
    PROVE  /\ Without(m, id) \in Maps(V) /\ DOMAIN Without(m, id) = DOMAIN m \ {id}
           /\ \A k \in DOMAIN m : k # id => Without(m, id)[k] = m[k]
  BY MapFacts DEF Without, Restrict

LEMMA MinOfThree ==
    ASSUME NEW a \in Int, NEW b \in Int, NEW c \in Int
    PROVE  /\ Min({a, b, c}) \in {a, b, c}
           /\ Min({a, b, c}) <= a /\ Min({a, b, c}) <= b /\ Min({a, b, c}) <= c
<1> DEFINE S == {a, b, c}
<1>1. \E x \in S : \A y \in S : x =< y
  OBVIOUS
<1>2. Min(S) \in S /\ \A y \in S : Min(S) =< y
  <2> HIDE DEF S
  <2> QED
    BY <1>1, Zenon DEF Min
<1> QED
  BY <1>2

LEMMA MaxOfTwo ==
    ASSUME NEW a \in Int, NEW b \in Int
    PROVE  Max({a, b}) \in {a, b} /\ Max({a, b}) >= a /\ Max({a, b}) >= b
<1> DEFINE S == {a, b}
<1>1. \E x \in S : \A y \in S : x >= y
  OBVIOUS
<1>2. Max(S) \in S /\ \A y \in S : Max(S) >= y
  <2> HIDE DEF S
  <2> QED
    BY <1>1, Zenon DEF Max
<1> QED
  BY <1>2

LEMMA SrvFields ==
    ASSUME NEW s \in SrvStates
    PROVE  /\ s.initial \in Int /\ s.sendW \in Int /\ s.recvW \in Int
           /\ s.streams \in Maps(StreamStates) /\ s.pending \in Maps(Nat) /\ s.out \in Seq(DownFrames)
           /\ DOMAIN s.streams \in SUBSET StreamIds /\ DOMAIN s.pending \in SUBSET StreamIds
           /\ \A k \in DOMAIN s.streams : /\ s.streams[k] \in StreamStates
                                          /\ s.streams[k].sendW \in Int /\ s.streams[k].recvW \in Int
           /\ \A k \in DOMAIN s.pending : s.pending[k] \in Nat
           /\ \A k : StreamWindow(s, k) \in Int
           /\ s.out \in Seq(Frames)
<1>1. /\ s.initial \in Int /\ s.sendW \in Int /\ s.recvW \in Int
      /\ s.streams \in Maps(StreamStates) /\ s.pending \in Maps(Nat) /\ s.out \in Seq(DownFrames)
  BY DEF SrvStates
<1>2. /\ DOMAIN s.streams \in SUBSET StreamIds /\ DOMAIN s.pending \in SUBSET StreamIds
      /\ \A k \in DOMAIN s.streams : s.streams[k] \in StreamStates
      /\ \A k \in DOMAIN s.pending : s.pending[k] \in Nat
  BY <1>1, MapFacts
<1>3. \A k \in DOMAIN s.streams : s.streams[k].sendW \in Int /\ s.streams[k].recvW \in Int
  BY <1>2 DEF StreamStates
<1>4. DownFrames \in SUBSET Frames
  BY DEF DownFrames
<1> HIDE DEF DownFrames
<1>5. s.out \in Seq(Frames)
  BY <1>1, <1>4
<1> QED
  BY <1>1, <1>2, <1>3, <1>5 DEF StreamWindow

(* Either all of it is sent, or a window is closed then.                    *)
LEMMA AllowedFacts ==
    ASSUME NEW s \in SrvStates, NEW id, NEW left \in Nat
    PROVE  /\ Allowed(s, id, left) \in Nat /\ Allowed(s, id, left) <= left
           /\ Allowed(s, id, left) # left =>
                 \/ s.sendW - Allowed(s, id, left) <= 0
                 \/ StreamWindow(s, id) - Allowed(s, id, left) <= 0
<1> DEFINE w == StreamWindow(s, id)
           a == Min({left, s.sendW, w})
           b == Max({0, a})
<1>1. s.sendW \in Int /\ w \in Int /\ left \in Int
  BY SrvFields
<1>2. a \in {left, s.sendW, w} /\ a <= left /\ a <= s.sendW /\ a <= w
  <2> HIDE DEF w
  <2> QED
    BY <1>1, MinOfThree, Zenon
<1>3. a \in Int
  <2> HIDE DEF a, w
  <2> QED
    BY <1>1, <1>2
<1>4. b \in {0, a} /\ b >= 0 /\ b >= a
  <2> HIDE DEF a
  <2> QED
    BY <1>3, 0 \in Int, MaxOfTwo, Zenon
<1>5. Allowed(s, id, left) = b
  BY Zenon DEF Allowed
<1> HIDE DEF a, b, w
<1>6. b \in Nat /\ b <= left /\ (b # left => s.sendW - b <= 0 \/ w - b <= 0)
  BY <1>1, <1>2, <1>3, <1>4
<1> QED
  BY <1>5, <1>6 DEF w

(* A frame of a response at the end of the queue.                           *)
LEMMA AppendFrame ==
    ASSUME NEW q \in Seq(DownFrames), NEW f \in DownFrames, f.type # "WINDOW_UPDATE"
    PROVE  /\ Append(q, f) \in Seq(DownFrames)
           /\ AllUnits(q) \in Int /\ AllUnits(Append(q, f)) = AllUnits(q) + f.n
           /\ \A k : /\ Units(q, "DATA", k) \in Int
                     /\ Units(Append(q, f), "DATA", k) =
                           Units(q, "DATA", k) + (IF k = f.id THEN f.n ELSE 0)
                     /\ Units(Append(q, f), "WINDOW_UPDATE", k) = Units(q, "WINDOW_UPDATE", k)
                     /\ Mentions(Append(q, f), k) <=> Mentions(q, k) \/ k = f.id
<1>1. /\ f \in Frames /\ f.id \in StreamIds /\ f.n \in Nat /\ f.type \in {"HEADERS", "DATA"}
      /\ f.type = "HEADERS" => f.n = 0
  BY DEF DownFrames, Frames
<1>2. DownFrames \in SUBSET Frames
  BY DEF DownFrames
<1> HIDE DEF DownFrames
<1>3. q \in Seq(Frames) /\ <<f>> \in Seq(Frames) /\ Append(q, f) = q \o <<f>>
      /\ Append(q, f) \in Seq(DownFrames)
  BY <1>1, <1>2
<1>4. AllUnits(Append(q, f)) = AllUnits(q) + AllUnits(<<f>>) /\ AllUnits(<<f>>) = f.n /\ AllUnits(q) \in Int
  BY <1>1, <1>3, AllConcat, AllOne, AllUnitsAreSums
<1>5. ASSUME NEW k, NEW type
      PROVE  /\ Units(q, type, k) \in Int
             /\ Units(Append(q, f), type, k) =
                   Units(q, type, k) + (IF f.type = type /\ f.id = k THEN f.n ELSE 0)
  <2>1. Units(q \o <<f>>, type, k) = Units(q, type, k) + Units(<<f>>, type, k)
    <3>1. PICK e : e = <<f>>
      OBVIOUS
    <3>2. e \in Seq(Frames) /\ q \in Seq(Frames)
      BY <1>3, <3>1
    <3>3. Units(q \o e, type, k) = Units(q, type, k) + Units(e, type, k)
      BY <3>2, UnitsConcat
    <3> QED
      BY <3>1, <3>3
  <2>2. Units(<<f>>, type, k) = IF f.type = type /\ f.id = k THEN f.n ELSE 0
    BY <1>1, UnitsOne
  <2>3. Units(q, type, k) \in Int
    BY <1>3, UnitsAreSums
  <2> QED
    BY <1>3, <2>1, <2>2, <2>3
<1>6. ASSUME NEW k
      PROVE  /\ Units(Append(q, f), "DATA", k) = Units(q, "DATA", k) + (IF k = f.id THEN f.n ELSE 0)
             /\ Units(Append(q, f), "WINDOW_UPDATE", k) = Units(q, "WINDOW_UPDATE", k)
             /\ Units(q, "DATA", k) \in Int
  <2>1. /\ Units(q, "DATA", k) \in Int /\ Units(q, "WINDOW_UPDATE", k) \in Int
        /\ Units(Append(q, f), "DATA", k) =
              Units(q, "DATA", k) + (IF f.type = "DATA" /\ f.id = k THEN f.n ELSE 0)
        /\ Units(Append(q, f), "WINDOW_UPDATE", k) =
              Units(q, "WINDOW_UPDATE", k) + (IF f.type = "WINDOW_UPDATE" /\ f.id = k THEN f.n ELSE 0)
    BY <1>5
  <2> QED
    BY <1>1, <2>1
<1>7. ASSUME NEW k PROVE Mentions(Append(q, f), k) <=> Mentions(q, k) \/ k = f.id
  <2>1. /\ Len(q) \in Nat /\ DOMAIN q = 1 .. Len(q) /\ DOMAIN Append(q, f) = 1 .. (Len(q) + 1)
        /\ \A i \in 1 .. Len(q) : Append(q, f)[i] = q[i]
        /\ Append(q, f)[Len(q) + 1] = f
    OBVIOUS
  <2> QED
    BY <2>1 DEF Mentions
<1> QED
  BY <1>3, <1>4, <1>6, <1>7

(* What is queued is paid for: the window of the connection and that of the *)
(* stream shrink by what the queue grows.                                   *)
SameBody(s, t, k) ==
    /\ t.streams[k].recvW = s.streams[k].recvW
    /\ t.streams[k].open = s.streams[k].open /\ t.streams[k].streaming = s.streams[k].streaming

Charged(s, t) ==
    /\ t \in SrvStates /\ t.initial = s.initial /\ t.recvW = s.recvW /\ t.sendW <= s.sendW
    /\ t.sendW + AllUnits(t.out) = s.sendW + AllUnits(s.out)
    /\ \A k : Units(t.out, "WINDOW_UPDATE", k) = Units(s.out, "WINDOW_UPDATE", k)
    /\ \A k \in DOMAIN t.streams :
          /\ StreamWindow(t, k) + Units(t.out, "DATA", k) = StreamWindow(s, k) + Units(s.out, "DATA", k)
          /\ StreamWindow(t, k) <= StreamWindow(s, k)
          /\ k \in DOMAIN s.streams => SameBody(s, t, k)

(* Nothing is done to the other streams.                                    *)
OthersKept(s, t, id) ==
    \A k : k # id =>
       /\ k \in DOMAIN t.streams <=> k \in DOMAIN s.streams
       /\ k \in DOMAIN s.streams => t.streams[k] = s.streams[k]
       /\ k \in DOMAIN t.pending <=> k \in DOMAIN s.pending
       /\ Mentions(t.out, k) <=> Mentions(s.out, k)

LEMMA QueueDataFacts ==
    ASSUME NEW s \in SrvStates, NEW id \in StreamIds, NEW n \in Nat, NEW end \in BOOLEAN
    PROVE  LET t == QueueData(s, id, n, end)
           IN /\ Charged(s, t) /\ OthersKept(s, t, id)
              /\ DOMAIN t.streams = DOMAIN s.streams /\ t.pending = s.pending
              /\ t.sendW = s.sendW - n
              /\ t.sendW + AllUnits(t.out) = s.sendW + AllUnits(s.out)
              /\ Units(t.out, "DATA", id) = Units(s.out, "DATA", id) + n
              /\ Units(t.out, "DATA", id) \in Int
              /\ id \in DOMAIN s.streams => t.streams[id].sendW = s.streams[id].sendW - n
<1> DEFINE t == QueueData(s, id, n, end)
           f == Frame("DATA", id, n, end)
           o == s.out
<1>1. f \in DownFrames /\ f.id = id /\ f.n = n /\ f.type = "DATA"
  BY H2Assumption DEF Frame, DownFrames, Frames, FrameTypes
<1>2. /\ o \in Seq(DownFrames) /\ s.sendW \in Int /\ s.streams \in Maps(StreamStates)
      /\ s.streams \in [DOMAIN s.streams -> StreamStates] /\ DOMAIN s.streams \in SUBSET StreamIds
  BY SrvFields, MapFacts
<1>3. /\ t.initial = s.initial /\ t.recvW = s.recvW /\ t.sendW = s.sendW - n /\ t.pending = s.pending
      /\ t.streams = IF id \in DOMAIN s.streams THEN [s.streams EXCEPT ![id].sendW = @ - n] ELSE s.streams
      /\ t.out = IF n > 0 THEN Append(o, f) ELSE o
      /\ t = [initial |-> t.initial, sendW |-> t.sendW, recvW |-> t.recvW, streams |-> t.streams,
              pending |-> t.pending, out |-> t.out]
  <2>1. PICK x : x = IF id \in DOMAIN s.streams THEN [s.streams EXCEPT ![id].sendW = @ - n] ELSE s.streams
    OBVIOUS
  <2>2. PICK y : y = IF n > 0 THEN Append(o, f) ELSE o
    OBVIOUS
  <2>3. t = [s EXCEPT !.sendW = s.sendW - n, !.streams = x, !.out = y]
    BY <2>1, <2>2 DEF QueueData
  <2> HIDE DEF t, f
  <2>4. /\ t.initial = s.initial /\ t.recvW = s.recvW /\ t.sendW = s.sendW - n
        /\ t.pending = s.pending /\ t.streams = x /\ t.out = y
        /\ t = [initial |-> t.initial, sendW |-> t.sendW, recvW |-> t.recvW, streams |-> t.streams,
                pending |-> t.pending, out |-> t.out]
    BY <2>3 DEF SrvStates
  <2> QED
    BY <2>1, <2>2, <2>4
<1> HIDE DEF t, f
<1>4. /\ Append(o, f) \in Seq(DownFrames)
      /\ AllUnits(o) \in Int /\ AllUnits(Append(o, f)) = AllUnits(o) + n
      /\ \A k : /\ Units(o, "DATA", k) \in Int
                /\ Units(Append(o, f), "DATA", k) = Units(o, "DATA", k) + (IF k = id THEN n ELSE 0)
                /\ Units(Append(o, f), "WINDOW_UPDATE", k) = Units(o, "WINDOW_UPDATE", k)
                /\ Mentions(Append(o, f), k) <=> Mentions(o, k) \/ k = id
  <2> HIDE DEF o
  <2> QED
    BY <1>1, <1>2, AppendFrame
<1>5. /\ t.out \in Seq(DownFrames) /\ AllUnits(t.out) = AllUnits(o) + n
      /\ \A k : /\ Units(t.out, "DATA", k) = Units(o, "DATA", k) + (IF k = id THEN n ELSE 0)
                /\ Units(t.out, "WINDOW_UPDATE", k) = Units(o, "WINDOW_UPDATE", k)
                /\ k # id => (Mentions(t.out, k) <=> Mentions(o, k))
  <2>1. CASE n > 0
    <3>1. t.out = Append(o, f)
      BY <1>3, <2>1
    <3> QED
      BY <1>4, <3>1
  <2>2. CASE ~(n > 0)
    <3>1. n = 0 /\ t.out = o
      BY <1>3, <2>2
    <3> HIDE DEF o
    <3> QED
      BY <1>2, <1>4, <3>1
  <2> QED
    BY <2>1, <2>2
<1>6. /\ t.streams \in Maps(StreamStates) /\ DOMAIN t.streams = DOMAIN s.streams
      /\ \A k \in DOMAIN s.streams : k # id => t.streams[k] = s.streams[k]
      /\ id \in DOMAIN s.streams => t.streams[id] = [s.streams[id] EXCEPT !.sendW = @ - n]
  <2>1. CASE id \in DOMAIN s.streams
    <3>1. t.streams = [s.streams EXCEPT ![id] = [s.streams[id] EXCEPT !.sendW = @ - n]]
      BY <1>3, <2>1
    <3>2. [s.streams[id] EXCEPT !.sendW = @ - n] \in StreamStates
      BY <1>2, <2>1 DEF StreamStates
    <3>3. t.streams \in [DOMAIN s.streams -> StreamStates] /\ DOMAIN t.streams = DOMAIN s.streams
      BY <1>2, <3>1, <3>2
    <3>4. t.streams \in Maps(StreamStates)
      BY <1>2, <3>3, MapFacts
    <3> QED
      BY <1>2, <2>1, <3>1, <3>3, <3>4
  <2>2. CASE id \notin DOMAIN s.streams
    BY <1>2, <1>3, <2>2
  <2> QED
    BY <2>1, <2>2
<1>7. t \in SrvStates
  <2>1. s.initial \in Int /\ s.recvW \in Int /\ s.pending \in Maps(Nat) /\ t.sendW \in Int
    BY <1>2, <1>3, SrvFields
  <2> QED
    BY <1>3, <1>5, <1>6, <2>1 DEF SrvStates
<1>8. id \in DOMAIN s.streams =>
         /\ t.streams[id].sendW = s.streams[id].sendW - n /\ s.streams[id].sendW \in Int
         /\ SameBody(s, t, id)
  BY <1>2, <1>6 DEF StreamStates, SameBody
<1>9. \A k \in DOMAIN s.streams : k # id => SameBody(s, t, k) /\ s.streams[k].sendW \in Int
  BY <1>6, SrvFields DEF SameBody
<1>10. ASSUME NEW k \in DOMAIN t.streams
       PROVE  /\ StreamWindow(t, k) + Units(t.out, "DATA", k) = StreamWindow(s, k) + Units(s.out, "DATA", k)
              /\ StreamWindow(t, k) <= StreamWindow(s, k)
              /\ SameBody(s, t, k)
  <2>1. k \in DOMAIN s.streams /\ StreamWindow(t, k) = t.streams[k].sendW /\ StreamWindow(s, k) = s.streams[k].sendW
    BY <1>6, <1>10 DEF StreamWindow
  <2>2. Units(o, "DATA", k) \in Int /\ Units(t.out, "DATA", k) = Units(o, "DATA", k) + (IF k = id THEN n ELSE 0)
    BY <1>4, <1>5
  <2>3. CASE k = id
    BY <1>8, <2>1, <2>2, <2>3
  <2>4. CASE k # id
    BY <1>6, <1>9, <2>1, <2>2, <2>4
  <2> QED
    BY <2>3, <2>4
<1>11. Charged(s, t)
  <2>1. t.sendW <= s.sendW /\ t.sendW + AllUnits(t.out) = s.sendW + AllUnits(s.out)
    BY <1>2, <1>3, <1>4, <1>5
  <2> QED
    BY <1>3, <1>5, <1>7, <1>10, <2>1 DEF Charged
<1>12. OthersKept(s, t, id)
  BY <1>3, <1>5, <1>6 DEF OthersKept
<1>13. t.sendW + AllUnits(t.out) = s.sendW + AllUnits(s.out)
  BY <1>11 DEF Charged
<1>14. Units(t.out, "DATA", id) = Units(s.out, "DATA", id) + n /\ Units(t.out, "DATA", id) \in Int
  BY <1>4, <1>5
<1> QED
  BY <1>3, <1>6, <1>8, <1>11, <1>12, <1>13, <1>14 DEF t

LEMMA ChargedTransitive ==
    ASSUME NEW s \in SrvStates, NEW t, NEW u, Charged(s, t), Charged(t, u),
           DOMAIN u.streams \in SUBSET DOMAIN t.streams
    PROVE  Charged(s, u)
<1>1. t \in SrvStates /\ u \in SrvStates
  BY DEF Charged
<1>2. /\ s.sendW \in Int /\ t.sendW \in Int /\ u.sendW \in Int
      /\ \A k : StreamWindow(s, k) \in Int /\ StreamWindow(t, k) \in Int /\ StreamWindow(u, k) \in Int
  BY <1>1, SrvFields
<1>3. u.sendW <= s.sendW /\ u.initial = s.initial /\ u.recvW = s.recvW
  BY <1>2 DEF Charged
<1>4. ASSUME NEW k \in DOMAIN u.streams
      PROVE  /\ StreamWindow(u, k) + Units(u.out, "DATA", k) = StreamWindow(s, k) + Units(s.out, "DATA", k)
             /\ StreamWindow(u, k) <= StreamWindow(s, k)
             /\ k \in DOMAIN s.streams => SameBody(s, u, k)
  <2>1. k \in DOMAIN t.streams
    OBVIOUS
  <2>2. StreamWindow(u, k) <= StreamWindow(t, k) /\ StreamWindow(t, k) <= StreamWindow(s, k)
    BY <2>1 DEF Charged
  <2>3. StreamWindow(u, k) <= StreamWindow(s, k)
    BY <1>2, <2>2
  <2>4. k \in DOMAIN s.streams => SameBody(s, u, k)
    BY <2>1 DEF Charged, SameBody
  <2> QED
    BY <2>1, <2>3, <2>4 DEF Charged
<1> QED
  BY <1>1, <1>3, <1>4 DEF Charged

LEMMA OthersTransitive ==
    ASSUME NEW s, NEW t, NEW u, NEW id, OthersKept(s, t, id), OthersKept(t, u, id)
    PROVE  OthersKept(s, u, id)
  BY DEF OthersKept

(* A frame that costs nothing.                                              *)
WithFrame(s, f) == [s EXCEPT !.out = Append(s.out, f)]

LEMMA FreeFrameFacts ==
    ASSUME NEW s \in SrvStates, NEW f \in DownFrames, f.type # "WINDOW_UPDATE", f.n = 0
    PROVE  LET t == WithFrame(s, f)
           IN /\ Charged(s, t) /\ OthersKept(s, t, f.id) /\ t.streams = s.streams
              /\ t.pending = s.pending /\ t.sendW = s.sendW
              /\ Units(t.out, "DATA", f.id) = Units(s.out, "DATA", f.id)
<1> DEFINE t == WithFrame(s, f)
<1>0. PICK a : a = Append(s.out, f)
  OBVIOUS
<1>1. /\ t.initial = s.initial /\ t.recvW = s.recvW /\ t.sendW = s.sendW /\ t.pending = s.pending
      /\ t.streams = s.streams /\ t.out = Append(s.out, f)
      /\ t = [initial |-> t.initial, sendW |-> t.sendW, recvW |-> t.recvW, streams |-> t.streams,
              pending |-> t.pending, out |-> t.out]
  <2>1. t = [s EXCEPT !.out = a]
    BY <1>0 DEF WithFrame
  <2> HIDE DEF t
  <2> QED
    BY <1>0, <2>1 DEF SrvStates
<1> HIDE DEF t
<1>2. /\ s.initial \in Int /\ s.sendW \in Int /\ s.recvW \in Int /\ s.out \in Seq(DownFrames)
      /\ s.streams \in Maps(StreamStates) /\ s.pending \in Maps(Nat)
      /\ \A k : StreamWindow(s, k) \in Int
  BY SrvFields
<1>3. PICK o : o = s.out
  OBVIOUS
<1>4. /\ Append(o, f) \in Seq(DownFrames)
      /\ AllUnits(o) \in Int /\ AllUnits(Append(o, f)) = AllUnits(o) + f.n
      /\ \A k : /\ Units(o, "DATA", k) \in Int
                /\ Units(Append(o, f), "DATA", k) = Units(o, "DATA", k) + (IF k = f.id THEN f.n ELSE 0)
                /\ Units(Append(o, f), "WINDOW_UPDATE", k) = Units(o, "WINDOW_UPDATE", k)
                /\ Mentions(Append(o, f), k) <=> Mentions(o, k) \/ k = f.id
  BY <1>2, <1>3, AppendFrame
<1>5. /\ t.out \in Seq(DownFrames) /\ AllUnits(t.out) = AllUnits(s.out)
      /\ \A k : /\ Units(t.out, "DATA", k) = Units(s.out, "DATA", k)
                /\ Units(t.out, "WINDOW_UPDATE", k) = Units(s.out, "WINDOW_UPDATE", k)
                /\ Mentions(t.out, k) <=> Mentions(s.out, k) \/ k = f.id
  BY <1>1, <1>3, <1>4
<1>6. t \in SrvStates
  BY <1>1, <1>2, <1>5 DEF SrvStates
<1>7. \A k : StreamWindow(t, k) = StreamWindow(s, k) /\ StreamWindow(t, k) <= StreamWindow(s, k)
  BY <1>1, <1>2 DEF StreamWindow
<1>8. Charged(s, t)
  <2>1. \A k \in DOMAIN t.streams : SameBody(s, t, k)
    BY <1>1 DEF SameBody
  <2> QED
    BY <1>1, <1>2, <1>5, <1>6, <1>7, <2>1 DEF Charged
<1>9. OthersKept(s, t, f.id)
  BY <1>1, <1>5 DEF OthersKept
<1> QED
  BY <1>1, <1>5, <1>8, <1>9 DEF t

(* A stream is retired, with what waits for it.                             *)
RetiredState(s, id, y) == [s EXCEPT !.streams = Without(s.streams, id), !.pending = y]

LEMMA RetireFacts ==
    ASSUME NEW s \in SrvStates, NEW id, NEW y, y = s.pending \/ y = Without(s.pending, id)
    PROVE  LET t == RetiredState(s, id, y)
           IN /\ Charged(s, t) /\ OthersKept(s, t, id)
              /\ DOMAIN t.streams = DOMAIN s.streams \ {id} /\ t.pending = y
              /\ t.sendW = s.sendW /\ t.out = s.out
<1> DEFINE x == Without(s.streams, id)
           t == RetiredState(s, id, y)
<1>1. /\ s.streams \in Maps(StreamStates) /\ s.pending \in Maps(Nat) /\ s.sendW \in Int
      /\ \A k : StreamWindow(s, k) \in Int
  BY SrvFields
<1>2. /\ x \in Maps(StreamStates) /\ DOMAIN x = DOMAIN s.streams \ {id}
      /\ \A k \in DOMAIN s.streams : k # id => x[k] = s.streams[k]
  BY <1>1, WithoutFacts
<1>3. y \in Maps(Nat) /\ \A k : k # id => (k \in DOMAIN y <=> k \in DOMAIN s.pending)
  <2>1. CASE y = s.pending
    BY <1>1, <2>1
  <2>2. CASE y = Without(s.pending, id)
    <3>1. Without(s.pending, id) \in Maps(Nat) /\ DOMAIN Without(s.pending, id) = DOMAIN s.pending \ {id}
      BY <1>1, WithoutFacts
    <3> QED
      BY <2>2, <3>1
  <2> QED
    BY <2>1, <2>2
<1>4. /\ t \in SrvStates /\ t.initial = s.initial /\ t.recvW = s.recvW
      /\ t.sendW = s.sendW /\ t.out = s.out /\ t.streams = x /\ t.pending = y
  <2>1. t = [s EXCEPT !.streams = x, !.pending = y]
    BY DEF RetiredState
  <2> HIDE DEF x, t
  <2> QED
    BY <1>2, <1>3, <2>1 DEF SrvStates
<1> HIDE DEF x
<1> HIDE DEF t
<1>5. \A k \in DOMAIN x : /\ StreamWindow(t, k) = StreamWindow(s, k)
                          /\ StreamWindow(t, k) <= StreamWindow(s, k)
                          /\ SameBody(s, t, k)
  BY <1>1, <1>2, <1>4 DEF StreamWindow, SameBody
<1>6. Charged(s, t)
  BY <1>1, <1>4, <1>5 DEF Charged
<1>7. OthersKept(s, t, id)
  BY <1>2, <1>3, <1>4 DEF OthersKept
<1> QED
  BY <1>2, <1>4, <1>6, <1>7 DEF t, x

(* A response: it is sent, or waits for a window that is closed.            *)
LEMMA QueueResponseFacts ==
    ASSUME NEW s \in SrvStates, NEW id \in StreamIds, NEW left \in Nat, NEW detached \in BOOLEAN,
           id \notin DOMAIN s.pending
    PROVE  LET t == QueueResponse(s, id, left, detached)
           IN /\ Charged(s, t) /\ OthersKept(s, t, id)
              /\ id \in DOMAIN t.pending =>
                    id \in DOMAIN t.streams /\ (t.sendW <= 0 \/ t.streams[id].sendW <= 0)
              /\ id \in DOMAIN t.streams /\ id \notin DOMAIN s.streams => ~t.streams[id].open
<1> DEFINE f == Frame("HEADERS", id, 0, left = 0)
           headed == WithFrame(s, f)
           n == Allowed(s, id, left)
           sent == QueueData(headed, id, n, n = left)
           opened == [NewStream(s, FALSE) EXCEPT !.sendW = @ - n]
           t == QueueResponse(s, id, left, detached)
<1>1. f \in DownFrames /\ f.id = id /\ f.n = 0 /\ f.type # "WINDOW_UPDATE"
  BY H2Assumption DEF Frame, DownFrames, Frames, FrameTypes
<1>2. /\ t = s \/ id \in DOMAIN s.streams \/ detached
      /\ \/ t = s
         \/ n = left /\ t = [sent EXCEPT !.streams = Without(sent.streams, id)]
         \/ n # left /\ t = [sent EXCEPT
              !.streams = IF id \in DOMAIN sent.streams THEN sent.streams ELSE With(sent.streams, id, opened),
              !.pending = With(sent.pending, id, left - n)]
  <2>1. CASE ~detached /\ id \notin DOMAIN s.streams
    BY <2>1, Zenon DEF QueueResponse
  <2>2. CASE ~(~detached /\ id \notin DOMAIN s.streams) /\ n = left
    BY <2>2, Zenon DEF QueueResponse, WithFrame
  <2>3. CASE ~(~detached /\ id \notin DOMAIN s.streams) /\ n # left
    BY <2>3, Zenon DEF QueueResponse, WithFrame
  <2> QED
    BY <2>1, <2>2, <2>3, Zenon
<1>3. Charged(s, s) /\ OthersKept(s, s, id)
  <2>1. s.sendW \in Int /\ \A k : StreamWindow(s, k) \in Int
    BY SrvFields
  <2> QED
    BY <2>1 DEF Charged, OthersKept, SameBody
<1>4. n \in Nat /\ n <= left /\ (n # left => s.sendW - n <= 0 \/ StreamWindow(s, id) - n <= 0)
  BY AllowedFacts
<1> HIDE DEF f, n
<1>5. /\ Charged(s, headed) /\ OthersKept(s, headed, id) /\ headed.streams = s.streams
      /\ headed.pending = s.pending /\ headed.sendW = s.sendW
      /\ Units(headed.out, "DATA", id) = Units(s.out, "DATA", id)
  BY <1>1, FreeFrameFacts
<1>6. headed \in SrvStates /\ StreamWindow(headed, id) = StreamWindow(s, id) /\ headed.initial = s.initial
  BY <1>5 DEF Charged, StreamWindow
<1> HIDE DEF headed
<1>7. /\ Charged(headed, sent) /\ OthersKept(headed, sent, id)
      /\ DOMAIN sent.streams = DOMAIN headed.streams /\ sent.pending = headed.pending
      /\ sent.sendW = headed.sendW - n
      /\ Units(sent.out, "DATA", id) = Units(headed.out, "DATA", id) + n
      /\ id \in DOMAIN headed.streams => sent.streams[id].sendW = headed.streams[id].sendW - n
  <2>1. PICK e \in BOOLEAN : e = (n = left)
    OBVIOUS
  <2>2. sent = QueueData(headed, id, n, e)
    BY <2>1
  <2> HIDE DEF sent
  <2> QED
    BY <1>4, <1>6, <2>2, QueueDataFacts
<1> HIDE DEF sent
<1>8. Charged(s, sent) /\ OthersKept(s, sent, id) /\ sent \in SrvStates
  BY <1>5, <1>7, ChargedTransitive, OthersTransitive DEF Charged
<1>9. CASE t = s
  <2> HIDE DEF t
  <2>1. Charged(s, t) /\ OthersKept(s, t, id) /\ id \notin DOMAIN t.pending /\ DOMAIN t.streams = DOMAIN s.streams
    BY <1>3, <1>9
  <2> QED
    BY <2>1 DEF t
<1>10. CASE n = left /\ t = [sent EXCEPT !.streams = Without(sent.streams, id)]
  <2>1. t = [sent EXCEPT !.streams = Without(sent.streams, id), !.pending = sent.pending]
    <3>1. PICK x : x = Without(sent.streams, id)
      OBVIOUS
    <3>2. t = [sent EXCEPT !.streams = x]
      BY <1>10, <3>1
    <3> HIDE DEF t
    <3>3. t = [sent EXCEPT !.streams = x, !.pending = sent.pending]
      BY <1>8, <3>2 DEF SrvStates
    <3> QED
      BY <3>1, <3>3
  <2>2. /\ Charged(sent, t) /\ OthersKept(sent, t, id)
        /\ DOMAIN t.streams = DOMAIN sent.streams \ {id} /\ t.pending = sent.pending
    <3>1. t = RetiredState(sent, id, sent.pending)
      BY <2>1 DEF RetiredState
    <3> HIDE DEF t
    <3> QED
      BY <1>8, <3>1, RetireFacts
  <2> HIDE DEF t
  <2>3. Charged(s, t) /\ OthersKept(s, t, id)
    BY <1>8, <2>2, ChargedTransitive, OthersTransitive
  <2>4. id \notin DOMAIN t.pending /\ id \notin DOMAIN t.streams
    BY <1>5, <1>7, <2>2
  <2> QED
    BY <2>3, <2>4 DEF t
<1>11. CASE /\ n # left
            /\ t = [sent EXCEPT
                 !.streams = IF id \in DOMAIN sent.streams THEN sent.streams ELSE With(sent.streams, id, opened),
                 !.pending = With(sent.pending, id, left - n)]
  <2>1. PICK x : x = IF id \in DOMAIN sent.streams THEN sent.streams ELSE With(sent.streams, id, opened)
    OBVIOUS
  <2>2. PICK y : y = With(sent.pending, id, left - n)
    OBVIOUS
  <2>3. t = [sent EXCEPT !.streams = x, !.pending = y]
    BY <1>11, <2>1, <2>2
  <2>4. opened \in StreamStates /\ opened.sendW = s.initial - n /\ ~opened.open
    <3>1. s.initial \in Int /\ Window \in Int /\ s.initial - n \in Int
      BY <1>4, H2Assumption, SrvFields
    <3>2. PICK e : e = NewStream(s, FALSE)
      OBVIOUS
    <3>3. e \in StreamStates /\ e.sendW = s.initial /\ e.open = FALSE
      BY <3>1, <3>2 DEF NewStream, StreamStates
    <3>4. opened = [e EXCEPT !.sendW = s.initial - n]
      BY <3>2, <3>3
    <3> HIDE DEF opened
    <3>5. opened \in StreamStates /\ opened.sendW = s.initial - n /\ opened.open = FALSE
      BY <3>1, <3>3, <3>4 DEF StreamStates
    <3> QED
      BY <3>5
  <2> HIDE DEF t, opened
  <2>5. left - n \in Nat
    BY <1>4
  <2>6. y \in Maps(Nat) /\ DOMAIN y = DOMAIN sent.pending \cup {id}
    <3>1. PICK v \in Nat : v = left - n
      BY <2>5
    <3>2. sent.pending \in Maps(Nat)
      BY <1>8, SrvFields
    <3>3. With(sent.pending, id, v) \in Maps(Nat) /\ DOMAIN With(sent.pending, id, v) = DOMAIN sent.pending \cup {id}
      BY <3>2, MapFacts DEF With
    <3> QED
      BY <2>2, <3>1, <3>3
  <2>7. /\ x \in Maps(StreamStates) /\ DOMAIN x = DOMAIN sent.streams \cup {id}
        /\ \A k \in DOMAIN sent.streams : x[k] = sent.streams[k]
        /\ id \notin DOMAIN sent.streams => x[id] = opened
    <3>1. sent.streams \in Maps(StreamStates)
      BY <1>8, SrvFields
    <3>2. CASE id \in DOMAIN sent.streams
      BY <2>1, <3>1, <3>2
    <3>3. CASE id \notin DOMAIN sent.streams
      <4>1. x = With(sent.streams, id, opened)
        BY <2>1, <3>3
      <4> QED
        <5>1. /\ With(sent.streams, id, opened) \in Maps(StreamStates)
              /\ DOMAIN With(sent.streams, id, opened) = DOMAIN sent.streams \cup {id}
              /\ With(sent.streams, id, opened)[id] = opened
              /\ \A k \in DOMAIN sent.streams : k # id => With(sent.streams, id, opened)[k] = sent.streams[k]
          BY <2>4, <3>1, MapFacts DEF With
        <5> QED
          BY <3>3, <4>1, <5>1
    <3> QED
      BY <3>2, <3>3
  <2>8. /\ t \in SrvStates /\ t.initial = sent.initial /\ t.recvW = sent.recvW
        /\ t.sendW = sent.sendW /\ t.out = sent.out /\ t.streams = x /\ t.pending = y
    BY <1>8, <2>3, <2>6, <2>7 DEF SrvStates
  <2>9. StreamWindow(t, id) = StreamWindow(s, id) - n
    <3>1. StreamWindow(t, id) = x[id].sendW
      BY <2>7, <2>8 DEF StreamWindow
    <3>2. CASE id \in DOMAIN s.streams
      <4>1. x[id].sendW = s.streams[id].sendW - n
        BY <1>5, <1>7, <2>7, <3>2
      <4> QED
        BY <3>1, <3>2, <4>1 DEF StreamWindow
    <3>3. CASE id \notin DOMAIN s.streams
      <4>1. x[id].sendW = s.initial - n
        BY <1>5, <1>7, <2>4, <2>7, <3>3
      <4> QED
        BY <3>1, <3>3, <4>1 DEF StreamWindow
    <3> QED
      BY <3>2, <3>3
  <2>10. /\ s.sendW \in Int /\ \A k : StreamWindow(s, k) \in Int /\ Units(s.out, "DATA", k) \in Int
         /\ t.sendW = s.sendW - n /\ Units(t.out, "DATA", id) = Units(s.out, "DATA", id) + n
    BY <1>5, <1>7, <2>8, SrvFields, UnitsAreSums
  <2>11. ASSUME NEW k \in DOMAIN t.streams
         PROVE  /\ StreamWindow(t, k) + Units(t.out, "DATA", k) = StreamWindow(s, k) + Units(s.out, "DATA", k)
                /\ StreamWindow(t, k) <= StreamWindow(s, k)
                /\ k \in DOMAIN s.streams => SameBody(s, t, k)
    <3>1. CASE k # id
      <4>1. k \in DOMAIN sent.streams /\ x[k] = sent.streams[k]
        BY <2>7, <2>8, <3>1
      <4>2. StreamWindow(t, k) = StreamWindow(sent, k)
        BY <2>7, <2>8, <4>1 DEF StreamWindow
      <4>3. k \in DOMAIN s.streams => SameBody(s, sent, k)
        BY <1>8, <4>1 DEF Charged
      <4>4. k \in DOMAIN s.streams => SameBody(s, t, k)
        BY <2>8, <4>1, <4>3 DEF SameBody
      <4> QED
        BY <1>8, <2>8, <4>1, <4>2, <4>4 DEF Charged
    <3>2. CASE k = id
      <4>1. /\ StreamWindow(t, k) + Units(t.out, "DATA", k) = StreamWindow(s, k) + Units(s.out, "DATA", k)
            /\ StreamWindow(t, k) <= StreamWindow(s, k)
        BY <1>4, <2>9, <2>10, <3>2
      <4>2. k \in DOMAIN s.streams => SameBody(s, sent, k) /\ x[k] = sent.streams[k]
        BY <1>5, <1>7, <1>8, <2>7, <3>2 DEF Charged
      <4>3. k \in DOMAIN s.streams => SameBody(s, t, k)
        BY <2>8, <4>2 DEF SameBody
      <4> QED
        BY <4>1, <4>3
    <3> QED
      BY <3>1, <3>2
  <2>12. Charged(s, t)
    <3>1. /\ sent.initial = s.initial /\ sent.recvW = s.recvW /\ sent.sendW <= s.sendW
          /\ sent.sendW + AllUnits(sent.out) = s.sendW + AllUnits(s.out)
          /\ \A k : Units(sent.out, "WINDOW_UPDATE", k) = Units(s.out, "WINDOW_UPDATE", k)
      BY <1>8 DEF Charged
    <3> QED
      BY <2>8, <2>11, <3>1 DEF Charged
  <2>13. OthersKept(sent, t, id)
    BY <2>6, <2>7, <2>8 DEF OthersKept
  <2>14. t.sendW <= 0 \/ t.streams[id].sendW <= 0
    BY <1>4, <1>11, <2>7, <2>8, <2>9, <2>10 DEF StreamWindow
  <2>15. id \notin DOMAIN s.streams => ~t.streams[id].open
    BY <1>5, <1>7, <2>4, <2>7, <2>8
  <2> QED
    BY <1>8, <2>7, <2>8, <2>12, <2>13, <2>14, <2>15, OthersTransitive DEF t
<1> QED
  BY <1>2, <1>9, <1>10, <1>11

(* A pending response goes on: it ends, or a window is closed then.         *)
LEMMA DrainOneFacts ==
    ASSUME NEW s \in SrvStates, NEW id \in DOMAIN s.pending, id \in DOMAIN s.streams
    PROVE  LET t == DrainOne(id, s)
           IN /\ Charged(s, t) /\ OthersKept(s, t, id)
              /\ id \in DOMAIN t.pending =>
                    id \in DOMAIN t.streams /\ (t.sendW <= 0 \/ t.streams[id].sendW <= 0)
              /\ DOMAIN t.streams \in SUBSET DOMAIN s.streams
<1> DEFINE left == s.pending[id]
           n == Allowed(s, id, left)
           sent == QueueData(s, id, n, n = left)
           t == DrainOne(id, s)
<1>1. id \in StreamIds /\ left \in Nat /\ s.sendW \in Int /\ s.streams[id].sendW \in Int
  BY SrvFields
<1>2. \/ n = left /\ t = RetiredState(sent, id, Without(sent.pending, id))
      \/ n # left /\ t = [sent EXCEPT !.pending[id] = @ - n]
  BY Zenon DEF DrainOne, RetiredState
<1> HIDE DEF left
<1>3. n \in Nat /\ n <= left /\ (n # left => s.sendW - n <= 0 \/ StreamWindow(s, id) - n <= 0)
  BY <1>1, AllowedFacts
<1> HIDE DEF n
<1>4. /\ Charged(s, sent) /\ OthersKept(s, sent, id)
      /\ DOMAIN sent.streams = DOMAIN s.streams /\ sent.pending = s.pending
      /\ sent.sendW = s.sendW - n
      /\ sent.streams[id].sendW = s.streams[id].sendW - n
  <2>1. PICK e \in BOOLEAN : e = (n = left)
    OBVIOUS
  <2>2. sent = QueueData(s, id, n, e)
    BY <2>1
  <2> HIDE DEF sent
  <2> QED
    BY <1>1, <1>3, <2>2, QueueDataFacts
<1> HIDE DEF sent
<1>5. sent \in SrvStates
  BY <1>4 DEF Charged
<1>6. CASE n = left /\ t = RetiredState(sent, id, Without(sent.pending, id))
  <2> HIDE DEF t
  <2>1. /\ Charged(sent, t) /\ OthersKept(sent, t, id)
        /\ DOMAIN t.streams = DOMAIN sent.streams \ {id} /\ t.pending = Without(sent.pending, id)
    BY <1>5, <1>6, RetireFacts
  <2>2. id \notin DOMAIN t.pending
    BY <2>1 DEF Without, Restrict
  <2>3. Charged(s, t) /\ OthersKept(s, t, id)
    BY <1>4, <2>1, ChargedTransitive, OthersTransitive
  <2> QED
    BY <1>4, <2>1, <2>2, <2>3 DEF t
<1>7. CASE n # left /\ t = [sent EXCEPT !.pending[id] = @ - n]
  <2> DEFINE p == [sent.pending EXCEPT ![id] = @ - n]
  <2>1. p \in Maps(Nat) /\ DOMAIN p = DOMAIN s.pending
    <3>1. sent.pending = s.pending /\ s.pending \in [DOMAIN s.pending -> Nat]
          /\ DOMAIN s.pending \in SUBSET StreamIds
      BY <1>4, SrvFields, MapFacts
    <3>2. left - n \in Nat /\ s.pending[id] = left
      BY <1>1, <1>3 DEF left
    <3>3. PICK v \in Nat : v = left - n
      BY <3>2
    <3>4. p = [s.pending EXCEPT ![id] = v]
      BY <3>1, <3>2, <3>3
    <3>5. DOMAIN p = DOMAIN s.pending /\ p \in [DOMAIN s.pending -> Nat]
      BY <3>1, <3>4
    <3> HIDE DEF p
    <3> QED
      BY <3>1, <3>5, MapFacts
  <2>2. t = [sent EXCEPT !.pending = p]
    BY <1>5, <1>7 DEF SrvStates
  <2> HIDE DEF p, t
  <2>3. /\ t \in SrvStates /\ t.initial = sent.initial /\ t.recvW = sent.recvW /\ t.sendW = sent.sendW
        /\ t.streams = sent.streams /\ t.out = sent.out /\ t.pending = p
    BY <1>5, <2>1, <2>2 DEF SrvStates
  <2>4. \A k : StreamWindow(t, k) = StreamWindow(sent, k)
    BY <2>3 DEF StreamWindow
  <2>5. Charged(s, t)
    BY <1>4, <2>3, <2>4 DEF Charged, SameBody
  <2>6. OthersKept(s, t, id)
    BY <1>4, <2>1, <2>3 DEF OthersKept
  <2>7. t.sendW <= 0 \/ t.streams[id].sendW <= 0
    BY <1>1, <1>3, <1>4, <1>7, <2>3 DEF StreamWindow
  <2> QED
    BY <1>4, <2>3, <2>5, <2>6, <2>7 DEF t
<1> QED
  BY <1>2, <1>6, <1>7

(* The pending responses of some streams have gone on.                      *)
DrainedOf(s, t, ids) ==
    /\ Charged(s, t)
    /\ DOMAIN t.streams \in SUBSET DOMAIN s.streams
    /\ \A k : k \in ids /\ k \in DOMAIN t.pending =>
          /\ k \in DOMAIN s.pending /\ k \in DOMAIN t.streams
          /\ t.sendW <= 0 \/ t.streams[k].sendW <= 0
    /\ \A k : k \notin ids =>
          /\ k \in DOMAIN t.streams <=> k \in DOMAIN s.streams
          /\ k \in DOMAIN s.streams => t.streams[k] = s.streams[k]
          /\ k \in DOMAIN t.pending <=> k \in DOMAIN s.pending
          /\ Mentions(t.out, k) <=> Mentions(s.out, k)

LEMMA DrainNone ==
    ASSUME NEW s \in SrvStates PROVE DrainedOf(s, s, {})
<1>1. s.sendW \in Int /\ \A k : StreamWindow(s, k) \in Int
  BY SrvFields
<1> QED
  BY <1>1 DEF DrainedOf, Charged, SameBody

LEMMA DrainAnother ==
    ASSUME NEW s \in SrvStates, NEW t, NEW ids, NEW id, DrainedOf(s, t, ids), id \notin ids,
           id \in DOMAIN s.pending, id \in DOMAIN s.streams
    PROVE  DrainedOf(s, DrainOne(id, t), ids \cup {id})
<1>1. PICK u : u = DrainOne(id, t)
  OBVIOUS
<1>2. t \in SrvStates /\ id \in DOMAIN t.pending /\ id \in DOMAIN t.streams
  BY DEF DrainedOf, Charged
<1>3. /\ Charged(t, u) /\ OthersKept(t, u, id)
      /\ id \in DOMAIN u.pending => id \in DOMAIN u.streams /\ (u.sendW <= 0 \/ u.streams[id].sendW <= 0)
      /\ DOMAIN u.streams \in SUBSET DOMAIN t.streams
  BY <1>1, <1>2, DrainOneFacts
<1>4. Charged(s, u) /\ DOMAIN u.streams \in SUBSET DOMAIN s.streams
  BY <1>3, ChargedTransitive DEF DrainedOf
<1>5. u.sendW <= t.sendW /\ u.sendW \in Int /\ t.sendW \in Int
  BY <1>2, <1>3, SrvFields DEF Charged
<1>6. ASSUME NEW k, k \in ids \cup {id}, k \in DOMAIN u.pending
      PROVE  /\ k \in DOMAIN s.pending /\ k \in DOMAIN u.streams
             /\ u.sendW <= 0 \/ u.streams[k].sendW <= 0
  <2>1. CASE k = id
    BY <1>3, <1>6, <2>1
  <2>2. CASE k # id
    <3>1. k \in ids /\ k \in DOMAIN t.pending /\ (k \in DOMAIN t.streams => u.streams[k] = t.streams[k])
          /\ (k \in DOMAIN t.streams => k \in DOMAIN u.streams)
      BY <1>3, <1>6, <2>2 DEF OthersKept
    <3>2. k \in DOMAIN s.pending /\ k \in DOMAIN t.streams /\ (t.sendW <= 0 \/ t.streams[k].sendW <= 0)
      BY <3>1 DEF DrainedOf
    <3> QED
      BY <1>5, <3>1, <3>2
  <2> QED
    BY <2>1, <2>2
<1>7. ASSUME NEW k, k \notin ids \cup {id}
      PROVE  /\ k \in DOMAIN u.streams <=> k \in DOMAIN s.streams
             /\ k \in DOMAIN s.streams => u.streams[k] = s.streams[k]
             /\ k \in DOMAIN u.pending <=> k \in DOMAIN s.pending
             /\ Mentions(u.out, k) <=> Mentions(s.out, k)
  <2>1. k # id /\ k \notin ids
    BY <1>7
  <2> QED
    BY <1>3, <2>1 DEF OthersKept, DrainedOf
<1> QED
  BY <1>1, <1>4, <1>6, <1>7 DEF DrainedOf

(* drain_pending_responses(): every response that waits goes on, in any     *)
(* order.                                                                   *)
Among(order, r) == {order[i] : i \in r}
DrainStep(order, i, v) ==
    IF order[i] \in DOMAIN v.pending /\ order[i] \in DOMAIN v.streams THEN DrainOne(order[i], v) ELSE v

LEMMA DrainSteps ==
    ASSUME NEW s \in SrvStates, DOMAIN s.pending \in SUBSET DOMAIN s.streams, NEW D, IsFiniteSet(D),
           NEW order, \A i \in D : order[i] \in DOMAIN s.pending,
           \A i, j \in D : i # j => order[i] # order[j],
           NEW g, g[{}] = s,
           \A r \in SUBSET D : r # {} /\ DrainedOf(s, g[r \ {Pick(r)}], Among(order, r \ {Pick(r)})) =>
              g[r] = DrainOne(order[Pick(r)], g[r \ {Pick(r)}])
    PROVE  \A r \in SUBSET D : DrainedOf(s, g[r], Among(order, r))
<1> DEFINE P == {r \in SUBSET D : DrainedOf(s, g[r], Among(order, r))}
<1>1. ASSUME NEW r \in SUBSET D, \A t \in SUBSET r : t # r => t \in P
      PROVE  r \in P
  <2>1. CASE r = {}
    <3>1. Among(order, r) = {}
      BY <2>1 DEF Among
    <3> QED
      BY <2>1, <3>1, DrainNone
  <2>2. CASE r # {}
    <3>1. PICK i : i = Pick(r)
      OBVIOUS
    <3>2. i \in r /\ i \in D
      BY <2>2, <3>1, PickIsMember
    <3>3. PICK q : q = r \ {i}
      OBVIOUS
    <3>4. q \in P
      BY <1>1, <3>2, <3>3
    <3>5. PICK ids : ids = Among(order, q)
      OBVIOUS
    <3>6. DrainedOf(s, g[q], ids) /\ g[r] = DrainOne(order[i], g[q])
      BY <2>2, <3>1, <3>3, <3>4, <3>5
    <3>7. order[i] \notin ids /\ Among(order, r) = ids \cup {order[i]}
      BY <3>2, <3>3, <3>5 DEF Among
    <3>8. PICK id : id = order[i]
      OBVIOUS
    <3>9. id \in DOMAIN s.pending /\ id \in DOMAIN s.streams /\ id \notin ids
      BY <3>2, <3>7, <3>8
    <3>10. DrainedOf(s, DrainOne(id, g[q]), ids \cup {id})
      BY <3>6, <3>9, DrainAnother
    <3> QED
      BY <3>6, <3>7, <3>8, <3>10
  <2> QED
    BY <2>1, <2>2
<1> HIDE DEF P
<1>2. \A r \in SUBSET D : r \in P
  BY <1>1, SubsetInduction
<1> QED
  BY <1>2 DEF P

(* A sequence of all elements of a finite set, each once, leaves none out.  *)
LEMMA EachOnce ==
    ASSUME NEW S, IsFiniteSet(S), NEW f \in [1 .. Cardinality(S) -> S],
           \A i, j \in 1 .. Cardinality(S) : i # j => f[i] # f[j]
    PROVE  /\ IsFiniteSet(1 .. Cardinality(S))
           /\ \A x \in S : \E i \in 1 .. Cardinality(S) : f[i] = x
<1>1. Cardinality(S) \in Nat
  BY FS_CardinalityType
<1>2. PICK n \in Nat : n = Cardinality(S)
  BY <1>1
<1>3. IsFiniteSet(1 .. n) /\ Cardinality(1 .. n) = n
  <2>1. IsFiniteSet(1 .. n) /\ Cardinality(1 .. n) = IF 1 > n THEN 0 ELSE n - 1 + 1
    BY FS_Interval
  <2> QED
    BY <2>1
<1>4. f \in Injection(1 .. n, S)
  BY <1>2 DEF Injection, IsInjective
<1>5. f \in Surjection(1 .. n, S)
  BY <1>2, <1>3, <1>4, FS_Injection
<1> QED
  BY <1>2, <1>3, <1>5 DEF Surjection

LEMMA DrainedFacts ==
    ASSUME NEW s \in SrvStates, DOMAIN s.pending \in SUBSET DOMAIN s.streams, NEW t \in Drained(s)
    PROVE  DrainedOf(s, t, DOMAIN s.pending)
<1>1. PICK order \in SetToSeqs(DOMAIN s.pending) : t = FoldSeq(DrainOne, s, order)
  BY Zenon DEF Drained
<1>2. PICK D : D = 1 .. Cardinality(DOMAIN s.pending)
  OBVIOUS
<1>3. order \in [D -> DOMAIN s.pending] /\ \A i, j \in D : i # j => order[i] # order[j]
  BY <1>1, <1>2 DEF SetToSeqs
<1>4. IsFiniteSet(DOMAIN s.pending)
  BY H2Assumption, SrvFields, FS_Subset
<1>5. IsFiniteSet(D) /\ \A x \in DOMAIN s.pending : \E i \in D : order[i] = x
  <2>1. PICK S : S = DOMAIN s.pending
    OBVIOUS
  <2>2. /\ IsFiniteSet(S) /\ order \in [1 .. Cardinality(S) -> S]
        /\ \A i, j \in 1 .. Cardinality(S) : i # j => order[i] # order[j]
    BY <1>2, <1>3, <1>4, <2>1
  <2>3. /\ IsFiniteSet(1 .. Cardinality(S))
        /\ \A x \in S : \E i \in 1 .. Cardinality(S) : order[i] = x
    BY <2>2, EachOnce
  <2> QED
    BY <1>2, <2>1, <2>3
<1>6. Among(order, D) = DOMAIN s.pending /\ DOMAIN order = D
  BY <1>3, <1>5 DEF Among
<1> DEFINE Fold(g) == [r \in SUBSET D |-> IF r = {} THEN s ELSE DrainOne(order[Pick(r)], g[r \ {Pick(r)}])]
           G == CHOOSE g : g = Fold(g)
           step == [i \in D |-> [v \in SrvStates |-> DrainStep(order, i, v)]]
<1>7. t = G[D]
  BY <1>1, <1>6, Zenon DEF FoldSeq, FoldFunction, FoldFunctionOnSet, MapThenFoldSet, Pick
<1>8. \A r \in SUBSET D : r # {} => Pick(r) \in D /\ r \ {Pick(r)} \in SUBSET D
  BY PickIsMember
<1>9. \E g : g = Fold(g)
  <2>1. step \in [D -> [SrvStates -> SrvStates]]
    <3>1. ASSUME NEW i \in D, NEW v \in SrvStates PROVE DrainStep(order, i, v) \in SrvStates
      <4>1. CASE order[i] \in DOMAIN v.pending /\ order[i] \in DOMAIN v.streams
        <5>1. PICK id : id = order[i]
          OBVIOUS
        <5>2. DrainOne(id, v) \in SrvStates
          BY <4>1, <5>1, DrainOneFacts DEF Charged
        <5> QED
          BY <4>1, <5>1, <5>2 DEF DrainStep
      <4>2. CASE ~(order[i] \in DOMAIN v.pending /\ order[i] \in DOMAIN v.streams)
        BY <4>2 DEF DrainStep
      <4> QED
        BY <4>1, <4>2
    <3> QED
      BY <3>1
  <2>2. PICK g : IsFold(g, D, SrvStates, s, step)
    <3> HIDE DEF step
    <3> QED
      BY <1>5, <2>1, FoldExists
  <2>3. g \in [SUBSET D -> SrvStates] /\ g[{}] = s
    BY <2>2 DEF IsFold
  <2>4. ASSUME NEW r \in SUBSET D, r # {} PROVE g[r] = DrainStep(order, Pick(r), g[r \ {Pick(r)}])
    <3>1. g[r] = step[Pick(r)][g[r \ {Pick(r)}]]
      <4> HIDE DEF step
      <4> QED
        BY <2>2, <2>4 DEF IsFold
    <3>2. Pick(r) \in D /\ g[r \ {Pick(r)}] \in SrvStates
      BY <1>8, <2>3, <2>4
    <3> QED
      BY <3>1, <3>2
  <2>5. ASSUME NEW r \in SUBSET D, r # {}, DrainedOf(s, g[r \ {Pick(r)}], Among(order, r \ {Pick(r)}))
        PROVE  g[r] = DrainOne(order[Pick(r)], g[r \ {Pick(r)}])
    <3>1. PICK i : i = Pick(r)
      OBVIOUS
    <3>2. i \in r
      BY <2>5, <3>1, PickIsMember
    <3>3. order[i] \notin Among(order, r \ {i}) /\ order[i] \in DOMAIN s.pending /\ order[i] \in DOMAIN s.streams
      BY <1>3, <3>2 DEF Among
    <3>4. order[i] \in DOMAIN g[r \ {i}].pending /\ order[i] \in DOMAIN g[r \ {i}].streams
      BY <2>5, <3>1, <3>3 DEF DrainedOf
    <3> QED
      BY <2>4, <2>5, <3>1, <3>4 DEF DrainStep
  <2> HIDE DEF step
  <2>6. \A r \in SUBSET D : DrainedOf(s, g[r], Among(order, r))
    BY <1>3, <1>5, <2>3, <2>5, DrainSteps
  <2>7. \A r \in SUBSET D : g[r] = IF r = {} THEN s ELSE DrainOne(order[Pick(r)], g[r \ {Pick(r)}])
    BY <1>8, <2>3, <2>5, <2>6
  <2>8. g = Fold(g)
    BY <2>3, <2>7
  <2> QED
    BY <2>8, Zenon
<1>10. G = Fold(G)
  BY <1>9, Zenon
<1> HIDE DEF G, step
<1>11. \A r \in SUBSET D : G[r] = IF r = {} THEN s ELSE DrainOne(order[Pick(r)], G[r \ {Pick(r)}])
  BY <1>10
<1> HIDE DEF Fold
<1>12. G[{}] = s /\ \A r \in SUBSET D : r # {} => G[r] = DrainOne(order[Pick(r)], G[r \ {Pick(r)}])
  BY <1>11
<1>13. \A r \in SUBSET D : DrainedOf(s, G[r], Among(order, r))
  BY <1>3, <1>5, <1>12, DrainSteps
<1> QED
  BY <1>6, <1>7, <1>13

(* What is left of a queue after std::erase_if().                           *)
LEMMA ErasedFacts ==
    ASSUME NEW S, NEW q \in Seq(S), NEW id, \A i, j \in DOMAIN q : q[i].id = q[j].id => i = j
    PROVE  LET e == Erased(q, id)
           IN /\ e \in Seq(S)
              /\ \A i \in DOMAIN e : e[i].id # id /\ \E j \in DOMAIN q : q[j] = e[i]
              /\ \A i, j \in DOMAIN e : e[i].id = e[j].id => i = j
<1> DEFINE N == Len(q)
           Fold(g) == [n \in 0 .. N |-> IF n = 0 THEN << >>
                          ELSE IF q[n].id = id THEN g[n - 1] ELSE Append(g[n - 1], q[n])]
           G == CHOOSE g : g = Fold(g)
           Upto(g, m) == \A n \in 0 .. m : g[n] = IF n = 0 THEN << >>
                          ELSE IF q[n].id = id THEN g[n - 1] ELSE Append(g[n - 1], q[n])
           Has == {m \in Nat : m <= N => \E g : g = [n \in 0 .. m |-> g[n]] /\ Upto(g, m)}
           Good(e, n) == /\ e \in Seq(S)
                         /\ \A i \in DOMAIN e : e[i].id # id /\ \E j \in 1 .. n : q[j] = e[i]
                         /\ \A i, j \in DOMAIN e : e[i].id = e[j].id => i = j
           Kept == {n \in Nat : n <= N => Good(G[n], n)}
<1>1. Erased(q, id) = G[N]
  BY Zenon DEF Erased
<1>2. N \in Nat /\ DOMAIN q = 1 .. N /\ \A i \in 1 .. N : q[i] \in S
  OBVIOUS
<1>3. 0 \in Has
  <2>1. PICK g : g = [n \in 0 .. 0 |-> << >>]
    OBVIOUS
  <2>2. g = [n \in 0 .. 0 |-> g[n]] /\ Upto(g, 0)
    BY <2>1
  <2> QED
    BY <2>2
<1>4. ASSUME NEW m \in Nat, m \in Has PROVE m + 1 \in Has
  <2> SUFFICES ASSUME m + 1 <= N PROVE \E g : g = [n \in 0 .. (m + 1) |-> g[n]] /\ Upto(g, m + 1)
    OBVIOUS
  <2>1. PICK g : g = [n \in 0 .. m |-> g[n]] /\ Upto(g, m)
    BY <1>2, <1>4
  <2>2. PICK h : h = [n \in 0 .. (m + 1) |-> IF n <= m THEN g[n]
                         ELSE IF q[m + 1].id = id THEN g[m] ELSE Append(g[m], q[m + 1])]
    OBVIOUS
  <2>3. \A n \in 0 .. m : h[n] = g[n]
    BY <2>2
  <2>4. h = [n \in 0 .. (m + 1) |-> h[n]]
    BY <2>2
  <2>5. Upto(h, m + 1)
    <3> SUFFICES ASSUME NEW n \in 0 .. (m + 1)
                 PROVE  h[n] = IF n = 0 THEN << >>
                               ELSE IF q[n].id = id THEN h[n - 1] ELSE Append(h[n - 1], q[n])
      OBVIOUS
    <3>1. CASE n <= m
      <4>1. n \in 0 .. m /\ (n # 0 => n - 1 \in 0 .. m)
        BY <3>1
      <4> QED
        BY <2>1, <2>3, <4>1
    <3>2. CASE n = m + 1
      <4>1. n - 1 = m /\ m \in 0 .. m /\ n # 0 /\ ~(n <= m)
        BY <3>2
      <4>2. h[n] = IF q[m + 1].id = id THEN g[m] ELSE Append(g[m], q[m + 1])
        BY <2>2, <4>1
      <4> QED
        BY <2>3, <3>2, <4>1, <4>2
    <3> QED
      BY <3>1, <3>2
  <2> QED
    BY <2>4, <2>5
<1>5. \E g : g = Fold(g)
  <2>1. \A m \in Nat : m \in Has
    <3> HIDE DEF Has
    <3> QED
      BY <1>3, <1>4, NatSetInduction
  <2>2. PICK g : g = [n \in 0 .. N |-> g[n]] /\ Upto(g, N)
    BY <1>2, <2>1
  <2>3. g = Fold(g)
    BY <2>2
  <2> QED
    BY <2>3, Zenon
<1>6. G = Fold(G)
  BY <1>5, Zenon
<1> HIDE DEF G
<1>7. \A n \in 0 .. N : G[n] = IF n = 0 THEN << >>
                               ELSE IF q[n].id = id THEN G[n - 1] ELSE Append(G[n - 1], q[n])
  BY <1>6
<1>8. 0 \in Kept
  <2>1. G[0] = << >>
    BY <1>2, <1>7
  <2>2. PICK e : e = << >>
    OBVIOUS
  <2>3. e \in Seq(S) /\ DOMAIN e = {}
    BY <2>2
  <2>4. Good(e, 0)
    BY <2>3
  <2>5. G[0] = e
    BY <2>1, <2>2
  <2> HIDE DEF Good
  <2> QED
    BY <2>4, <2>5
<1>9. ASSUME NEW m \in Nat, m \in Kept PROVE m + 1 \in Kept
  <2> SUFFICES ASSUME m + 1 <= N PROVE Good(G[m + 1], m + 1)
    OBVIOUS
  <2>1. PICK e : e = G[m]
    OBVIOUS
  <2>2. Good(e, m)
    BY <1>2, <1>9, <2>1
  <2>3. m + 1 \in 1 .. N /\ m + 1 \in 0 .. N /\ (m + 1) - 1 = m /\ m + 1 # 0 /\ q[m + 1] \in S
    BY <1>2
  <2>4. G[m + 1] = IF q[m + 1].id = id THEN e ELSE Append(e, q[m + 1])
    BY <1>7, <2>1, <2>3
  <2>5. CASE q[m + 1].id = id
    BY <2>2, <2>4, <2>5
  <2>6. CASE q[m + 1].id # id
    <3>1. PICK x : x = q[m + 1]
      OBVIOUS
    <3>2. PICK f : f = Append(e, x)
      OBVIOUS
    <3>3. /\ f \in Seq(S) /\ DOMAIN f = 1 .. (Len(e) + 1) /\ Len(e) \in Nat /\ DOMAIN e = 1 .. Len(e)
          /\ \A i \in 1 .. Len(e) : f[i] = e[i]
          /\ f[Len(e) + 1] = x
      BY <2>2, <2>3, <3>1, <3>2
    <3>4. \A i \in DOMAIN e : e[i].id # x.id
      <4> SUFFICES ASSUME NEW i \in DOMAIN e, e[i].id = x.id PROVE FALSE
        OBVIOUS
      <4>1. PICK j \in 1 .. m : q[j] = e[i]
        BY <2>2
      <4>2. j \in 1 .. N /\ j # m + 1
        BY <1>2, <2>3
      <4> QED
        BY <1>2, <2>3, <3>1, <4>1, <4>2
    <3>5. \A i \in DOMAIN f : f[i].id # id /\ \E j \in 1 .. (m + 1) : q[j] = f[i]
      BY <2>2, <2>3, <2>6, <3>1, <3>3
    <3>6. \A i, j \in DOMAIN f : f[i].id = f[j].id => i = j
      BY <2>2, <3>3, <3>4
    <3>7. Good(f, m + 1)
      BY <3>3, <3>5, <3>6
    <3> QED
      BY <2>4, <2>6, <3>1, <3>2, <3>7
  <2> QED
    BY <2>5, <2>6
<1>10. \A n \in Nat : n \in Kept
  <2> HIDE DEF Kept
  <2> QED
    BY <1>8, <1>9, NatSetInduction
<1>11. Good(G[N], N)
  BY <1>2, <1>10
<1> QED
  BY <1>1, <1>2, <1>11

-----------------------------------------------------------------------------
(***************************************************************************)
(* The credit of the connection, and windows that are not left idle.        *)
(***************************************************************************)
Orderly == OpensOnce /\ AnsweredOnce /\ NoIdleWindow
H2Core == H2Typed /\ CreditConserved /\ (~ended => Orderly)

LEMMA PlanFacts ==
    ASSUME H2Typed
    PROVE  /\ plan.sizes \in SUBSET Nat /\ plan.answers \in SUBSET {"plain", "source"}
           /\ plan.sends \in Nat /\ plan.windows \in SUBSET Nat
<1>1. plan \in H2Uses
  BY H2Assumption DEF H2Typed
<1> QED
  BY <1>1 DEF H2Uses

LEMMA RequestFacts ==
    /\ \A r \in Requests : r.id \in StreamIds /\ r.detached \in BOOLEAN
    /\ \A q \in Seq(Requests) : \A i \in DOMAIN q : i \in Nat /\ q[i] \in Requests
<1>1. \A r \in Requests : r.id \in StreamIds /\ r.detached \in BOOLEAN
  BY DEF Requests
<1>2. \A q \in Seq(Requests) : \A i \in DOMAIN q : i \in Nat /\ q[i] \in Requests
  OBVIOUS
<1> QED
  BY <1>1, <1>2

LEMMA MentionsConcat ==
    ASSUME NEW S, NEW p \in Seq(S), NEW q \in Seq(S), NEW k
    PROVE  Mentions(p \o q, k) <=> Mentions(p, k) \/ Mentions(q, k)
<1>1. PICK r : r = p \o q
  OBVIOUS
<1>2. /\ Len(p) \in Nat /\ Len(q) \in Nat /\ DOMAIN p = 1 .. Len(p) /\ DOMAIN q = 1 .. Len(q)
      /\ DOMAIN r = 1 .. (Len(p) + Len(q))
      /\ \A i \in 1 .. Len(p) : r[i] = p[i]
      /\ \A i \in 1 .. Len(q) : r[i + Len(p)] = q[i]
  BY <1>1
<1>3. ASSUME NEW i \in DOMAIN r, r[i].id = k PROVE Mentions(p, k) \/ Mentions(q, k)
  <2>1. CASE i <= Len(p)
    BY <1>2, <1>3, <2>1 DEF Mentions
  <2>2. CASE i > Len(p)
    <3>1. i - Len(p) \in 1 .. Len(q) /\ (i - Len(p)) + Len(p) = i
      BY <1>2, <2>2
    <3>2. q[i - Len(p)] = r[i]
      BY <1>2, <3>1
    <3> QED
      BY <1>2, <1>3, <3>1, <3>2 DEF Mentions
  <2> QED
    BY <1>2, <2>1, <2>2
<1>4. ASSUME NEW i \in DOMAIN p, p[i].id = k PROVE Mentions(r, k)
  BY <1>2, <1>4 DEF Mentions
<1>5. ASSUME NEW i \in DOMAIN q, q[i].id = k PROVE Mentions(r, k)
  <2>1. i + Len(p) \in DOMAIN r /\ r[i + Len(p)].id = k
    BY <1>2, <1>5
  <2> QED
    BY <2>1 DEF Mentions
<1> QED
  BY <1>1, <1>3, <1>4, <1>5 DEF Mentions

(* What write_outbound_locked() does.                                       *)
LEMMA WriteFacts ==
    ASSUME H2Typed, NEW who, NEW s \in SrvStates, Write(who, s)
    PROVE  /\ srv' \in SrvStates /\ down' \in Seq(DownFrames)
           /\ srv'.initial = s.initial /\ srv'.sendW = s.sendW /\ srv'.recvW = s.recvW
           /\ srv'.streams = s.streams /\ srv'.pending = s.pending
           /\ Sending' = down \o s.out
           /\ \A k : Mentions(Sending', k) <=> Mentions(down, k) \/ Mentions(s.out, k)
<1>1. down \in Seq(DownFrames) /\ s.out \in Seq(DownFrames)
  BY SrvFields DEF H2Typed
<1>2. srv' = [s EXCEPT !.out = << >>] /\ down' = down \o s.out
  BY DEF Write
<1>3. /\ srv' \in SrvStates
      /\ srv'.initial = s.initial /\ srv'.sendW = s.sendW /\ srv'.recvW = s.recvW
      /\ srv'.streams = s.streams /\ srv'.pending = s.pending /\ srv'.out = << >>
  <2> HIDE DEF DownFrames, Maps, StreamStates
  <2>1. PICK e : e = << >>
    OBVIOUS
  <2>2. e \in Seq(DownFrames)
    BY <2>1
  <2>3. srv' = [s EXCEPT !.out = e]
    BY <1>2, <2>1
  <2>4. /\ srv' \in SrvStates
        /\ srv'.initial = s.initial /\ srv'.sendW = s.sendW /\ srv'.recvW = s.recvW
        /\ srv'.streams = s.streams /\ srv'.pending = s.pending /\ srv'.out = e
    BY <2>2, <2>3 DEF SrvStates
  <2> QED
    BY <2>1, <2>4
<1> HIDE DEF DownFrames
<1>4. PICK o \in Seq(DownFrames) : o = s.out
  BY <1>1
<1>5. down' \in Seq(DownFrames) /\ down' = down \o o
  BY <1>1, <1>2, <1>4
<1>6. Sending' = down \o o
  <2>1. Sending' = down' \o << >>
    BY <1>3 DEF Sending
  <2> QED
    BY <1>5, <2>1
<1>7. \A k : Mentions(Sending', k) <=> Mentions(down, k) \/ Mentions(o, k)
  BY <1>1, <1>4, <1>6, MentionsConcat
<1> QED
  BY <1>3, <1>4, <1>5, <1>6, <1>7

LEMMA SendingFacts ==
    ASSUME H2Typed
    PROVE  \A k : Mentions(Sending, k) <=> Mentions(down, k) \/ Mentions(srv.out, k)
<1>1. down \in Seq(DownFrames) /\ srv.out \in Seq(DownFrames)
  BY SrvFields DEF H2Typed
<1>2. PICK o \in Seq(DownFrames) : o = srv.out
  BY <1>1
<1>3. \A k : Mentions(down \o o, k) <=> Mentions(down, k) \/ Mentions(o, k)
  BY <1>1, MentionsConcat
<1> QED
  BY <1>2, <1>3 DEF Sending

(* A step of the session for one stream, from the state s of the session.   *)
StreamStep(id, s) ==
    /\ OthersKept(srv, s, id) /\ s.sendW <= srv.sendW
    /\ srv'.streams = s.streams /\ srv'.pending = s.pending /\ srv'.sendW = s.sendW
    /\ \A k : Mentions(Sending', k) => Mentions(down, k) \/ Mentions(s.out, k)
    /\ \A k \in StreamIds : k # id => work'[k] = work[k]
    /\ \E d \in {0, 1} : \A i \in DOMAIN ready' :
          i + d \in DOMAIN ready /\ ready'[i] = ready[i + d] /\ ready'[i].id # id
    /\ UNCHANGED <<up, peer>>

(* What is to be said of that stream then.                                  *)
Consistent(s, w, id) ==
    /\ w.at # "none" => id \notin DOMAIN s.pending
    /\ id \in DOMAIN s.pending => id \in DOMAIN s.streams /\ (s.sendW <= 0 \/ s.streams[id].sendW <= 0)
    /\ (w.at # "none" \/ id \in DOMAIN s.pending) /\ id \in DOMAIN s.streams
          => ~s.streams[id].open \/ s.streams[id].streaming

LEMMA StreamStepKeeps ==
    ASSUME H2Typed, H2Typed', Orderly, ~ended, NEW id \in StreamIds, NEW s,
           StreamStep(id, s), work[id].at # "none" \/ Listed(id), Consistent(srv', work'[id], id)
    PROVE  Orderly'
<1> USE DEF Orderly
<1>1. \A k \in StreamIds : k # id =>
         /\ k \in Live' <=> k \in Live
         /\ k \in Live => srv'.streams[k] = srv.streams[k]
         /\ k \in DOMAIN srv'.pending <=> k \in DOMAIN srv.pending
         /\ Mentions(Sending', k) => Mentions(Sending, k)
         /\ work'[k] = work[k]
  BY SendingFacts DEF StreamStep, OthersKept, Live
<1>2. /\ \A i \in DOMAIN ready' : i \in Nat /\ ready'[i].id \in StreamIds
      /\ DOMAIN srv'.pending \in SUBSET StreamIds /\ DOMAIN srv'.streams \in SUBSET StreamIds
      /\ DOMAIN srv.pending \in SUBSET StreamIds /\ DOMAIN srv.streams \in SUBSET StreamIds
  <2>1. /\ \A i \in DOMAIN ready' : i \in Nat /\ ready'[i] \in Requests
        /\ \A r \in Requests : r.id \in StreamIds
    BY RequestFacts DEF H2Typed
  <2> QED
    BY <2>1, SrvFields DEF H2Typed
<1>3. PICK d \in {0, 1} : \A i \in DOMAIN ready' :
         i + d \in DOMAIN ready /\ ready'[i] = ready[i + d] /\ ready'[i].id # id
  BY DEF StreamStep
<1>4. \A k : Listed(k)' => Listed(k) /\ k # id
  BY <1>3 DEF Listed
<1>5. ASSUME NEW k \in StreamIds, k # id, Untouched(k) PROVE Untouched(k)'
  BY <1>1, <1>4, <1>5 DEF Untouched
<1>6. ~Untouched(id)
  BY DEF Untouched
<1>7. OpensOnce'
  <2>1. up' = up /\ peer' = peer
    BY DEF StreamStep
  <2>2. ASSUME NEW k \in StreamIds, peer.streams[k].at = "idle"
        PROVE  Untouched(k)' /\ ~Mentions(up, k)
    <3>1. Untouched(k) /\ ~Mentions(up, k)
      BY <2>2 DEF OpensOnce
    <3> QED
      BY <1>5, <1>6, <3>1
  <2>3. ASSUME NEW k \in StreamIds, NEW i \in DOMAIN up, up[i].type = "HEADERS", up[i].id = k
        PROVE  Untouched(k)' /\ \A j \in DOMAIN up : up[j].id = k => j >= i
    <3>1. Untouched(k) /\ \A j \in DOMAIN up : up[j].id = k => j >= i
      BY <2>3 DEF OpensOnce
    <3> QED
      BY <1>5, <1>6, <3>1
  <2>4. \A k : Mentions(up, k)' <=> Mentions(up, k)
    BY <2>1 DEF Mentions
  <2> QED
    BY <2>1, <2>2, <2>3, <2>4 DEF OpensOnce
<1>8. AnsweredOnce'
  <2>1. ASSUME NEW i \in DOMAIN ready', NEW j \in DOMAIN ready', ready'[i].id = ready'[j].id
        PROVE  i = j
    <3>1. i + d = j + d
      BY <1>3, <2>1 DEF AnsweredOnce
    <3>2. i \in Nat /\ j \in Nat /\ d \in Nat
      BY <1>2
    <3> QED
      BY <3>1, <3>2
  <2>2. ASSUME NEW i \in DOMAIN ready', NEW k, k = ready'[i].id
        PROVE  /\ work'[k].at = "none" /\ k \notin DOMAIN srv'.pending
               /\ IF ready'[i].detached THEN k \notin Live' /\ ~Mentions(Sending', k)
                  ELSE k \in Live' /\ ~srv'.streams[k].open
    <3>1. i + d \in DOMAIN ready /\ ready'[i] = ready[i + d] /\ k # id /\ k \in StreamIds
      <4>1. ready'[i].id \in StreamIds
        BY <1>2
      <4> QED
        BY <1>3, <2>2, <4>1
    <3>2. /\ work[k].at = "none" /\ k \notin DOMAIN srv.pending
          /\ IF ready'[i].detached THEN k \notin Live /\ ~Mentions(Sending, k)
             ELSE k \in Live /\ ~srv.streams[k].open
      BY <2>2, <3>1 DEF AnsweredOnce
    <3> QED
      BY <1>1, <3>1, <3>2
  <2>3. ASSUME NEW k \in StreamIds
        PROVE  /\ work'[k].at # "none" => k \notin DOMAIN srv'.pending
               /\ (work'[k].at # "none" \/ k \in DOMAIN srv'.pending) /\ k \in Live'
                     => ~srv'.streams[k].open \/ srv'.streams[k].streaming
               /\ k \in DOMAIN srv'.pending => k \in Live'
    <3>1. CASE k = id
      BY <3>1 DEF Consistent, Live
    <3>2. CASE k # id
      BY <1>1, <3>2 DEF AnsweredOnce
    <3> QED
      BY <3>1, <3>2
  <2> QED
    BY <1>2, <2>1, <2>2, <2>3 DEF AnsweredOnce
<1>9. NoIdleWindow'
  <2> SUFFICES ASSUME NEW k \in DOMAIN srv'.pending
               PROVE  srv'.sendW <= 0 \/ srv'.streams[k].sendW <= 0
    BY DEF NoIdleWindow
  <2>1. CASE k = id
    BY <2>1 DEF Consistent
  <2>2. CASE k # id
    <3>1. k \in StreamIds /\ k \in DOMAIN srv.pending /\ k \in Live
      BY <1>1, <1>2, <2>2 DEF AnsweredOnce
    <3>2. (srv.sendW <= 0 \/ srv.streams[k].sendW <= 0) /\ srv'.streams[k] = srv.streams[k]
      BY <1>1, <2>2, <3>1 DEF NoIdleWindow
    <3>3. srv'.sendW <= srv.sendW /\ srv'.sendW \in Int /\ srv.sendW \in Int
      BY SrvFields DEF StreamStep, H2Typed
    <3> QED
      BY <3>2, <3>3
  <2> QED
    BY <2>1, <2>2
<1> QED
  BY <1>7, <1>8, <1>9

(* A step that gives or tells credit, or writes: nothing else changes.      *)
CreditStep ==
    /\ srv'.sendW = srv.sendW /\ srv'.pending = srv.pending /\ DOMAIN srv'.streams = DOMAIN srv.streams
    /\ \A k \in Live : /\ srv'.streams[k].sendW = srv.streams[k].sendW
                       /\ srv'.streams[k].open = srv.streams[k].open
                       /\ srv'.streams[k].streaming = srv.streams[k].streaming
    /\ \A k : Mentions(Sending', k) => Mentions(Sending, k) \/ k = 0 \/ k \in Live
    /\ UNCHANGED <<ready, work, up, peer>>

LEMMA CreditStepKeeps ==
    ASSUME H2Typed, Orderly, ~ended, CreditStep PROVE Orderly'
<1> USE DEF Orderly
<1>1. 0 \notin StreamIds /\ Live' = Live /\ ready' = ready /\ work' = work /\ up' = up /\ peer' = peer
  BY H2Assumption DEF CreditStep, Live
<1>2. \A k \in StreamIds : k \notin Live /\ Mentions(Sending', k) => Mentions(Sending, k)
  BY <1>1 DEF CreditStep
<1>3. \A k : Listed(k)' <=> Listed(k)
  BY <1>1 DEF Listed
<1>4. \A k \in StreamIds : Untouched(k) => Untouched(k)'
  BY <1>1, <1>2, <1>3 DEF Untouched, CreditStep
<1>5. OpensOnce'
  <2>1. \A k : Mentions(up, k)' <=> Mentions(up, k)
    BY <1>1 DEF Mentions
  <2> QED
    BY <1>1, <1>4, <2>1 DEF OpensOnce
<1>6. AnsweredOnce'
  <2>1. ASSUME NEW i \in DOMAIN ready, NEW k, k = ready[i].id
        PROVE  /\ work[k].at = "none" /\ k \notin DOMAIN srv'.pending
               /\ IF ready[i].detached THEN k \notin Live /\ ~Mentions(Sending', k)
                  ELSE k \in Live /\ ~srv'.streams[k].open
    <3>1. k \in StreamIds
      BY <2>1, RequestFacts DEF H2Typed
    <3>2. /\ work[k].at = "none" /\ k \notin DOMAIN srv.pending
          /\ IF ready[i].detached THEN k \notin Live /\ ~Mentions(Sending, k)
             ELSE k \in Live /\ ~srv.streams[k].open
      BY <2>1 DEF AnsweredOnce
    <3> QED
      BY <1>2, <3>1, <3>2 DEF CreditStep
  <2>2. /\ \A i, j \in DOMAIN ready : ready[i].id = ready[j].id => i = j
        /\ \A k \in StreamIds :
             /\ work[k].at # "none" => k \notin DOMAIN srv'.pending
             /\ (work[k].at # "none" \/ k \in DOMAIN srv'.pending) /\ k \in Live
                   => ~srv'.streams[k].open \/ srv'.streams[k].streaming
        /\ DOMAIN srv'.pending \subseteq Live
    BY DEF AnsweredOnce, CreditStep
  <2> QED
    BY <1>1, <2>1, <2>2 DEF AnsweredOnce
<1>7. NoIdleWindow'
  BY DEF AnsweredOnce, NoIdleWindow, CreditStep
<1> QED
  BY <1>5, <1>6, <1>7

(* A step of the peer.                                                      *)
PeerStep ==
    /\ up' \in Seq(UpFrames) /\ Len(up) <= Len(up')
    /\ \A i \in DOMAIN up : up'[i] = up[i]
    /\ \A i \in DOMAIN up' \ DOMAIN up :
          /\ up'[i].id \in StreamIds => peer'.streams[up'[i].id].at # "idle"
          /\ up'[i].type = "HEADERS" => /\ peer.streams[up'[i].id].at = "idle"
                                        /\ Len(up') = Len(up) + 1
    /\ \A k \in StreamIds : peer'.streams[k].at = "idle" => peer.streams[k].at = "idle"
    /\ \A k : Mentions(Sending', k) => Mentions(Sending, k)
    /\ UNCHANGED <<srv, ready, work>>

LEMMA PeerStepKeeps ==
    ASSUME H2Typed, Orderly, ~ended, PeerStep PROVE Orderly'
<1> USE DEF Orderly
<1>1. /\ srv' = srv /\ ready' = ready /\ work' = work /\ Live' = Live
      /\ \A k : Mentions(Sending', k) => Mentions(Sending, k)
  BY DEF PeerStep, Live
<1>2. \A k : Listed(k)' <=> Listed(k)
  BY <1>1 DEF Listed
<1>3. \A k \in StreamIds : Untouched(k) => Untouched(k)'
  BY <1>1, <1>2 DEF Untouched
<1>4. OpensOnce'
  <2>0. /\ up \in Seq(UpFrames) /\ up' \in Seq(UpFrames)
        /\ DOMAIN up = 1 .. Len(up) /\ DOMAIN up' = 1 .. Len(up') /\ Len(up) \in Nat /\ Len(up') \in Nat
        /\ Len(up) <= Len(up')
    BY DEF H2Typed, PeerStep
  <2>1. ASSUME NEW k \in StreamIds, peer'.streams[k].at = "idle"
        PROVE  Untouched(k)' /\ ~Mentions(up', k)
    <3>1. Untouched(k) /\ ~Mentions(up, k)
      BY <2>1 DEF PeerStep, OpensOnce
    <3>2. ASSUME NEW i \in DOMAIN up', up'[i].id = k PROVE FALSE
      BY <2>1, <3>1, <3>2 DEF PeerStep, Mentions
    <3> QED
      BY <1>3, <3>1, <3>2 DEF Mentions
  <2>2. ASSUME NEW k \in StreamIds, NEW i \in DOMAIN up', up'[i].type = "HEADERS", up'[i].id = k
        PROVE  Untouched(k)' /\ \A j \in DOMAIN up' : up'[j].id = k => j >= i
    <3>1. CASE i \in DOMAIN up
      <4>1. up[i].type = "HEADERS" /\ up[i].id = k
        BY <2>2, <3>1 DEF PeerStep
      <4>2. Untouched(k) /\ \A j \in DOMAIN up : up[j].id = k => j >= i
        BY <3>1, <4>1 DEF OpensOnce
      <4>3. ASSUME NEW j \in DOMAIN up', up'[j].id = k PROVE j >= i
        <5>1. CASE j \in DOMAIN up
          BY <4>2, <4>3, <5>1 DEF PeerStep
        <5>2. CASE j \notin DOMAIN up
          BY <2>0, <3>1, <5>2
        <5> QED
          BY <5>1, <5>2
      <4> QED
        BY <1>3, <4>2, <4>3
    <3>2. CASE i \notin DOMAIN up
      <4>1. peer.streams[k].at = "idle" /\ Len(up') = Len(up) + 1
        BY <2>2, <3>2 DEF PeerStep
      <4>2. Untouched(k) /\ ~Mentions(up, k)
        BY <4>1 DEF OpensOnce
      <4>3. i = Len(up) + 1
        BY <2>0, <3>2, <4>1
      <4>4. ASSUME NEW j \in DOMAIN up', up'[j].id = k PROVE j >= i
        <5>1. j \notin DOMAIN up
          BY <4>2, <4>4 DEF PeerStep, Mentions
        <5> QED
          BY <2>0, <4>3, <5>1
      <4> QED
        BY <1>3, <4>2, <4>4
    <3> QED
      BY <3>1, <3>2
  <2>3. \A k : Mentions(up, k)' <=> Mentions(up', k)
    BY DEF Mentions
  <2> QED
    BY <2>1, <2>2, <2>3 DEF OpensOnce
<1>5. AnsweredOnce'
  BY <1>1 DEF AnsweredOnce
<1>6. NoIdleWindow'
  BY <1>1 DEF NoIdleWindow
<1> QED
  BY <1>4, <1>5, <1>6

LEMMA SumChange ==
    ASSUME NEW f \in [StreamIds -> Nat], NEW h \in [StreamIds -> Nat], NEW a \in StreamIds,
           \A x \in StreamIds : x # a => h[x] = f[x]
    PROVE  SumFunction(f) \in Int /\ SumFunction(h) = SumFunction(f) - f[a] + h[a]
<1>1. SumFunction(f) = SumFunctionOnSet(f, StreamIds) /\ SumFunction(h) = SumFunctionOnSet(h, StreamIds)
  <2>1. DOMAIN f = StreamIds /\ DOMAIN h = StreamIds
    OBVIOUS
  <2> QED
    BY <2>1 DEF SumFunction
<1>2. Numbers(f, StreamIds) /\ Numbers(h, StreamIds)
  BY H2Assumption DEF Numbers
<1> QED
  BY <1>1, <1>2, SumUpdate, SumIsInt

LEMMA SumIsNat ==
    ASSUME NEW f \in [StreamIds -> Nat] PROVE SumFunction(f) \in Nat
<1> DEFINE P == {s \in SUBSET StreamIds : SumFunctionOnSet(f, s) \in Nat}
<1>1. IsFiniteSet(StreamIds) /\ Numbers(f, StreamIds)
  BY H2Assumption DEF Numbers
<1>2. ASSUME NEW s \in SUBSET StreamIds, \A t \in SUBSET s : t # s => t \in P
      PROVE  s \in P
  <2>1. CASE s = {}
    BY <2>1, SumEmpty
  <2>2. CASE s # {}
    <3>1. PICK a : a \in s
      BY <2>2
    <3>2. PICK r : r = s \ {a}
      OBVIOUS
    <3>3. r \in P
      BY <1>2, <3>1, <3>2
    <3>4. Numbers(f, s)
      BY <1>1, NumbersSubset
    <3>5. SumFunctionOnSet(f, s) = f[a] + SumFunctionOnSet(f, r)
      BY <3>1, <3>2, <3>4, SumStep
    <3>6. f[a] \in Nat
      BY <3>1
    <3> QED
      BY <3>3, <3>5, <3>6
  <2> QED
    BY <2>1, <2>2
<1> HIDE DEF P
<1>3. StreamIds \in P
  BY <1>1, <1>2, SubsetInduction
<1>4. DOMAIN f = StreamIds
  OBVIOUS
<1> QED
  BY <1>3, <1>4 DEF P, SumFunction

LEMMA SumType == \A f \in [StreamIds -> Nat] : SumFunction(f) \in Int
  BY SumIsNat

(* The tasks of the background group.                                       *)
LEMMA ConsumeKeeps ==
    ASSUME H2Core, ~ended, UNCHANGED plan, NEW id \in StreamIds, Consume(id)
    PROVE  H2Core'
<1> USE DEF H2Core
<1>1. H2Typed'
  <2>1. unread' \in [StreamIds -> Nat] /\ credits' \in [StreamIds -> Nat]
    BY DEF Consume, H2Typed
  <2> QED
    BY <2>1 DEF Consume, H2Typed
<1>2. CreditConserved'
  <2>1. /\ unread \in [StreamIds -> Nat] /\ credits \in [StreamIds -> Nat] /\ srv.recvW \in Int
        /\ unread' \in [StreamIds -> Nat] /\ credits' \in [StreamIds -> Nat] /\ batchCredit \in Nat
    BY <1>1, SrvFields DEF H2Typed
  <2>2. /\ \A x \in StreamIds : x # id => unread'[x] = unread[x] /\ credits'[x] = credits[x]
        /\ unread'[id] = unread[id] - 1 /\ credits'[id] = credits[id] + 1
    BY <2>1 DEF Consume
  <2>3. /\ SumFunction(unread) \in Int /\ SumFunction(unread') = SumFunction(unread) - unread[id] + unread'[id]
        /\ SumFunction(credits) \in Int /\ SumFunction(credits') = SumFunction(credits) - credits[id] + credits'[id]
    BY <2>1, <2>2, SumChange
  <2>4. unread[id] \in Nat /\ credits[id] \in Nat /\ batchCredit' = batchCredit /\ srv' = srv
    BY <2>1 DEF Consume
  <2>5. /\ SumFunction(unread') = SumFunction(unread) - 1 /\ SumFunction(credits') = SumFunction(credits) + 1
    BY <2>2, <2>3, <2>4
  <2> QED
    BY <2>1, <2>3, <2>4, <2>5 DEF CreditConserved
<1>3. Orderly'
  <2>1. CreditStep
    BY DEF Consume, CreditStep, Sending, Live
  <2> QED
    BY <2>1, CreditStepKeeps
<1> QED
  BY <1>1, <1>2, <1>3

LEMMA BeginDispatchKeeps ==
    ASSUME H2Core, ~ended, UNCHANGED plan, BeginDispatch \/ Written
    PROVE  H2Core'
<1> USE DEF H2Core
<1>1. UNCHANGED <<srv, ready, batchCredit, unread, credits, work, ended, up, down, peer>>
      /\ dispatching' \in BOOLEAN
  BY DEF BeginDispatch, Written, H2Typed
<1>2. H2Typed' /\ CreditConserved'
  BY <1>1 DEF H2Typed, CreditConserved
<1>3. CreditStep
  BY <1>1 DEF CreditStep, Sending, Live
<1> QED
  BY <1>2, <1>3, CreditStepKeeps

LEMMA FlushKeeps ==
    ASSUME H2Core, ~ended, UNCHANGED plan, Flush
    PROVE  H2Core'
<1> USE DEF H2Core
<1>1. srv \in SrvStates /\ Write(Another, srv)
  BY DEF Flush, H2Typed
<1>2. /\ srv' \in SrvStates /\ down' \in Seq(DownFrames) /\ srv'.sendW = srv.sendW /\ srv'.recvW = srv.recvW
      /\ srv'.streams = srv.streams /\ srv'.pending = srv.pending
      /\ \A k : Mentions(Sending', k) <=> Mentions(down, k) \/ Mentions(srv.out, k)
  BY <1>1, WriteFacts
<1>3. H2Typed' /\ CreditConserved'
  BY <1>2 DEF H2Typed, CreditConserved, Flush
<1>4. CreditStep
  BY <1>2, SendingFacts DEF CreditStep, Flush, Live
<1> QED
  BY <1>3, <1>4, CreditStepKeeps

LEMMA EndDispatchKeeps ==
    ASSUME H2Core, ~ended, UNCHANGED plan, EndDispatch
    PROVE  H2Core'
<1> USE DEF H2Core
<1>1. PICK f : f = Frame("WINDOW_UPDATE", 0, batchCredit, FALSE)
  OBVIOUS
<1>2. /\ srv \in SrvStates /\ batchCredit \in Nat /\ srv.recvW \in Int /\ srv.out \in Seq(DownFrames)
      /\ f \in DownFrames /\ f.id = 0
  BY <1>1, SrvFields DEF H2Typed, DownFrames, Frames, FrameTypes, Frame
<1>3. PICK q : q = Append(srv.out, f)
  OBVIOUS
<1>4. q \in Seq(DownFrames) /\ \A k : Mentions(q, k) <=> Mentions(srv.out, k) \/ k = 0
  <2>1. PICK o \in Seq(DownFrames) : o = srv.out
    BY <1>2
  <2>2. /\ Append(o, f) \in Seq(DownFrames) /\ Len(o) \in Nat /\ DOMAIN o = 1 .. Len(o)
        /\ DOMAIN Append(o, f) = 1 .. (Len(o) + 1)
        /\ \A i \in 1 .. Len(o) : Append(o, f)[i] = o[i]
        /\ Append(o, f)[Len(o) + 1] = f
    <3> HIDE DEF DownFrames
    <3> QED
      BY <1>2
  <2>3. q = Append(o, f)
    BY <1>3, <2>1
  <2> QED
    BY <1>2, <2>1, <2>2, <2>3 DEF Mentions
<1>5. /\ srv' \in SrvStates /\ srv'.sendW = srv.sendW /\ srv'.recvW = srv.recvW + batchCredit
      /\ srv'.streams = srv.streams /\ srv'.pending = srv.pending
      /\ \A k : Mentions(srv'.out, k) => Mentions(srv.out, k) \/ k = 0
  <2>1. CASE batchCredit = 0
    BY <1>2, <2>1 DEF EndDispatch
  <2>2. CASE batchCredit # 0
    <3>1. srv' = [srv EXCEPT !.recvW = @ + batchCredit, !.out = q]
      BY <1>1, <1>3, <2>2 DEF EndDispatch
    <3>2. PICK r \in Int : r = srv.recvW + batchCredit
      BY <1>2
    <3>3. srv' = [srv EXCEPT !.recvW = r, !.out = q]
      BY <3>1, <3>2
    <3>4. /\ srv' \in SrvStates /\ srv'.sendW = srv.sendW /\ srv'.recvW = r /\ srv'.out = q
          /\ srv'.streams = srv.streams /\ srv'.pending = srv.pending
      <4> HIDE DEF DownFrames, Maps, StreamStates
      <4> QED
        BY <1>2, <1>4, <3>3 DEF SrvStates
    <3> QED
      BY <1>4, <3>2, <3>4
  <2> QED
    BY <2>1, <2>2
<1>6. H2Typed'
  BY <1>5 DEF H2Typed, EndDispatch
<1>7. CreditConserved'
  <2>1. SumFunction(unread) \in Int /\ SumFunction(credits) \in Int
    BY SumType DEF H2Typed
  <2> QED
    BY <1>2, <1>5, <2>1 DEF CreditConserved, EndDispatch
<1>8. CreditStep
  <2>1. \A k : Mentions(Sending, k)' <=> Mentions(down, k)' \/ Mentions(srv.out, k)'
    <3>1. down' \in Seq(DownFrames) /\ srv'.out \in Seq(DownFrames)
      BY <1>6, SrvFields DEF H2Typed
    <3>2. PICK o \in Seq(DownFrames) : o = srv'.out
      BY <3>1
    <3>3. \A k : Mentions(down' \o o, k) <=> Mentions(down', k) \/ Mentions(o, k)
      BY <3>1, MentionsConcat
    <3> QED
      BY <3>2, <3>3 DEF Sending, Mentions
  <2>2. \A k : Mentions(down, k)' <=> Mentions(down, k)
    BY DEF EndDispatch, Mentions
  <2>3. \A k : Mentions(Sending, k)' => Mentions(Sending, k) \/ k = 0
    BY <1>5, <2>1, <2>2, SendingFacts DEF Mentions
  <2> QED
    BY <1>5, <2>3 DEF CreditStep, EndDispatch, Live, Mentions
<1> QED
  BY <1>6, <1>7, <1>8, CreditStepKeeps DEF EndDispatch

(* return_flow_credit(): one update for each stream that remains.           *)
Updates(c, ids) ==
    [i \in 1 .. Cardinality(ids) |->
        Frame("WINDOW_UPDATE", SetToSeq(ids)[i], c[SetToSeq(ids)[i]], FALSE)]

LEMMA SetToSeqFacts ==
    ASSUME NEW S, IsFiniteSet(S)
    PROVE  LET f == SetToSeq(S)
           IN /\ Cardinality(S) \in Nat /\ f \in [1 .. Cardinality(S) -> S]
              /\ \A i, j \in 1 .. Cardinality(S) : i # j => f[i] # f[j]
              /\ \A x \in S : \E i \in 1 .. Cardinality(S) : f[i] = x
<1>1. Cardinality(S) \in Nat /\ ExistsBijection(1 .. Cardinality(S), S)
  BY FS_CardinalityType
<1>2. PICK D : D = 1 .. Cardinality(S)
  OBVIOUS
<1>3. PICK g : g \in Bijection(D, S)
  BY <1>1, <1>2 DEF ExistsBijection
<1>4. \E f \in [D -> S] : IsInjective(f)
  BY <1>3 DEF Bijection, Injection
<1>5. SetToSeq(S) = CHOOSE f \in [D -> S] : IsInjective(f)
  BY <1>2, Zenon DEF SetToSeq
<1>6. SetToSeq(S) \in [D -> S] /\ IsInjective(SetToSeq(S))
  BY <1>4, <1>5, Zenon
<1>7. PICK f : f = SetToSeq(S)
  OBVIOUS
<1>8. f \in [1 .. Cardinality(S) -> S] /\ \A i, j \in 1 .. Cardinality(S) : i # j => f[i] # f[j]
  BY <1>2, <1>6, <1>7 DEF IsInjective
<1>9. \A x \in S : \E i \in 1 .. Cardinality(S) : f[i] = x
  BY <1>8, EachOnce
<1> QED
  BY <1>1, <1>7, <1>8, <1>9

LEMMA UpdatesFacts ==
    ASSUME NEW c \in [StreamIds -> Nat], NEW ids \in SUBSET StreamIds
    PROVE  LET q == Updates(c, ids)
           IN /\ q \in Seq(DownFrames)
              /\ \A k : /\ Mentions(q, k) <=> k \in ids
                        /\ Units(q, "DATA", k) = 0
                        /\ Units(q, "WINDOW_UPDATE", k) = IF k \in ids THEN c[k] ELSE 0
<1>1. IsFiniteSet(ids)
  BY H2Assumption, FS_Subset
<1>2. PICK f : f = SetToSeq(ids)
  OBVIOUS
<1>3. PICK n \in Nat : n = Cardinality(ids)
  BY <1>1, FS_CardinalityType
<1>4. /\ f \in [1 .. n -> ids]
      /\ \A i, j \in 1 .. n : i # j => f[i] # f[j]
      /\ \A x \in ids : \E i \in 1 .. n : f[i] = x
  BY <1>1, <1>2, <1>3, SetToSeqFacts
<1>5. PICK q : q = [i \in 1 .. n |-> Frame("WINDOW_UPDATE", f[i], c[f[i]], FALSE)]
  OBVIOUS
<1>6. Updates(c, ids) = q
  BY <1>2, <1>3, <1>5 DEF Updates
<1>7. \A i \in 1 .. n : /\ q[i] \in DownFrames /\ q[i].id = f[i] /\ q[i].type = "WINDOW_UPDATE"
                        /\ q[i].n = c[f[i]] /\ f[i] \in ids
  <2> SUFFICES ASSUME NEW i \in 1 .. n
               PROVE  /\ q[i] \in DownFrames /\ q[i].id = f[i] /\ q[i].type = "WINDOW_UPDATE"
                      /\ q[i].n = c[f[i]] /\ f[i] \in ids
    OBVIOUS
  <2>1. q[i] = Frame("WINDOW_UPDATE", f[i], c[f[i]], FALSE)
    BY <1>5
  <2>2. f[i] \in ids /\ f[i] \in StreamIds /\ f[i] \in Nat
    BY <1>4, H2Assumption
  <2>3. c[f[i]] \in Nat
    BY <2>2
  <2> QED
    BY <2>1, <2>2, <2>3 DEF Frame, DownFrames, Frames, FrameTypes
<1>8. q \in Seq(DownFrames) /\ q \in Seq(Frames) /\ DOMAIN q = 1 .. n /\ Len(q) = n
  <2>1. DownFrames \in SUBSET Frames
    BY DEF DownFrames
  <2> HIDE DEF DownFrames, Frames
  <2>2. q \in [1 .. n -> DownFrames]
    <3>1. q = [i \in 1 .. n |-> q[i]]
      BY <1>5
    <3> QED
      BY <1>7, <3>1
  <2>3. q \in Seq(DownFrames) /\ DOMAIN q = 1 .. n /\ Len(q) = n
    BY <2>2
  <2>4. q \in Seq(Frames)
    BY <2>1, <2>3
  <2> QED
    BY <2>3, <2>4
<1>9. \A k : Mentions(q, k) <=> k \in ids
  BY <1>4, <1>7, <1>8 DEF Mentions
<1>10. ASSUME NEW k, NEW type
       PROVE  Units(q, type, k) = IF type = "WINDOW_UPDATE" /\ k \in ids THEN c[k] ELSE 0
  <2>1. PICK w : w = Weights(q, type, k)
    OBVIOUS
  <2>2. Units(q, type, k) = SumFunctionOnSet(w, 1 .. n) /\ Numbers(w, 1 .. n)
    BY <1>8, <2>1, UnitsAreSums
  <2>3. \A i \in 1 .. n : w[i] = IF type = "WINDOW_UPDATE" /\ f[i] = k THEN c[k] ELSE 0
    BY <1>7, <1>8, <2>1 DEF Weights
  <2>4. CASE type = "WINDOW_UPDATE" /\ k \in ids
    <3>1. PICK i \in 1 .. n : f[i] = k
      BY <1>4, <2>4
    <3>2. w[i] = c[k] /\ \A j \in 1 .. n : j # i => w[j] = 0
      BY <1>4, <2>3, <2>4, <3>1
    <3>3. PICK S : S = 1 .. n
      OBVIOUS
    <3>4. PICK T : T = S \ {i}
      OBVIOUS
    <3>5. SumFunctionOnSet(w, S) = w[i] + SumFunctionOnSet(w, T)
      BY <2>2, <3>1, <3>3, <3>4, SumStep
    <3>6. Numbers(w, T)
      BY <2>2, <3>3, <3>4, NumbersSubset
    <3>7. SumFunctionOnSet(w, T) = 0
      BY <3>2, <3>3, <3>4, <3>6, SumZero
    <3>8. c[k] \in Int
      BY <2>4
    <3> QED
      BY <2>2, <2>4, <3>2, <3>3, <3>5, <3>7, <3>8
  <2>5. CASE ~(type = "WINDOW_UPDATE" /\ k \in ids)
    <3>1. \A i \in 1 .. n : w[i] = 0
      BY <1>7, <2>3, <2>5
    <3>2. SumFunctionOnSet(w, 1 .. n) = 0
      BY <2>2, <3>1, SumZero
    <3> QED
      BY <2>2, <2>5, <3>2
  <2> QED
    BY <2>4, <2>5
<1>11. \A k : Units(q, "DATA", k) = 0 /\ Units(q, "WINDOW_UPDATE", k) = IF k \in ids THEN c[k] ELSE 0
  <2>1. "DATA" # "WINDOW_UPDATE"
    OBVIOUS
  <2> QED
    BY <1>10, <2>1
<1> QED
  BY <1>6, <1>8, <1>9, <1>11

Credited(s, c, ids, total) ==
    [s EXCEPT !.recvW = @ + total,
              !.streams = [id \in DOMAIN s.streams |-> [s.streams[id] EXCEPT
                              !.recvW = @ + (IF id \in ids THEN c[id] ELSE 0)]],
              !.out = (@ \o Updates(c, ids)) \o <<Frame("WINDOW_UPDATE", 0, total, FALSE)>>]

IsCredited(s, t, c, ids, total) ==
    /\ t \in SrvStates /\ t.initial = s.initial /\ t.sendW = s.sendW
    /\ t.recvW = s.recvW + total /\ t.pending = s.pending
    /\ DOMAIN t.streams = DOMAIN s.streams
    /\ \A k \in DOMAIN s.streams :
          /\ t.streams[k].sendW = s.streams[k].sendW
          /\ t.streams[k].recvW = s.streams[k].recvW + (IF k \in ids THEN c[k] ELSE 0)
          /\ t.streams[k].open = s.streams[k].open
          /\ t.streams[k].streaming = s.streams[k].streaming
    /\ \A k : /\ Mentions(t.out, k) <=> Mentions(s.out, k) \/ k \in ids \/ k = 0
              /\ Units(t.out, "DATA", k) = Units(s.out, "DATA", k)
              /\ Units(t.out, "WINDOW_UPDATE", k) = Units(s.out, "WINDOW_UPDATE", k)
                    + (IF k \in ids THEN c[k] ELSE IF k = 0 THEN total ELSE 0)

LEMMA CreditedFacts ==
    ASSUME NEW s \in SrvStates, NEW c \in [StreamIds -> Nat], NEW ids \in SUBSET StreamIds,
           NEW total \in Nat
    PROVE  IsCredited(s, Credited(s, c, ids, total), c, ids, total)
<1> DEFINE t == Credited(s, c, ids, total)
<1>1. PICK f : f = Frame("WINDOW_UPDATE", 0, total, FALSE)
  OBVIOUS
<1>2. /\ f \in DownFrames /\ f \in Frames /\ f.id = 0 /\ f.type = "WINDOW_UPDATE" /\ f.n = total
      /\ 0 \notin StreamIds /\ DownFrames \in SUBSET Frames
  BY <1>1, H2Assumption DEF Frame, DownFrames, Frames, FrameTypes
<1>3. PICK u : u = Updates(c, ids)
  OBVIOUS
<1>4. /\ u \in Seq(DownFrames)
      /\ \A k : /\ Mentions(u, k) <=> k \in ids
                /\ Units(u, "DATA", k) = 0
                /\ Units(u, "WINDOW_UPDATE", k) = IF k \in ids THEN c[k] ELSE 0
  BY <1>3, UpdatesFacts
<1>5. PICK o : o = s.out
  OBVIOUS
<1>6. PICK e : e = <<f>>
  OBVIOUS
<1>7. PICK x : x = [id \in DOMAIN s.streams |-> [s.streams[id] EXCEPT
                       !.recvW = @ + (IF id \in ids THEN c[id] ELSE 0)]]
  OBVIOUS
<1>8. PICK y : y = (o \o u) \o e
  OBVIOUS
<1>9. PICK r : r = s.recvW + total
  OBVIOUS
<1>10. t = [s EXCEPT !.recvW = r, !.streams = x, !.out = y]
  BY <1>1, <1>3, <1>5, <1>6, <1>7, <1>8, <1>9 DEF Credited
<1> HIDE DEF t
<1>11. /\ s.recvW \in Int /\ r \in Int /\ s.streams \in [DOMAIN s.streams -> StreamStates]
       /\ DOMAIN s.streams \in SUBSET StreamIds
  BY <1>9, SrvFields, MapFacts
<1>12. ASSUME NEW k \in DOMAIN s.streams
       PROVE  /\ x[k] \in StreamStates
              /\ x[k].sendW = s.streams[k].sendW
              /\ x[k].recvW = s.streams[k].recvW + (IF k \in ids THEN c[k] ELSE 0)
              /\ x[k].open = s.streams[k].open
              /\ x[k].streaming = s.streams[k].streaming
  <2>1. PICK v \in Int : v = s.streams[k].recvW + (IF k \in ids THEN c[k] ELSE 0)
    <3>1. s.streams[k].recvW \in Int /\ (k \in ids => c[k] \in Int)
      BY SrvFields
    <3> QED
      BY <3>1
  <2>2. x[k] = [s.streams[k] EXCEPT !.recvW = v] /\ s.streams[k] \in StreamStates
    BY <1>7, <1>11, <2>1 DEF StreamStates
  <2> QED
    BY <2>1, <2>2 DEF StreamStates
<1>13. x \in Maps(StreamStates) /\ DOMAIN x = DOMAIN s.streams
  <2>1. DOMAIN x = DOMAIN s.streams
    BY <1>7
  <2>2. x \in [DOMAIN s.streams -> StreamStates]
    <3>1. x = [k \in DOMAIN s.streams |-> x[k]]
      BY <1>7
    <3> HIDE DEF StreamStates
    <3> QED
      BY <1>12, <3>1
  <2> QED
    BY <1>11, <2>1, <2>2, MapFacts
<1> HIDE DEF DownFrames
<1>14. /\ e \in Seq(DownFrames) /\ y \in Seq(DownFrames)
       /\ \A k : Mentions(e, k) <=> k = 0
  <2>1. e \in Seq(DownFrames) /\ DOMAIN e = {1} /\ e[1] = f
    BY <1>2, <1>6
  <2>2. y \in Seq(DownFrames)
    BY <1>4, <1>5, <1>8, <2>1, SrvFields
  <2> QED
    BY <1>2, <2>1, <2>2 DEF Mentions
<1>15. \A k : Mentions(y, k) <=> Mentions(o, k) \/ k \in ids \/ k = 0
  <2>1. PICK z : z = o \o u
    OBVIOUS
  <2>2. o \in Seq(DownFrames) /\ z \in Seq(DownFrames)
    BY <1>4, <1>5, <2>1, SrvFields
  <2>3. \A k : Mentions(z, k) <=> Mentions(o, k) \/ Mentions(u, k)
    BY <1>4, <2>1, <2>2, MentionsConcat
  <2>4. \A k : Mentions(z \o e, k) <=> Mentions(z, k) \/ Mentions(e, k)
    BY <1>14, <2>2, MentionsConcat
  <2> QED
    BY <1>4, <1>8, <1>14, <2>1, <2>3, <2>4
<1>16. ASSUME NEW k, NEW type
       PROVE  /\ Units(y, type, k) = Units(o, type, k) + Units(u, type, k) + Units(e, type, k)
              /\ Units(e, type, k) = IF type = "WINDOW_UPDATE" /\ k = 0 THEN total ELSE 0
              /\ Units(o, type, k) \in Int
  <2>1. o \in Seq(Frames) /\ u \in Seq(Frames) /\ e \in Seq(Frames)
    BY <1>2, <1>4, <1>5, <1>14, SrvFields
  <2>2. PICK z : z = o \o u
    OBVIOUS
  <2>8. z \in Seq(Frames)
    BY <2>1, <2>2
  <2>3. Units(o \o u, type, k) = Units(o, type, k) + Units(u, type, k)
    BY <2>1, UnitsConcat
  <2>4. Units(z \o e, type, k) = Units(z, type, k) + Units(e, type, k)
    BY <2>1, <2>8, UnitsConcat
  <2>5. Units(<<f>>, type, k) = IF f.type = type /\ f.id = k THEN f.n ELSE 0
    BY <1>2, UnitsOne
  <2>6. Units(e, type, k) = IF type = "WINDOW_UPDATE" /\ k = 0 THEN total ELSE 0
    BY <1>2, <1>6, <2>5
  <2>7. Units(o, type, k) \in Int
    BY <2>1, UnitsAreSums
  <2> QED
    BY <1>8, <2>2, <2>3, <2>4, <2>6, <2>7
<1>17. ASSUME NEW k
       PROVE  /\ Units(y, "DATA", k) = Units(o, "DATA", k)
              /\ Units(y, "WINDOW_UPDATE", k) = Units(o, "WINDOW_UPDATE", k)
                    + (IF k \in ids THEN c[k] ELSE IF k = 0 THEN total ELSE 0)
  <2>1. /\ Units(y, "DATA", k) = Units(o, "DATA", k) + Units(u, "DATA", k) + Units(e, "DATA", k)
        /\ Units(e, "DATA", k) = 0 /\ Units(o, "DATA", k) \in Int
    BY <1>16
  <2>2. /\ Units(y, "WINDOW_UPDATE", k) = Units(o, "WINDOW_UPDATE", k) + Units(u, "WINDOW_UPDATE", k)
                                           + Units(e, "WINDOW_UPDATE", k)
        /\ Units(e, "WINDOW_UPDATE", k) = (IF k = 0 THEN total ELSE 0) /\ Units(o, "WINDOW_UPDATE", k) \in Int
    BY <1>16
  <2>3. k \in ids => c[k] \in Int /\ k # 0
    BY <1>2
  <2> QED
    BY <1>4, <2>1, <2>2, <2>3
<1>18. /\ t \in SrvStates /\ t.initial = s.initial /\ t.sendW = s.sendW /\ t.recvW = r
       /\ t.pending = s.pending /\ t.streams = x /\ t.out = y
  <2> HIDE DEF Maps, StreamStates
  <2> QED
    BY <1>10, <1>11, <1>13, <1>14 DEF SrvStates
<1> QED
  BY <1>5, <1>9, <1>12, <1>13, <1>15, <1>17, <1>18 DEF t, IsCredited

LEMMA ReturnFlowCreditIsCredited ==
    ASSUME H2Typed, ReturnFlowCredit
    PROVE  \E ids, total :
              /\ ids = {id \in Creditable : id \in Live} /\ ids \in SUBSET StreamIds
              /\ total \in Nat /\ total = SumFunction(credits)
              /\ Write(Another, Credited(srv, credits, ids, total))
<1>1. PICK ids : ids = {id \in Creditable : id \in Live}
  OBVIOUS
<1>2. PICK total : total = SumFunctionOnSet(credits, Creditable)
  OBVIOUS
<1>3. Write(Another, Credited(srv, credits, ids, total))
  BY <1>1, <1>2, Zenon DEF ReturnFlowCredit, Credited, Updates, Live
<1>4. Creditable \in SUBSET StreamIds /\ credits \in [StreamIds -> Nat]
  BY DEF Creditable, H2Typed
<1>5. SumFunction(credits) = SumFunctionOnSet(credits, Creditable)
  <2>1. DOMAIN credits = StreamIds
    BY <1>4
  <2>2. SumFunction(credits) = SumFunctionOnSet(credits, StreamIds)
    BY <2>1 DEF SumFunction
  <2>3. Numbers(credits, StreamIds)
    BY <1>4, H2Assumption DEF Numbers
  <2>4. \A x \in StreamIds \ Creditable : credits[x] = 0
    BY <1>4 DEF Creditable
  <2>5. PICK T \in SUBSET StreamIds : T = Creditable
    BY <1>4
  <2>6. SumFunctionOnSet(credits, StreamIds) = SumFunctionOnSet(credits, T)
    BY <2>3, <2>4, <2>5, SumOfSupport
  <2> QED
    BY <2>2, <2>5, <2>6
<1>6. total \in Nat
  BY <1>2, <1>4, <1>5, SumIsNat
<1> QED
  BY <1>1, <1>2, <1>3, <1>4, <1>5, <1>6

LEMMA ReturnFlowCreditKeeps ==
    ASSUME H2Core, ~ended, UNCHANGED plan, ReturnFlowCredit
    PROVE  H2Core'
<1> USE DEF H2Core
<1>1. PICK ids, total :
         /\ ids = {id \in Creditable : id \in Live} /\ ids \in SUBSET StreamIds
         /\ total \in Nat /\ total = SumFunction(credits)
         /\ Write(Another, Credited(srv, credits, ids, total))
  BY ReturnFlowCreditIsCredited
<1>2. PICK s : s = Credited(srv, credits, ids, total)
  OBVIOUS
<1>3. /\ s \in SrvStates /\ s.sendW = srv.sendW
      /\ s.recvW = srv.recvW + total /\ s.pending = srv.pending
      /\ DOMAIN s.streams = DOMAIN srv.streams
      /\ \A k \in DOMAIN srv.streams :
            /\ s.streams[k].sendW = srv.streams[k].sendW
            /\ s.streams[k].open = srv.streams[k].open
            /\ s.streams[k].streaming = srv.streams[k].streaming
      /\ \A k : Mentions(s.out, k) <=> Mentions(srv.out, k) \/ k \in ids \/ k = 0
  <2>1. srv \in SrvStates /\ credits \in [StreamIds -> Nat]
    BY DEF H2Typed
  <2>2. IsCredited(srv, s, credits, ids, total)
    BY <1>1, <1>2, <2>1, CreditedFacts
  <2> QED
    BY <2>2 DEF IsCredited
<1>4. /\ srv' \in SrvStates /\ down' \in Seq(DownFrames) /\ srv'.sendW = s.sendW /\ srv'.recvW = s.recvW
      /\ srv'.streams = s.streams /\ srv'.pending = s.pending
      /\ \A k : Mentions(Sending', k) <=> Mentions(down, k) \/ Mentions(s.out, k)
  BY <1>1, <1>2, <1>3, WriteFacts
<1>5. credits' = [id \in StreamIds |-> 0]
      /\ UNCHANGED <<ready, dispatching, batchCredit, unread, work, ended, up, peer>>
  BY DEF ReturnFlowCredit
<1>6. H2Typed'
  BY <1>4, <1>5 DEF H2Typed
<1>7. CreditConserved'
  <2>1. SumFunction(credits') = 0
    <3>1. credits' \in [StreamIds -> Nat] /\ DOMAIN credits' = StreamIds /\ \A k \in StreamIds : credits'[k] = 0
      BY <1>5
    <3>2. Numbers(credits', StreamIds)
      BY <3>1, H2Assumption DEF Numbers
    <3>3. SumFunctionOnSet(credits', StreamIds) = 0
      BY <3>1, <3>2, SumZero
    <3> QED
      BY <3>1, <3>3 DEF SumFunction
  <2>2. SumFunction(unread) \in Int /\ srv.recvW \in Int /\ batchCredit \in Int
    BY SumType, SrvFields DEF H2Typed
  <2>3. srv'.recvW = srv.recvW + SumFunction(credits) /\ SumFunction(credits) \in Int
    BY <1>1, <1>3, <1>4
  <2> QED
    BY <1>5, <2>1, <2>2, <2>3 DEF CreditConserved
<1>8. CreditStep
  <2>1. ids \in SUBSET Live
    BY <1>1
  <2>2. \A k : Mentions(Sending', k) => Mentions(Sending, k) \/ k = 0 \/ k \in Live
    BY <1>3, <1>4, <2>1, SendingFacts
  <2> QED
    BY <1>3, <1>4, <1>5, <2>2 DEF CreditStep, Live
<1> QED
  BY <1>5, <1>6, <1>7, <1>8, CreditStepKeeps

(* A task of the background group takes a step for its stream.              *)
TaskTo(id, s) ==
    /\ Charged(srv, s) /\ OthersKept(srv, s, id) /\ DOMAIN s.streams \in SUBSET Live
    /\ \/ Write(id, s)
       \/ srv' = s /\ down' = down
    /\ work[id].at # "none" /\ work' \in [StreamIds -> WorkStates]
    /\ \A k \in StreamIds : k # id => work'[k] = work[k]
    /\ Consistent(s, work'[id], id)
    /\ UNCHANGED <<ready, dispatching, batchCredit, unread, credits, ended, up, peer>>

LEMMA TaskKeeps ==
    ASSUME H2Core, ~ended, UNCHANGED plan, NEW id \in StreamIds, NEW s, TaskTo(id, s)
    PROVE  H2Core'
<1> USE DEF H2Core, TaskTo
<1>1. s \in SrvStates /\ s.recvW = srv.recvW /\ s.sendW <= srv.sendW
  BY DEF Charged
<1>2. /\ srv' \in SrvStates /\ down' \in Seq(DownFrames)
      /\ srv'.sendW = s.sendW /\ srv'.recvW = s.recvW
      /\ srv'.streams = s.streams /\ srv'.pending = s.pending
      /\ \A k : Mentions(Sending', k) => Mentions(down, k) \/ Mentions(s.out, k)
  <2>1. CASE Write(id, s)
    BY <1>1, <2>1, WriteFacts
  <2>2. CASE srv' = s /\ down' = down
    <3>1. down \in Seq(DownFrames) /\ s.out \in Seq(DownFrames)
      BY <1>1, SrvFields DEF H2Typed
    <3>2. PICK o \in Seq(DownFrames) : o = s.out
      BY <3>1
    <3>3. \A k : Mentions(down \o o, k) <=> Mentions(down, k) \/ Mentions(o, k)
      BY <3>1, <3>2, MentionsConcat
    <3> QED
      BY <1>1, <2>2, <3>1, <3>2, <3>3 DEF Sending
  <2> QED
    BY <2>1, <2>2
<1>3. H2Typed' /\ CreditConserved'
  BY <1>1, <1>2 DEF H2Typed, CreditConserved
<1>4. Consistent(srv', work'[id], id)
  BY <1>2 DEF Consistent
<1>5. StreamStep(id, s)
  <2>1. \A i \in DOMAIN ready' :
           i + 0 \in DOMAIN ready /\ ready'[i] = ready[i + 0] /\ ready'[i].id # id
    <3>1. \A i \in DOMAIN ready : i \in Nat /\ ready[i].id # id
      BY RequestFacts DEF Orderly, AnsweredOnce, H2Typed
    <3> QED
      BY <3>1
  <2> QED
    BY <1>1, <1>2, <2>1 DEF StreamStep
<1>6. Orderly'
  BY <1>3, <1>4, <1>5, StreamStepKeeps
<1> QED
  BY <1>3, <1>6

Put(w, id, v) == [w EXCEPT ![id] = v]

LEMMA WorkFacts ==
    ASSUME H2Typed, NEW id \in StreamIds
    PROVE  /\ work[id] \in WorkStates /\ work[id].at \in WorkPlaces /\ work[id].left \in Nat
           /\ \A at \in WorkPlaces, left \in Nat : [at |-> at, left |-> left] \in WorkStates
           /\ \A v \in WorkStates : /\ Put(work, id, v) \in [StreamIds -> WorkStates]
                                    /\ Put(work, id, v)[id] = v
                                    /\ \A k \in StreamIds : k # id => Put(work, id, v)[k] = work[k]
<1>1. work \in [StreamIds -> WorkStates] /\ work[id] \in WorkStates
  BY DEF H2Typed
<1>2. \A v \in WorkStates : /\ Put(work, id, v) \in [StreamIds -> WorkStates]
                            /\ Put(work, id, v)[id] = v
                            /\ \A k \in StreamIds : k # id => Put(work, id, v)[k] = work[k]
  BY <1>1 DEF Put
<1>3. \A at \in WorkPlaces, left \in Nat : [at |-> at, left |-> left] \in WorkStates
  BY DEF WorkStates
<1>4. work[id].at \in WorkPlaces /\ work[id].left \in Nat
  BY <1>1 DEF WorkStates
<1> QED
  BY <1>1, <1>2, <1>3, <1>4

LEMMA AtFacts ==
    ASSUME H2Typed, NEW id \in StreamIds, NEW at \in WorkPlaces, At(id, at)
    PROVE  /\ work' \in [StreamIds -> WorkStates] /\ work'[id].at = at
           /\ work'[id].left = work[id].left
           /\ \A k \in StreamIds : k # id => work'[k] = work[k]
<1>1. work[id] \in WorkStates /\ work \in [StreamIds -> WorkStates]
  BY WorkFacts DEF H2Typed
<1>2. PICK v : v = [work[id] EXCEPT !.at = at]
  OBVIOUS
<1>3. v \in WorkStates /\ v.at = at /\ v.left = work[id].left
  BY <1>1, <1>2 DEF WorkStates
<1>4. work' = [work EXCEPT ![id] = v]
  BY <1>1, <1>2 DEF At, WorkStates
<1>5. work' = Put(work, id, v)
  BY <1>4 DEF Put
<1> QED
  BY <1>3, <1>5, WorkFacts

(* Of a stream with a task, as it is.                                       *)
LEMMA TaskIsAlone ==
    ASSUME H2Core, ~ended, NEW id \in StreamIds, work[id].at # "none"
    PROVE  /\ id \notin DOMAIN srv.pending
           /\ id \in Live => ~srv.streams[id].open \/ srv.streams[id].streaming
  BY DEF H2Core, Orderly, AnsweredOnce

(* A step that leaves what waits alone.                                     *)
LEMMA StillConsistent ==
    ASSUME H2Core, ~ended, NEW id \in StreamIds, work[id].at # "none",
           NEW s, Charged(srv, s), DOMAIN s.streams \in SUBSET DOMAIN srv.streams,
           s.pending = srv.pending, NEW w
    PROVE  Consistent(s, w, id)
<1>1. id \notin DOMAIN s.pending
  BY TaskIsAlone
<1>2. id \in DOMAIN s.streams => ~s.streams[id].open \/ s.streams[id].streaming
  BY TaskIsAlone DEF Charged, SameBody, Live
<1> QED
  BY <1>1, <1>2 DEF Consistent

LEMMA ChargedSelf ==
    ASSUME NEW s \in SrvStates, NEW id PROVE Charged(s, s) /\ OthersKept(s, s, id)
<1>1. s.sendW \in Int /\ \A k : StreamWindow(s, k) \in Int
  BY SrvFields
<1> QED
  BY <1>1 DEF Charged, OthersKept, SameBody

LEMMA AnswerIs ==
    ASSUME H2Core, ~ended, NEW id \in StreamIds, Answer(id)
    PROVE  \E s : TaskTo(id, s)
<1> USE DEF H2Core
<1>1. /\ srv \in SrvStates /\ work[id].at # "none" /\ srv' = srv /\ down' = down
      /\ UNCHANGED <<ready, dispatching, batchCredit, unread, credits, ended, up, peer>>
  BY DEF H2Typed, Answer
<1>2. Charged(srv, srv) /\ OthersKept(srv, srv, id)
  BY <1>1, ChargedSelf
<1>3. PICK v \in WorkStates : work' = [work EXCEPT ![id] = v]
  <2>1. PICK left \in plan.sizes, at \in plan.answers :
           work' = [work EXCEPT ![id] = IF id \in Live THEN [at |-> at, left |-> left]
                                        ELSE [at |-> "none", left |-> 0]]
    BY DEF Answer
  <2>2. PICK v : v = IF id \in Live THEN [at |-> at, left |-> left] ELSE [at |-> "none", left |-> 0]
    OBVIOUS
  <2>3. v \in WorkStates
    BY <2>2, PlanFacts DEF WorkPlaces, WorkStates
  <2>4. work' = [work EXCEPT ![id] = v]
    BY <2>1, <2>2
  <2> QED
    BY <2>3, <2>4
<1>4. /\ work' \in [StreamIds -> WorkStates]
      /\ \A k \in StreamIds : k # id => work'[k] = work[k]
  <2>1. work' = Put(work, id, v)
    BY <1>3 DEF Put
  <2>2. v \in WorkStates
    BY <1>3
  <2> QED
    BY <2>1, <2>2, WorkFacts
<1>5. Consistent(srv, work'[id], id)
  BY <1>1, <1>2, StillConsistent
<1> QED
  <2>1. PICK s : s = srv
    OBVIOUS
  <2>2. /\ Charged(srv, s) /\ OthersKept(srv, s, id) /\ Consistent(s, work'[id], id) /\ srv' = s
        /\ DOMAIN s.streams \in SUBSET Live
    BY <1>1, <1>2, <1>5, <2>1 DEF Live
  <2>3. TaskTo(id, s)
    BY <1>1, <1>4, <2>2 DEF TaskTo
  <2> QED
    BY <2>3

LEMMA PutNone ==
    ASSUME H2Typed, NEW id \in StreamIds, work' = Put(work, id, [at |-> "none", left |-> 0])
    PROVE  /\ work' \in [StreamIds -> WorkStates] /\ work'[id].at = "none"
           /\ \A k \in StreamIds : k # id => work'[k] = work[k]
<1>1. PICK v : v = [at |-> "none", left |-> 0]
  OBVIOUS
<1>2. v \in WorkStates /\ v.at = "none"
  BY <1>1 DEF WorkStates, WorkPlaces
<1>3. work' = Put(work, id, v)
  BY <1>1
<1> QED
  BY <1>2, <1>3, WorkFacts

LEMMA GiveUpIs ==
    ASSUME H2Core, ~ended, NEW id \in StreamIds, GiveUp(id)
    PROVE  \E s : TaskTo(id, s)
<1> USE DEF H2Core
<1>1. /\ srv \in SrvStates /\ work[id].at # "none" /\ srv' = srv /\ down' = down
      /\ UNCHANGED <<ready, dispatching, batchCredit, unread, credits, ended, up, peer>>
      /\ work' = Put(work, id, [at |-> "none", left |-> 0])
  BY DEF H2Typed, GiveUp, Put
<1>2. PICK s : s = srv
  OBVIOUS
<1>3. Charged(srv, s) /\ OthersKept(srv, s, id)
  BY <1>1, <1>2, ChargedSelf
<1>4. /\ work' \in [StreamIds -> WorkStates]
      /\ \A k \in StreamIds : k # id => work'[k] = work[k]
  BY <1>1, PutNone
<1>5. Consistent(s, work'[id], id) /\ srv' = s /\ DOMAIN s.streams \in SUBSET Live
  BY <1>1, <1>2, <1>3, StillConsistent DEF Live
<1>6. TaskTo(id, s)
  BY <1>1, <1>3, <1>4, <1>5 DEF TaskTo
<1> QED
  BY <1>6

LEMMA WritePlainIs ==
    ASSUME H2Core, ~ended, NEW id \in StreamIds, WritePlain(id)
    PROVE  \E s : TaskTo(id, s)
<1> USE DEF H2Core
<1>1. PICK left : left = work[id].left
  OBVIOUS
<1>2. PICK s : s = QueueResponse(srv, id, left, FALSE)
  OBVIOUS
<1>3. /\ srv \in SrvStates /\ work[id].at # "none" /\ Write(id, s) /\ left \in Nat
      /\ UNCHANGED <<ready, dispatching, batchCredit, unread, credits, ended, up, peer>>
      /\ work' = Put(work, id, [at |-> "none", left |-> 0])
  BY <1>1, <1>2, WorkFacts DEF H2Typed, WritePlain, Put
<1>4. /\ id \notin DOMAIN srv.pending
      /\ id \in Live => ~srv.streams[id].open \/ srv.streams[id].streaming
  BY <1>3, TaskIsAlone
<1>5. PICK e \in BOOLEAN : e = FALSE
  OBVIOUS
<1>6. s = QueueResponse(srv, id, left, e)
  BY <1>2, <1>5
<1>7. /\ Charged(srv, s) /\ OthersKept(srv, s, id)
      /\ id \in DOMAIN s.pending => id \in DOMAIN s.streams /\ (s.sendW <= 0 \/ s.streams[id].sendW <= 0)
      /\ id \in DOMAIN s.streams /\ id \notin DOMAIN srv.streams => ~s.streams[id].open
  BY <1>3, <1>4, <1>5, <1>6, QueueResponseFacts
<1>8. /\ work' \in [StreamIds -> WorkStates] /\ work'[id].at = "none"
      /\ \A k \in StreamIds : k # id => work'[k] = work[k]
  BY <1>3, PutNone
<1>9. id \in DOMAIN s.streams => ~s.streams[id].open \/ s.streams[id].streaming
  BY <1>4, <1>7 DEF Charged, SameBody, Live
<1>10. Consistent(s, work'[id], id)
  BY <1>7, <1>8, <1>9 DEF Consistent
<1>11. DOMAIN s.streams \in SUBSET Live
  <2>1. CASE id \in Live
    BY <1>7, <2>1 DEF OthersKept, Live
  <2>2. CASE id \notin Live
    <3>1. s = srv
      BY <1>2, <2>2, Zenon DEF QueueResponse, Live
    <3> QED
      BY <3>1 DEF Live
  <2> QED
    BY <2>1, <2>2
<1>12. TaskTo(id, s)
  BY <1>3, <1>7, <1>8, <1>10, <1>11 DEF TaskTo
<1> QED
  BY <1>12

LEMMA WriteHeadersIs ==
    ASSUME H2Core, ~ended, NEW id \in StreamIds, WriteHeaders(id) \/ WriteEnd(id)
    PROVE  \E s : TaskTo(id, s)
<1> USE DEF H2Core
<1>1. PICK f, at :
         /\ at \in WorkPlaces
         /\ f = Frame("HEADERS", id, 0, FALSE) \/ f = Frame("DATA", id, 0, TRUE)
         /\ work[id].at # "none" /\ Write(id, WithFrame(srv, f)) /\ At(id, at)
  <2>1. CASE WriteHeaders(id)
    <3>1. PICK f : f = Frame("HEADERS", id, 0, FALSE)
      OBVIOUS
    <3>2. work[id].at # "none" /\ At(id, "body")
      BY <2>1 DEF WriteHeaders
    <3>3. Write(id, WithFrame(srv, f))
      BY <2>1, <3>1, Zenon DEF WriteHeaders, WithFrame
    <3>4. "body" \in WorkPlaces /\ "closing" \in WorkPlaces
      BY DEF WorkPlaces
    <3> QED
      BY <3>1, <3>2, <3>3, <3>4, Zenon
  <2>2. CASE WriteEnd(id)
    <3>1. PICK f : f = Frame("DATA", id, 0, TRUE)
      OBVIOUS
    <3>2. work[id].at # "none" /\ At(id, "closing")
      BY <2>2 DEF WriteEnd
    <3>3. Write(id, WithFrame(srv, f))
      BY <2>2, <3>1, Zenon DEF WriteEnd, WithFrame
    <3>4. "body" \in WorkPlaces /\ "closing" \in WorkPlaces
      BY DEF WorkPlaces
    <3> QED
      BY <3>1, <3>2, <3>3, <3>4, Zenon
  <2> QED
    BY <2>1, <2>2
<1>2. UNCHANGED <<ready, dispatching, batchCredit, unread, credits, ended, up, peer>> /\ srv \in SrvStates
  BY DEF WriteHeaders, WriteEnd, H2Typed
<1>3. f \in DownFrames /\ f.type # "WINDOW_UPDATE" /\ f.n = 0 /\ f.id = id
  <2>1. CASE f = Frame("HEADERS", id, 0, FALSE)
    BY <2>1, H2Assumption DEF Frame, DownFrames, Frames, FrameTypes
  <2>2. CASE f = Frame("DATA", id, 0, TRUE)
    BY <2>2, H2Assumption DEF Frame, DownFrames, Frames, FrameTypes
  <2> QED
    BY <1>1, <2>1, <2>2
<1>4. PICK s : s = WithFrame(srv, f)
  OBVIOUS
<1>5. Charged(srv, s) /\ OthersKept(srv, s, id) /\ s.streams = srv.streams /\ s.pending = srv.pending
  BY <1>2, <1>3, <1>4, FreeFrameFacts
<1>6. /\ work' \in [StreamIds -> WorkStates]
      /\ \A k \in StreamIds : k # id => work'[k] = work[k]
  BY <1>1, AtFacts
<1>7. Consistent(s, work'[id], id)
  BY <1>1, <1>5, StillConsistent
<1>8. Write(id, s) /\ work[id].at # "none"
  BY <1>1, <1>4
<1>9. TaskTo(id, s)
  BY <1>2, <1>5, <1>6, <1>7, <1>8 DEF TaskTo, Live
<1> QED
  BY <1>9

LEMMA WriteChunkIs ==
    ASSUME H2Core, ~ended, NEW id \in StreamIds, WriteChunk(id)
    PROVE  \E s : TaskTo(id, s)
<1> USE DEF H2Core
<1>1. PICK n : n = Allowed(srv, id, work[id].left)
  OBVIOUS
<1>2. PICK s : s = QueueData(srv, id, n, FALSE)
  OBVIOUS
<1>3. /\ work[id].at # "none" /\ Write(id, s)
      /\ work' = [work EXCEPT ![id].left = @ - n]
      /\ UNCHANGED <<ready, dispatching, batchCredit, unread, credits, ended, up, peer>>
  BY <1>1, <1>2 DEF WriteChunk
<1>4. srv \in SrvStates /\ work[id] \in WorkStates /\ work[id].left \in Nat /\ work \in [StreamIds -> WorkStates]
  BY WorkFacts DEF H2Typed
<1>5. n \in Nat /\ n <= work[id].left
  <2>1. PICK left \in Nat : left = work[id].left
    BY <1>4
  <2>2. Allowed(srv, id, left) \in Nat /\ Allowed(srv, id, left) <= left
    BY <1>4, <2>1, AllowedFacts
  <2> QED
    BY <1>1, <2>1, <2>2
<1>6. /\ Charged(srv, s) /\ OthersKept(srv, s, id)
      /\ DOMAIN s.streams = DOMAIN srv.streams /\ s.pending = srv.pending
  <2>1. PICK e \in BOOLEAN : e = FALSE
    OBVIOUS
  <2>2. s = QueueData(srv, id, n, e)
    BY <1>2, <2>1
  <2> QED
    BY <1>4, <1>5, <2>1, <2>2, QueueDataFacts
<1>7. /\ work' \in [StreamIds -> WorkStates]
      /\ \A k \in StreamIds : k # id => work'[k] = work[k]
  <2>1. PICK v : v = [work[id] EXCEPT !.left = work[id].left - n]
    OBVIOUS
  <2>2. v \in WorkStates
    BY <1>4, <1>5, <2>1 DEF WorkStates
  <2>3. work' = [work EXCEPT ![id] = v]
    BY <1>3, <1>4, <2>1
  <2>4. work' = Put(work, id, v)
    BY <2>3 DEF Put
  <2> QED
    BY <2>2, <2>4, WorkFacts
<1>8. Consistent(s, work'[id], id)
  BY <1>3, <1>6, StillConsistent
<1>9. TaskTo(id, s)
  BY <1>3, <1>6, <1>7, <1>8 DEF TaskTo, Live
<1> QED
  BY <1>9

LEMMA EraseIs ==
    ASSUME H2Core, ~ended, NEW id \in StreamIds, Erase(id)
    PROVE  \E s : TaskTo(id, s)
<1> USE DEF H2Core
<1>1. srv \in SrvStates /\ work[id].at # "none" /\ At(id, "none") /\ down' = down
      /\ UNCHANGED <<ready, dispatching, batchCredit, unread, credits, ended, up, peer>>
  BY DEF Erase, H2Typed
<1>2. srv' = RetiredState(srv, id, srv.pending)
  <2>1. PICK x : x = Without(srv.streams, id)
    OBVIOUS
  <2>2. srv' = [srv EXCEPT !.streams = x]
    BY <2>1 DEF Erase
  <2>3. srv' = [srv EXCEPT !.streams = x, !.pending = srv.pending]
    BY <1>1, <2>2 DEF SrvStates
  <2> QED
    BY <2>1, <2>3 DEF RetiredState
<1>3. PICK y : y = srv.pending
  OBVIOUS
<1>4. PICK s : s = RetiredState(srv, id, y)
  OBVIOUS
<1>5. /\ Charged(srv, s) /\ OthersKept(srv, s, id) /\ s.pending = srv.pending
      /\ DOMAIN s.streams = DOMAIN srv.streams \ {id}
  BY <1>1, <1>3, <1>4, RetireFacts
<1>6. Consistent(s, work'[id], id)
  BY <1>1, <1>5, StillConsistent
<1>7. /\ work' \in [StreamIds -> WorkStates]
      /\ \A k \in StreamIds : k # id => work'[k] = work[k]
  <2>1. "none" \in WorkPlaces
    BY DEF WorkPlaces
  <2> QED
    BY <1>1, <2>1, AtFacts
<1>8. srv' = s
  BY <1>2, <1>3, <1>4
<1>9. TaskTo(id, s)
  BY <1>1, <1>5, <1>6, <1>7, <1>8 DEF TaskTo, Live
<1> QED
  BY <1>9

LEMMA TaskSteps ==
    ASSUME H2Core, ~ended, NEW id \in StreamIds, Background(id), ~Consume(id)
    PROVE  \E s : TaskTo(id, s)
  BY AnswerIs, WritePlainIs, WriteHeadersIs, WriteChunkIs, GiveUpIs, EraseIs DEF Background

(* A stream for a source to write to.                                       *)
Opened(s, id) == [s EXCEPT !.streams = With(@, id, NewStream(s, FALSE))]

LEMMA OpenedFacts ==
    ASSUME NEW s \in SrvStates, NEW id \in StreamIds, id \notin DOMAIN s.streams
    PROVE  LET t == Opened(s, id)
           IN /\ Charged(s, t) /\ OthersKept(s, t, id) /\ t.pending = s.pending
              /\ ~t.streams[id].open
<1> DEFINE t == Opened(s, id)
<1>1. PICK e : e = NewStream(s, FALSE)
  OBVIOUS
<1>2. /\ s.initial \in Int /\ Window \in Int /\ s.streams \in Maps(StreamStates) /\ s.sendW \in Int
      /\ \A k : StreamWindow(s, k) \in Int
  BY H2Assumption, SrvFields
<1>3. e \in StreamStates /\ e.open = FALSE /\ e.sendW = s.initial
  BY <1>1, <1>2 DEF NewStream, StreamStates
<1>4. PICK x : x = With(s.streams, id, e)
  OBVIOUS
<1>5. /\ x \in Maps(StreamStates) /\ DOMAIN x = DOMAIN s.streams \cup {id} /\ x[id] = e
      /\ \A k \in DOMAIN s.streams : x[k] = s.streams[k]
  <2>1. /\ With(s.streams, id, e) \in Maps(StreamStates)
        /\ DOMAIN With(s.streams, id, e) = DOMAIN s.streams \cup {id}
        /\ With(s.streams, id, e)[id] = e
        /\ \A k \in DOMAIN s.streams : k # id => With(s.streams, id, e)[k] = s.streams[k]
    BY <1>2, <1>3, MapFacts DEF With
  <2> QED
    BY <1>4, <2>1
<1>6. t = [s EXCEPT !.streams = x]
  BY <1>1, <1>4 DEF Opened
<1> HIDE DEF t
<1>7. /\ t \in SrvStates /\ t.initial = s.initial /\ t.sendW = s.sendW /\ t.recvW = s.recvW
      /\ t.streams = x /\ t.pending = s.pending /\ t.out = s.out
  <2> HIDE DEF DownFrames, Maps, StreamStates
  <2> QED
    BY <1>5, <1>6 DEF SrvStates
<1>8. \A k \in DOMAIN x : StreamWindow(t, k) = StreamWindow(s, k) /\ StreamWindow(t, k) <= StreamWindow(s, k)
  BY <1>2, <1>3, <1>5, <1>7 DEF StreamWindow
<1>9. \A k \in DOMAIN s.streams : SameBody(s, t, k)
  BY <1>5, <1>7 DEF SameBody
<1>10. Charged(s, t)
  BY <1>2, <1>7, <1>8, <1>9 DEF Charged
<1>11. OthersKept(s, t, id)
  BY <1>5, <1>7 DEF OthersKept
<1> QED
  BY <1>3, <1>5, <1>7, <1>10, <1>11 DEF t

(* A request that waits for its handler, as it is.                          *)
LEMMA FirstRequest ==
    ASSUME H2Core, ~ended, ready # << >>
    PROVE  LET id == Head(ready).id
           IN /\ id \in StreamIds /\ Head(ready).detached \in BOOLEAN
              /\ work[id].at = "none" /\ id \notin DOMAIN srv.pending
              /\ Head(ready).detached => id \notin DOMAIN srv.streams /\ ~Mentions(Sending, id)
              /\ ~Head(ready).detached => id \in DOMAIN srv.streams /\ ~srv.streams[id].open
              /\ Tail(ready) \in Seq(Requests)
              /\ Listed(id)
              /\ \A i \in DOMAIN Tail(ready) :
                    i + 1 \in DOMAIN ready /\ Tail(ready)[i] = ready[i + 1] /\ Tail(ready)[i].id # id
<1> USE DEF H2Core
<1>1. ready \in Seq(Requests) /\ 1 \in DOMAIN ready /\ Head(ready) = ready[1]
  BY DEF H2Typed
<1>2. PICK id : id = Head(ready).id
  OBVIOUS
<1>3. id \in StreamIds /\ Head(ready).detached \in BOOLEAN /\ Listed(id)
  BY <1>1, <1>2, RequestFacts DEF Listed
<1>4. /\ work[id].at = "none" /\ id \notin DOMAIN srv.pending
      /\ Head(ready).detached => id \notin DOMAIN srv.streams /\ ~Mentions(Sending, id)
      /\ ~Head(ready).detached => id \in DOMAIN srv.streams /\ ~srv.streams[id].open
  BY <1>1, <1>2 DEF Orderly, AnsweredOnce, Live
<1>5. PICK q : q = Tail(ready)
  OBVIOUS
<1>6. /\ q \in Seq(Requests)
      /\ \A i \in DOMAIN q : i \in Nat /\ i >= 1 /\ i + 1 \in DOMAIN ready /\ q[i] = ready[i + 1]
  BY <1>1, <1>5
<1>7. \A i \in DOMAIN q : q[i].id # id
  <2> SUFFICES ASSUME NEW i \in DOMAIN q, q[i].id = id PROVE FALSE
    OBVIOUS
  <2>1. ready[i + 1].id = ready[1].id /\ i + 1 \in DOMAIN ready
    BY <1>1, <1>2, <1>6
  <2>2. i + 1 = 1
    BY <1>1, <2>1 DEF Orderly, AnsweredOnce
  <2>3. i \in Nat /\ i >= 1
    BY <1>6
  <2> QED
    BY <2>2, <2>3
<1> QED
  BY <1>2, <1>3, <1>4, <1>5, <1>6, <1>7

(* What a handler of the reader does to the session.                        *)
DispatchedTo(id, s) ==
    /\ s \in SrvStates /\ srv' = s /\ Charged(srv, s) /\ OthersKept(srv, s, id)
    /\ work' \in [StreamIds -> WorkStates]
    /\ \A k \in StreamIds : k # id => work'[k] = work[k]
    /\ Consistent(s, work'[id], id)
    /\ id \in DOMAIN s.streams => ~s.streams[id].open

LEMMA Dispatched ==
    ASSUME H2Core, ~ended, DispatchOne
    PROVE  \E s : DispatchedTo(Head(ready).id, s)
<1> USE DEF H2Core
<1>1. PICK id : id = Head(ready).id
  OBVIOUS
<1>2. PICK detached : detached = Head(ready).detached
  OBVIOUS
<1>3. /\ id \in StreamIds /\ detached \in BOOLEAN
      /\ work[id].at = "none" /\ id \notin DOMAIN srv.pending
      /\ detached => id \notin DOMAIN srv.streams
      /\ ~detached => id \in DOMAIN srv.streams /\ ~srv.streams[id].open
  BY <1>1, <1>2, FirstRequest DEF DispatchOne
<1>4. srv \in SrvStates /\ work \in [StreamIds -> WorkStates]
  BY DEF H2Typed
<1>5. Charged(srv, srv) /\ OthersKept(srv, srv, id)
  BY <1>4, ChargedSelf
<1>6. ASSUME NEW left \in Nat, NEW e \in BOOLEAN, srv' = QueueResponse(srv, id, left, e), work' = work
      PROVE  DispatchedTo(id, srv')
  <2>1. PICK s : s = QueueResponse(srv, id, left, e)
    OBVIOUS
  <2>2. /\ Charged(srv, s) /\ OthersKept(srv, s, id)
        /\ id \in DOMAIN s.pending => id \in DOMAIN s.streams /\ (s.sendW <= 0 \/ s.streams[id].sendW <= 0)
        /\ id \in DOMAIN s.streams /\ id \notin DOMAIN srv.streams => ~s.streams[id].open
    BY <1>3, <1>4, <1>6, <2>1, QueueResponseFacts
  <2>3. id \in DOMAIN s.streams => ~s.streams[id].open
    BY <1>3, <2>2 DEF Charged, SameBody
  <2>4. Consistent(s, work[id], id)
    BY <1>3, <2>2, <2>3 DEF Consistent
  <2>5. s \in SrvStates /\ srv' = s
    BY <1>6, <2>1, <2>2 DEF Charged
  <2> QED
    BY <1>4, <1>6, <2>2, <2>3, <2>4, <2>5 DEF DispatchedTo
<1>7. ASSUME NEW at \in WorkPlaces, NEW left \in Nat, NEW s, Charged(srv, s), OthersKept(srv, s, id),
             s.pending = srv.pending, id \in DOMAIN s.streams => ~s.streams[id].open,
             srv' = s, work' = Put(work, id, [at |-> at, left |-> left])
      PROVE  DispatchedTo(id, s)
  <2>1. PICK v : v = [at |-> at, left |-> left]
    OBVIOUS
  <2>2. v \in WorkStates
    BY <2>1 DEF WorkStates
  <2>3. work' = Put(work, id, v)
    BY <1>7, <2>1
  <2>4. work' \in [StreamIds -> WorkStates] /\ \A k \in StreamIds : k # id => work'[k] = work[k]
    BY <1>3, <2>2, <2>3, WorkFacts
  <2>5. Consistent(s, work'[id], id)
    BY <1>3, <1>7 DEF Consistent
  <2>6. s \in SrvStates
    BY <1>7 DEF Charged
  <2> QED
    BY <1>7, <2>4, <2>5, <2>6 DEF DispatchedTo
<1>8. \A left \in plan.sizes : left \in Nat
  BY PlanFacts
<1>9. "source" \in WorkPlaces /\ "handling" \in WorkPlaces
  BY DEF WorkPlaces
<1>10. CASE DispatchBody(id)
  <2>1. CASE \E left \in plan.sizes : srv' = QueueResponse(srv, id, left, FALSE) /\ UNCHANGED work
    <3>1. PICK left \in Nat : srv' = QueueResponse(srv, id, left, FALSE) /\ work' = work
      BY <1>8, <2>1
    <3>2. PICK e \in BOOLEAN : e = FALSE
      OBVIOUS
    <3>3. srv' = QueueResponse(srv, id, left, e)
      BY <3>1, <3>2
    <3> QED
      BY <1>1, <1>6, <3>1, <3>2, <3>3
  <2>2. CASE \E left \in plan.sizes : srv' = srv /\ work' = Put(work, id, [at |-> "source", left |-> left])
    <3>1. PICK left \in Nat : srv' = srv /\ work' = Put(work, id, [at |-> "source", left |-> left])
      BY <1>8, <2>2
    <3>2. id \in DOMAIN srv.streams => ~srv.streams[id].open
      BY <1>3
    <3>3. DispatchedTo(id, srv)
      BY <1>5, <1>7, <1>9, <3>1, <3>2
    <3> QED
      BY <1>1, <3>3
  <2>3. CASE srv' = srv /\ At(id, "handling")
    <3>1. work' \in [StreamIds -> WorkStates] /\ \A k \in StreamIds : k # id => work'[k] = work[k]
      BY <1>3, <1>9, <2>3, AtFacts
    <3>2. Consistent(srv, work'[id], id)
      BY <1>3 DEF Consistent
    <3>3. DispatchedTo(id, srv)
      BY <1>3, <1>4, <1>5, <2>3, <3>1, <3>2 DEF DispatchedTo
    <3> QED
      BY <1>1, <3>3
  <2> QED
    BY <1>10, <2>1, <2>2, <2>3 DEF DispatchBody, Put
<1>11. CASE DispatchBare(id, detached)
  <2>1. CASE \E left \in plan.sizes : srv' = QueueResponse(srv, id, left, detached) /\ UNCHANGED work
    <3>1. PICK left \in Nat : srv' = QueueResponse(srv, id, left, detached) /\ work' = work
      BY <1>8, <2>1
    <3> QED
      BY <1>1, <1>3, <1>6, <3>1
  <2>2. CASE \E left \in plan.sizes :
                /\ srv' = IF detached THEN Opened(srv, id) ELSE srv
                /\ work' = Put(work, id, [at |-> "source", left |-> left])
    <3>1. PICK left \in Nat : /\ srv' = IF detached THEN Opened(srv, id) ELSE srv
                              /\ work' = Put(work, id, [at |-> "source", left |-> left])
      BY <1>8, <2>2
    <3>2. PICK s : s = IF detached THEN Opened(srv, id) ELSE srv
      OBVIOUS
    <3>3. /\ Charged(srv, s) /\ OthersKept(srv, s, id) /\ s.pending = srv.pending
          /\ id \in DOMAIN s.streams => ~s.streams[id].open
      <4>1. CASE detached
        <5>1. s = Opened(srv, id) /\ id \notin DOMAIN srv.streams
          BY <1>3, <3>2, <4>1
        <5> QED
          BY <1>3, <1>4, <5>1, OpenedFacts
      <4>2. CASE ~detached
        BY <1>3, <1>5, <3>2, <4>2
      <4> QED
        BY <4>1, <4>2
    <3>4. srv' = s /\ work' = Put(work, id, [at |-> "source", left |-> left])
      BY <3>1, <3>2
    <3>5. DispatchedTo(id, s)
      BY <1>7, <1>9, <3>1, <3>3, <3>4
    <3> QED
      BY <1>1, <3>5
  <2> QED
    BY <1>11, <2>1, <2>2 DEF DispatchBare, Put, Opened
<1> QED
  BY <1>1, <1>2, <1>10, <1>11 DEF DispatchOne

LEMMA DispatchOneKeeps ==
    ASSUME H2Core, ~ended, UNCHANGED plan, DispatchOne
    PROVE  H2Core'
<1> USE DEF H2Core
<1>1. PICK id : id = Head(ready).id
  OBVIOUS
<1>2. PICK s : DispatchedTo(id, s)
  BY <1>1, Dispatched
<1>3. /\ id \in StreamIds /\ Tail(ready) \in Seq(Requests) /\ Listed(id)
      /\ \A i \in DOMAIN Tail(ready) :
            i + 1 \in DOMAIN ready /\ Tail(ready)[i] = ready[i + 1] /\ Tail(ready)[i].id # id
  BY <1>1, FirstRequest DEF DispatchOne
<1>4. /\ ready' = Tail(ready) /\ unread' = [unread EXCEPT ![id] = 0]
      /\ UNCHANGED <<dispatching, ended, up, down, peer>>
      /\ unread[id] > 0 => DispatchBody(id)
      /\ ~(unread[id] > 0) => UNCHANGED <<credits, batchCredit>>
  BY <1>1 DEF DispatchOne, DispatchBare
<1>5. /\ unread \in [StreamIds -> Nat] /\ credits \in [StreamIds -> Nat] /\ batchCredit \in Nat
      /\ unread[id] \in Nat /\ credits[id] \in Nat /\ srv.recvW \in Int
      /\ SumFunction(unread) \in Int /\ SumFunction(credits) \in Int
  BY <1>3, SumType, SrvFields DEF H2Typed
<1>6. /\ unread' \in [StreamIds -> Nat] /\ unread'[id] = 0
      /\ SumFunction(unread') = SumFunction(unread) - unread[id]
  <2>1. /\ unread' \in [StreamIds -> Nat] /\ unread'[id] = 0
        /\ \A x \in StreamIds : x # id => unread'[x] = unread[x]
    BY <1>3, <1>4, <1>5
  <2>2. SumFunction(unread') = SumFunction(unread) - unread[id] + unread'[id]
    BY <1>3, <1>5, <2>1, SumChange
  <2> QED
    BY <1>5, <2>1, <2>2
<1>7. /\ credits' \in [StreamIds -> Nat] /\ batchCredit' \in Nat /\ SumFunction(credits') \in Int
      /\ SumFunction(credits') + batchCredit' = SumFunction(credits) + batchCredit + unread[id]
  <2>1. CASE credits' = credits /\ batchCredit' = batchCredit + unread[id]
    BY <1>5, <2>1
  <2>2. CASE credits' = [credits EXCEPT ![id] = @ + unread[id]] /\ batchCredit' = batchCredit
    <3>1. /\ credits' \in [StreamIds -> Nat] /\ credits'[id] = credits[id] + unread[id]
          /\ \A x \in StreamIds : x # id => credits'[x] = credits[x]
      BY <1>3, <1>5, <2>2
    <3>2. SumFunction(credits') = SumFunction(credits) - credits[id] + credits'[id]
      BY <1>3, <1>5, <3>1, SumChange
    <3> QED
      BY <1>5, <2>2, <3>1, <3>2
  <2>3. CASE ~(unread[id] > 0)
    BY <1>4, <1>5, <2>3
  <2> QED
    BY <1>4, <2>1, <2>2, <2>3 DEF DispatchBody
<1>8. H2Typed'
  BY <1>2, <1>3, <1>4, <1>6, <1>7 DEF H2Typed, DispatchedTo
<1>9. CreditConserved'
  <2>1. srv'.recvW = srv.recvW
    BY <1>2 DEF DispatchedTo, Charged
  <2> QED
    BY <1>5, <1>6, <1>7, <2>1 DEF CreditConserved
<1>10. StreamStep(id, s)
  <2>1. /\ srv' = s /\ OthersKept(srv, s, id) /\ s.sendW <= srv.sendW /\ s \in SrvStates
        /\ \A k \in StreamIds : k # id => work'[k] = work[k]
    BY <1>2 DEF DispatchedTo, Charged
  <2>2. \A k : Mentions(Sending', k) => Mentions(down, k) \/ Mentions(s.out, k)
    <3>1. down \in Seq(DownFrames) /\ s.out \in Seq(DownFrames)
      BY <2>1, SrvFields DEF H2Typed
    <3>2. PICK o \in Seq(DownFrames) : o = s.out
      BY <3>1
    <3>3. \A k : Mentions(down \o o, k) <=> Mentions(down, k) \/ Mentions(o, k)
      BY <3>1, <3>2, MentionsConcat
    <3> QED
      BY <1>4, <2>1, <3>2, <3>3 DEF Sending
  <2>3. \A i \in DOMAIN ready' : i + 1 \in DOMAIN ready /\ ready'[i] = ready[i + 1] /\ ready'[i].id # id
    BY <1>3, <1>4
  <2> QED
    BY <1>4, <2>1, <2>2, <2>3 DEF StreamStep
<1>11. Consistent(srv', work'[id], id)
  BY <1>2 DEF DispatchedTo
<1>12. Orderly'
  BY <1>3, <1>8, <1>10, <1>11, StreamStepKeeps
<1> QED
  BY <1>8, <1>9, <1>12

(* The steps of the peer.                                                   *)
LEMMA PeerKeeps ==
    ASSUME H2Core, ~ended, UNCHANGED plan, PeerOnly, H2Typed', PeerStep
    PROVE  H2Core'
<1> USE DEF H2Core
<1>1. CreditConserved'
  BY DEF PeerOnly, CreditConserved
<1>2. Orderly'
  BY PeerStepKeeps
<1> QED
  BY <1>1, <1>2

PeerPut(p, id, st) == [p EXCEPT !.streams[id] = st]

LEMMA PeerPutFacts ==
    ASSUME NEW p \in PeerStates, NEW id \in StreamIds, NEW st \in PeerStreams
    PROVE  LET q == PeerPut(p, id, st)
           IN /\ q \in PeerStates /\ q.streams[id] = st
              /\ q.initial = p.initial /\ q.sendW = p.sendW /\ q.recvW = p.recvW /\ q.changed = p.changed
              /\ \A k \in StreamIds : k # id => q.streams[k] = p.streams[k]
<1> DEFINE q == PeerPut(p, id, st)
<1>1. p.streams \in [StreamIds -> PeerStreams]
  BY DEF PeerStates
<1>2. PICK x : x = [p.streams EXCEPT ![id] = st]
  OBVIOUS
<1>3. /\ x \in [StreamIds -> PeerStreams] /\ x[id] = st
      /\ \A k \in StreamIds : k # id => x[k] = p.streams[k]
  BY <1>1, <1>2
<1>4. q = [p EXCEPT !.streams = x]
  BY <1>2 DEF PeerPut, PeerStates
<1> HIDE DEF q
<1>5. /\ q \in PeerStates /\ q.streams = x
      /\ q.initial = p.initial /\ q.sendW = p.sendW /\ q.recvW = p.recvW /\ q.changed = p.changed
  BY <1>3, <1>4 DEF PeerStates
<1> QED
  BY <1>3, <1>5 DEF q

LEMMA AppendUp ==
    ASSUME H2Typed, NEW f \in UpFrames, up' = Append(up, f)
    PROVE  /\ up' \in Seq(UpFrames) /\ Len(up') = Len(up) + 1 /\ Len(up) \in Nat
           /\ DOMAIN up = 1 .. Len(up) /\ DOMAIN up' = 1 .. (Len(up) + 1)
           /\ \A i \in DOMAIN up : up'[i] = up[i]
           /\ \A i \in DOMAIN up' \ DOMAIN up : i = Len(up) + 1 /\ up'[i] = f
<1>1. up \in Seq(UpFrames)
  BY DEF H2Typed
<1> HIDE DEF UpFrames
<1> QED
  BY <1>1

LEMMA PeerSaysKeeps ==
    ASSUME H2Core, ~ended, UNCHANGED plan, PeerOnly, down' = down, NEW f \in UpFrames,
           up' = Append(up, f), peer' \in PeerStates,
           f.id \in StreamIds => peer'.streams[f.id].at # "idle",
           f.type = "HEADERS" => peer.streams[f.id].at = "idle",
           \A k \in StreamIds : peer'.streams[k].at = "idle" => peer.streams[k].at = "idle"
    PROVE  H2Core'
<1> USE DEF H2Core
<1>1. /\ up' \in Seq(UpFrames) /\ Len(up') = Len(up) + 1 /\ Len(up) \in Nat
      /\ DOMAIN up = 1 .. Len(up) /\ DOMAIN up' = 1 .. (Len(up) + 1)
      /\ \A i \in DOMAIN up : up'[i] = up[i]
      /\ \A i \in DOMAIN up' \ DOMAIN up : i = Len(up) + 1 /\ up'[i] = f
  BY AppendUp
<1>2. H2Typed'
  BY <1>1 DEF H2Typed, PeerOnly
<1>3. Sending' = Sending
  BY DEF Sending, PeerOnly
<1>4. PeerStep
  <2>1. /\ up' \in Seq(UpFrames) /\ Len(up) <= Len(up') /\ Len(up') = Len(up) + 1
    BY <1>1
  <2>2. \A i \in DOMAIN up' \ DOMAIN up : up'[i] = f
    BY <1>1
  <2> QED
    BY <1>1, <1>3, <2>1, <2>2 DEF PeerStep, PeerOnly
<1> QED
  BY <1>2, <1>4, PeerKeeps

LEMMA PeerFields ==
    ASSUME H2Typed, NEW id \in StreamIds
    PROVE  /\ peer \in PeerStates /\ peer.streams[id] \in PeerStreams
           /\ peer.initial \in Int /\ peer.sendW \in Int /\ peer.recvW \in Int /\ peer.changed \in BOOLEAN
           /\ peer.streams \in [StreamIds -> PeerStreams]
           /\ peer.streams[id].at \in PeerPlaces /\ peer.streams[id].sendW \in Int
           /\ peer.streams[id].recvW \in Int /\ peer.streams[id].left \in Nat
           /\ peer.streams[id].answered \in BOOLEAN
<1>1. peer \in PeerStates
  BY DEF H2Typed
<1>2. /\ peer.initial \in Int /\ peer.sendW \in Int /\ peer.recvW \in Int /\ peer.changed \in BOOLEAN
      /\ peer.streams \in [StreamIds -> PeerStreams]
  BY <1>1 DEF PeerStates
<1>3. peer.streams[id] \in PeerStreams
  BY <1>2
<1> QED
  BY <1>1, <1>2, <1>3 DEF PeerStreams

(* A step of the peer for one of its streams.                               *)
LEMMA PeerStreamKeeps ==
    ASSUME H2Core, ~ended, UNCHANGED plan, PeerOnly, down' = down, NEW f \in UpFrames,
           up' = Append(up, f), NEW id \in StreamIds, f.id = id, NEW st \in PeerStreams,
           peer' = PeerPut(peer, id, st), st.at # "idle",
           f.type = "HEADERS" => peer.streams[id].at = "idle"
    PROVE  H2Core'
<1> USE DEF H2Core
<1>1. /\ peer' \in PeerStates /\ peer'.streams[id] = st
      /\ \A k \in StreamIds : k # id => peer'.streams[k] = peer.streams[k]
  BY PeerFields, PeerPutFacts
<1> QED
  BY <1>1, PeerSaysKeeps

(* A frame of the peer for a stream, but DATA, and what it makes of it.     *)
PeerPuts(id, f, st) ==
    /\ f \in UpFrames /\ f.id = id /\ up' = Append(up, f)
    /\ st \in PeerStreams /\ peer' = PeerPut(peer, id, st) /\ PeerOnly /\ down' = down
    /\ st.at # "idle" /\ st.sendW = peer.streams[id].sendW
    /\ \/ /\ f.type = "HEADERS" /\ peer.streams[id].at = "idle"
          /\ st.recvW = peer.initial /\ (f.end => st.at # "open")
       \/ f.type = "RST_STREAM" /\ st.recvW = peer.streams[id].recvW /\ st.at = "reset"
       \/ /\ f.type = "WINDOW_UPDATE" /\ f.n = 1 /\ st.recvW = peer.streams[id].recvW + 1
          /\ st.at = peer.streams[id].at /\ st.at \in plan.early

LEMMA PeerRequestsIs ==
    ASSUME H2Typed, NEW id \in StreamIds, PeerRequests(id)
    PROVE  \E f, st : PeerPuts(id, f, st)
<1>1. PICK body \in plan.bodies[id] :
         /\ up' = Append(up, Frame("HEADERS", id, 0, ~body))
         /\ peer' = [peer EXCEPT !.streams[id].at = IF body THEN "open" ELSE "done",
                                 !.streams[id].recvW = peer.initial]
  BY DEF PeerRequests
<1>2. body \in BOOLEAN
  <2>1. plan \in H2Uses
    BY H2Assumption DEF H2Typed
  <2>2. plan.bodies \in [StreamIds -> SUBSET BOOLEAN]
    BY <2>1 DEF H2Uses
  <2> QED
    BY <1>1, <2>2
<1>3. PICK f : f = Frame("HEADERS", id, 0, ~body)
  OBVIOUS
<1>4. f \in UpFrames /\ f.id = id /\ f.type = "HEADERS" /\ f.end = ~body
  BY <1>2, <1>3, H2Assumption DEF Frame, UpFrames, Frames, FrameTypes
<1>5. PICK a : a = IF body THEN "open" ELSE "done"
  OBVIOUS
<1>6. a \in PeerPlaces /\ a # "idle" /\ (f.end => a # "open")
  BY <1>4, <1>5 DEF PeerPlaces
<1>7. PICK st : st = [peer.streams[id] EXCEPT !.at = a, !.recvW = peer.initial]
  OBVIOUS
<1>8. st \in PeerStreams /\ st.at = a /\ st.recvW = peer.initial /\ st.sendW = peer.streams[id].sendW
  BY <1>6, <1>7, PeerFields DEF PeerStreams
<1>9. peer' = PeerPut(peer, id, st)
  <2>1. peer' = [peer EXCEPT !.streams[id].at = a, !.streams[id].recvW = peer.initial]
    BY <1>1, <1>5
  <2>2. peer \in PeerStates /\ peer.streams[id] \in PeerStreams
    BY PeerFields
  <2> QED
    BY <1>7, <2>1, <2>2 DEF PeerPut, PeerStates, PeerStreams
<1>10. /\ up' = Append(up, f) /\ peer.streams[id].at = "idle" /\ PeerOnly /\ down' = down
  BY <1>1, <1>3 DEF PeerRequests
<1>11. PeerPuts(id, f, st)
  BY <1>4, <1>6, <1>8, <1>9, <1>10 DEF PeerPuts
<1> QED
  BY <1>11

LEMMA PeerResetsIs ==
    ASSUME H2Typed, NEW id \in StreamIds, PeerResets(id)
    PROVE  \E f, st : PeerPuts(id, f, st)
<1>1. PeerOnly /\ down' = down /\ peer \in PeerStates /\ peer.streams[id] \in PeerStreams
  BY PeerFields DEF PeerResets
<1>2. PICK f : f = Frame("RST_STREAM", id, 0, TRUE)
  OBVIOUS
<1>3. f \in UpFrames /\ f.id = id /\ f.type = "RST_STREAM"
  BY <1>2, H2Assumption DEF Frame, UpFrames, Frames, FrameTypes
<1>4. PICK st : st = [peer.streams[id] EXCEPT !.at = "reset"]
  OBVIOUS
<1>5. /\ st \in PeerStreams /\ st.at = "reset"
      /\ st.sendW = peer.streams[id].sendW /\ st.recvW = peer.streams[id].recvW
  BY <1>1, <1>4 DEF PeerStreams, PeerPlaces
<1>6. peer' = [peer EXCEPT !.streams[id].at = "reset"] /\ up' = Append(up, f)
  BY <1>2 DEF PeerResets
<1>7. peer' = PeerPut(peer, id, st)
  BY <1>1, <1>4, <1>6 DEF PeerPut, PeerStates, PeerStreams
<1>8. PeerPuts(id, f, st)
  BY <1>1, <1>3, <1>5, <1>6, <1>7 DEF PeerPuts
<1> QED
  BY <1>8

LEMMA PeerExtendsIs ==
    ASSUME H2Typed, NEW id \in StreamIds, PeerExtends(id)
    PROVE  \E f, st : PeerPuts(id, f, st)
<1>1. /\ PeerOnly /\ down' = down /\ peer \in PeerStates /\ peer.streams[id] \in PeerStreams
      /\ peer.streams[id].at \in plan.early /\ peer.streams[id].recvW \in Int
  BY PeerFields DEF PeerExtends
<1>2. PICK f : f = Frame("WINDOW_UPDATE", id, 1, FALSE)
  OBVIOUS
<1>3. f \in UpFrames /\ f.id = id /\ f.type = "WINDOW_UPDATE" /\ f.n = 1
  BY <1>2, H2Assumption DEF Frame, UpFrames, Frames, FrameTypes
<1>4. PICK st : st = [peer.streams[id] EXCEPT !.recvW = @ + 1]
  OBVIOUS
<1>5. peer.streams[id].at # "idle"
  <2>1. plan \in H2Uses
    BY H2Assumption DEF H2Typed
  <2>2. plan.early \in SUBSET {"open", "done"}
    BY <2>1 DEF H2Uses
  <2> QED
    BY <1>1, <2>2
<1>6. /\ st \in PeerStreams /\ st.at = peer.streams[id].at
      /\ st.sendW = peer.streams[id].sendW /\ st.recvW = peer.streams[id].recvW + 1
  BY <1>1, <1>4 DEF PeerStreams
<1>7. peer' = [peer EXCEPT !.streams[id].recvW = @ + 1] /\ up' = Append(up, f)
  BY <1>2 DEF PeerExtends
<1>8. peer' = PeerPut(peer, id, st)
  BY <1>1, <1>4, <1>7 DEF PeerPut, PeerStates, PeerStreams
<1>9. PeerPuts(id, f, st)
  BY <1>1, <1>3, <1>5, <1>6, <1>7, <1>8 DEF PeerPuts
<1> QED
  BY <1>9

LEMMA PeerPutsKeeps ==
    ASSUME H2Core, ~ended, UNCHANGED plan, NEW id \in StreamIds,
           PeerRequests(id) \/ PeerResets(id) \/ PeerExtends(id)
    PROVE  H2Core'
<1>1. PICK f, st : PeerPuts(id, f, st)
  BY PeerRequestsIs, PeerResetsIs, PeerExtendsIs DEF H2Core
<1>2. /\ f \in UpFrames /\ f.id = id /\ up' = Append(up, f) /\ st \in PeerStreams
      /\ peer' = PeerPut(peer, id, st) /\ PeerOnly /\ down' = down /\ st.at # "idle"
      /\ f.type = "HEADERS" => peer.streams[id].at = "idle"
  BY <1>1 DEF PeerPuts
<1> QED
  BY <1>2, PeerStreamKeeps

LEMMA PeerSendsIs ==
    ASSUME H2Typed, NEW id \in StreamIds, PeerSends(id)
    PROVE  \E n \in {0, 1}, end \in BOOLEAN, f \in UpFrames :
              /\ f.type = "DATA" /\ f.id = id /\ f.n = n /\ f.end = end
              /\ up' = Append(up, f)
              /\ peer' \in PeerStates /\ peer'.initial = peer.initial /\ peer'.recvW = peer.recvW
              /\ peer'.changed = peer.changed /\ peer'.sendW = peer.sendW - n
              /\ peer'.streams[id].at = (IF end THEN "done" ELSE "open")
              /\ peer'.streams[id].sendW = peer.streams[id].sendW - n
              /\ peer'.streams[id].recvW = peer.streams[id].recvW
              /\ \A k \in StreamIds : k # id => peer'.streams[k] = peer.streams[k]
<1>1. PICK n \in {0, 1}, end \in BOOLEAN :
         /\ n <= Min({peer.streams[id].left, peer.streams[id].sendW, peer.sendW})
         /\ up' = Append(up, Frame("DATA", id, n, end))
         /\ peer' = [peer EXCEPT !.sendW = @ - n,
                        !.streams[id] = [peer.streams[id] EXCEPT !.sendW = @ - n, !.left = @ - n,
                                                   !.at = IF end THEN "done" ELSE "open"]]
  BY DEF PeerSends
<1>2. PICK f : f = Frame("DATA", id, n, end)
  OBVIOUS
<1>3. f \in UpFrames /\ f.type = "DATA" /\ f.id = id /\ f.n = n /\ f.end = end
  BY <1>1, <1>2, H2Assumption DEF Frame, UpFrames, Frames, FrameTypes
<1>4. /\ peer \in PeerStates /\ peer.streams[id] \in PeerStreams /\ peer.sendW \in Int
      /\ peer.streams[id].sendW \in Int /\ peer.streams[id].left \in Nat
  BY PeerFields
<1>5. n <= peer.streams[id].left /\ n \in Nat /\ peer.streams[id].left - n \in Nat
  <2>1. PICK a, b, c : a = peer.streams[id].left /\ b = peer.streams[id].sendW /\ c = peer.sendW
    OBVIOUS
  <2>2. a \in Int /\ b \in Int /\ c \in Int /\ n \in Nat
    BY <1>1, <1>4, <2>1
  <2>3. Min({a, b, c}) <= a /\ Min({a, b, c}) \in {a, b, c}
    BY <2>2, MinOfThree
  <2>4. n <= Min({a, b, c})
    BY <1>1, <2>1
  <2>5. PICK m : m = Min({a, b, c})
    OBVIOUS
  <2>6. m \in Int /\ n <= m /\ m <= a
    BY <2>2, <2>3, <2>4, <2>5
  <2>7. n <= a
    BY <2>2, <2>6
  <2> QED
    BY <1>4, <2>1, <2>2, <2>7
<1>6. PICK at : at = IF end THEN "done" ELSE "open"
  OBVIOUS
<1>7. at \in PeerPlaces
  BY <1>6 DEF PeerPlaces
<1>8. PICK st : st = [peer.streams[id] EXCEPT !.sendW = @ - n, !.left = @ - n, !.at = at]
  OBVIOUS
<1>9. st \in PeerStreams /\ st.at = at /\ st.sendW = peer.streams[id].sendW - n /\ st.recvW = peer.streams[id].recvW
  <2>1. PICK a \in Int, b \in Nat : a = peer.streams[id].sendW - n /\ b = peer.streams[id].left - n
    BY <1>4, <1>5
  <2>2. PICK p \in PeerStreams : p = peer.streams[id]
    BY <1>4
  <2>3. st = [p EXCEPT !.sendW = a, !.left = b, !.at = at]
    <3>1. st = [p EXCEPT !.sendW = p.sendW - n, !.left = p.left - n, !.at = at]
      BY <1>8, <2>2 DEF PeerStreams
    <3> QED
      BY <2>1, <2>2, <3>1
  <2>4. st \in PeerStreams /\ st.at = at /\ st.sendW = a /\ st.recvW = p.recvW
    BY <1>7, <2>1, <2>2, <2>3 DEF PeerStreams
  <2> QED
    BY <2>1, <2>2, <2>4
<1>10. PICK w \in Int : w = peer.sendW - n
  BY <1>4, <1>5
<1>11. PICK q : q = PeerPut(peer, id, st)
  OBVIOUS
<1>12. /\ q \in PeerStates /\ q.streams[id] = st
       /\ q.initial = peer.initial /\ q.sendW = peer.sendW /\ q.recvW = peer.recvW /\ q.changed = peer.changed
       /\ \A k \in StreamIds : k # id => q.streams[k] = peer.streams[k]
  BY <1>4, <1>9, <1>11, PeerPutFacts
<1>13. peer' = [q EXCEPT !.sendW = w]
  <2>1. peer' = [peer EXCEPT !.sendW = w, !.streams[id] = st]
    BY <1>1, <1>6, <1>8, <1>10
  <2> QED
    BY <1>4, <1>11, <2>1 DEF PeerPut, PeerStates
<1>14. /\ peer' \in PeerStates /\ peer'.streams = q.streams /\ peer'.sendW = w
       /\ peer'.initial = q.initial /\ peer'.recvW = q.recvW /\ peer'.changed = q.changed
  BY <1>10, <1>12, <1>13 DEF PeerStates
<1>15. up' = Append(up, f)
  BY <1>1, <1>2
<1> QED
  BY <1>1, <1>3, <1>6, <1>9, <1>10, <1>12, <1>14, <1>15

LEMMA PeerSendsKeeps ==
    ASSUME H2Core, ~ended, UNCHANGED plan, NEW id \in StreamIds, PeerSends(id)
    PROVE  H2Core'
<1> USE DEF H2Core
<1>1. PICK n \in {0, 1}, end \in BOOLEAN, f \in UpFrames :
         /\ f.type = "DATA" /\ f.id = id /\ f.n = n /\ f.end = end
         /\ up' = Append(up, f)
         /\ peer' \in PeerStates /\ peer'.initial = peer.initial /\ peer'.recvW = peer.recvW
         /\ peer'.changed = peer.changed /\ peer'.sendW = peer.sendW - n
         /\ peer'.streams[id].at = (IF end THEN "done" ELSE "open")
         /\ peer'.streams[id].sendW = peer.streams[id].sendW - n
         /\ peer'.streams[id].recvW = peer.streams[id].recvW
         /\ \A k \in StreamIds : k # id => peer'.streams[k] = peer.streams[k]
  BY PeerSendsIs
<1>2. PeerOnly /\ down' = down
  BY DEF PeerSends
<1>3. peer'.streams[id].at # "idle" /\ f.type # "HEADERS"
  BY <1>1
<1>4. \A k \in StreamIds : peer'.streams[k].at = "idle" => peer.streams[k].at = "idle"
  BY <1>1, <1>3
<1> QED
  BY <1>1, <1>2, <1>3, <1>4, PeerSaysKeeps

LEMMA PeerChangesIs ==
    ASSUME H2Typed, PeerChangesWindow
    PROVE  \E n \in Nat, f \in UpFrames :
              /\ f.type = "SETTINGS" /\ f.id = 0 /\ f.n = n /\ up' = Append(up, f)
              /\ peer' \in PeerStates /\ peer'.initial = n /\ peer'.changed
              /\ peer'.sendW = peer.sendW /\ peer'.recvW = peer.recvW
              /\ \A k \in StreamIds :
                    /\ peer'.streams[k].at = peer.streams[k].at
                    /\ peer'.streams[k].sendW = peer.streams[k].sendW
                    /\ peer'.streams[k].recvW = peer.streams[k].recvW + n - peer.initial
<1>1. PICK n \in plan.windows :
         /\ up' = Append(up, Frame("SETTINGS", 0, n, FALSE))
         /\ peer' = [peer EXCEPT !.initial = n, !.changed = TRUE,
                        !.streams = [id \in StreamIds |->
                            [peer.streams[id] EXCEPT !.recvW = @ + n - peer.initial]]]
  BY DEF PeerChangesWindow
<1>2. n \in Nat
  BY <1>1, PlanFacts
<1>3. PICK f : f = Frame("SETTINGS", 0, n, FALSE)
  OBVIOUS
<1>4. f \in UpFrames /\ f.type = "SETTINGS" /\ f.id = 0 /\ f.n = n /\ up' = Append(up, f)
  BY <1>1, <1>2, <1>3 DEF Frame, UpFrames, Frames, FrameTypes
<1>5. PICK x : x = [id \in StreamIds |-> [peer.streams[id] EXCEPT !.recvW = @ + n - peer.initial]]
  OBVIOUS
<1>6. ASSUME NEW k \in StreamIds
      PROVE  /\ x[k] \in PeerStreams /\ x[k].at = peer.streams[k].at /\ x[k].sendW = peer.streams[k].sendW
             /\ x[k].recvW = peer.streams[k].recvW + n - peer.initial
  <2>1. peer.streams[k] \in PeerStreams /\ peer.initial \in Int /\ peer.streams[k].recvW \in Int
    BY PeerFields
  <2>2. PICK v \in Int : v = peer.streams[k].recvW + n - peer.initial
    BY <1>2, <2>1
  <2>3. x[k] = [peer.streams[k] EXCEPT !.recvW = v]
    BY <1>5, <2>1, <2>2 DEF PeerStreams
  <2> QED
    BY <2>1, <2>2, <2>3 DEF PeerStreams
<1>7. x \in [StreamIds -> PeerStreams]
  <2>1. x = [k \in StreamIds |-> x[k]]
    BY <1>5
  <2> QED
    BY <1>6, <2>1
<1>8. peer \in PeerStates /\ n \in Int
  BY <1>2 DEF H2Typed
<1>9. peer' = [peer EXCEPT !.initial = n, !.changed = TRUE, !.streams = x]
  BY <1>1, <1>5
<1>10. /\ peer' \in PeerStates /\ peer'.initial = n /\ peer'.changed /\ peer'.streams = x
       /\ peer'.sendW = peer.sendW /\ peer'.recvW = peer.recvW
  BY <1>7, <1>8, <1>9 DEF PeerStates
<1> QED
  BY <1>2, <1>4, <1>6, <1>10

LEMMA PeerChangesKeeps ==
    ASSUME H2Core, ~ended, UNCHANGED plan, PeerChangesWindow
    PROVE  H2Core'
<1> USE DEF H2Core
<1>1. PICK n \in Nat, f \in UpFrames :
         /\ f.type = "SETTINGS" /\ f.id = 0 /\ f.n = n /\ up' = Append(up, f)
         /\ peer' \in PeerStates /\ \A k \in StreamIds : peer'.streams[k].at = peer.streams[k].at
  BY PeerChangesIs
<1>2. PeerOnly /\ down' = down /\ 0 \notin StreamIds
  BY H2Assumption DEF PeerChangesWindow
<1>3. f.id \notin StreamIds /\ f.type # "HEADERS"
  BY <1>1, <1>2
<1> QED
  BY <1>1, <1>2, <1>3, PeerSaysKeeps

LEMMA MentionsTail ==
    ASSUME NEW S, NEW q \in Seq(S), q # << >>
    PROVE  /\ Mentions(q, Head(q).id)
           /\ \A k : Mentions(Tail(q), k) => Mentions(q, k)
<1>1. 1 \in DOMAIN q /\ Head(q) = q[1]
  OBVIOUS
<1>2. PICK t : t = Tail(q)
  OBVIOUS
<1>3. \A i \in DOMAIN t : i + 1 \in DOMAIN q /\ t[i] = q[i + 1]
  BY <1>2
<1> QED
  BY <1>1, <1>2, <1>3 DEF Mentions

(* A queue to which a and then b were added.                                *)
Extended(u, a, b, q) ==
    /\ Len(u) <= Len(q) /\ \A i \in DOMAIN u : q[i] = u[i]
    /\ \A i \in DOMAIN q \ DOMAIN u : \/ \E j \in DOMAIN a : q[i] = a[j]
                                      \/ \E j \in DOMAIN b : q[i] = b[j]

LEMMA UpExtends ==
    ASSUME NEW S, NEW u \in Seq(S), NEW a \in Seq(S), NEW b \in Seq(S), NEW q, q = (u \o a) \o b
    PROVE  q \in Seq(S) /\ Extended(u, a, b, q)
<1>1. PICK r : r = u \o a
  OBVIOUS
<1>2. /\ r \in Seq(S) /\ Len(r) = Len(u) + Len(a) /\ Len(u) \in Nat /\ Len(a) \in Nat
      /\ DOMAIN u = 1 .. Len(u) /\ DOMAIN a = 1 .. Len(a) /\ DOMAIN r = 1 .. Len(r)
      /\ \A i \in 1 .. Len(u) : r[i] = u[i]
      /\ \A i \in (Len(u) + 1) .. Len(r) : r[i] = a[i - Len(u)]
  BY <1>1
<1>3. /\ q \in Seq(S) /\ Len(q) = Len(r) + Len(b) /\ Len(r) \in Nat /\ Len(b) \in Nat
      /\ DOMAIN b = 1 .. Len(b) /\ DOMAIN q = 1 .. Len(q)
      /\ \A i \in 1 .. Len(r) : q[i] = r[i]
      /\ \A i \in (Len(r) + 1) .. Len(q) : q[i] = b[i - Len(r)]
  BY <1>1, <1>2
<1>4. Len(u) <= Len(q) /\ \A i \in DOMAIN u : q[i] = u[i]
  BY <1>2, <1>3
<1>5. ASSUME NEW i \in DOMAIN q \ DOMAIN u
      PROVE  (\E j \in DOMAIN a : q[i] = a[j]) \/ (\E j \in DOMAIN b : q[i] = b[j])
  <2>1. CASE i \in 1 .. Len(r)
    <3>1. i - Len(u) \in DOMAIN a /\ q[i] = a[i - Len(u)]
      BY <1>2, <1>3, <1>5, <2>1
    <3> QED
      BY <3>1
  <2>2. CASE i \notin 1 .. Len(r)
    <3>1. i - Len(r) \in DOMAIN b /\ q[i] = b[i - Len(r)]
      BY <1>2, <1>3, <1>5, <2>2
    <3> QED
      BY <3>1
  <2> QED
    BY <2>1, <2>2
<1> QED
  BY <1>3, <1>4, <1>5 DEF Extended

(* The frame that returns credit, if there is any.                          *)
Returns(a, id, n) == a = << >> \/ a = <<Frame("WINDOW_UPDATE", id, n, FALSE)>>

LEMMA ReturnsFacts ==
    ASSUME NEW a, NEW id \in Nat, NEW n \in Nat, Returns(a, id, n)
    PROVE  /\ a \in Seq(UpFrames)
           /\ \A i \in DOMAIN a : a[i].type = "WINDOW_UPDATE" /\ a[i].id = id
<1>1. PICK f : f = Frame("WINDOW_UPDATE", id, n, FALSE)
  OBVIOUS
<1>2. f \in UpFrames /\ f.type = "WINDOW_UPDATE" /\ f.id = id
  BY <1>1 DEF Frame, UpFrames, Frames, FrameTypes
<1>3. a = << >> \/ a = <<f>>
  BY <1>1 DEF Returns
<1> HIDE DEF UpFrames
<1>4. CASE a = << >>
  BY <1>4
<1>5. CASE a = <<f>>
  BY <1>2, <1>5
<1> QED
  BY <1>3, <1>4, <1>5

(* What the peer makes of a frame.                                          *)
Taken(f, p, a, b) ==
    /\ p \in PeerStates /\ p.initial = peer.initial /\ p.recvW = peer.recvW /\ p.changed = peer.changed
    /\ p.sendW = peer.sendW + (IF f.type = "WINDOW_UPDATE" /\ f.id = 0 THEN f.n ELSE 0)
    /\ \A k \in StreamIds :
          LET mine == f.id = k
          IN /\ p.streams[k].at = peer.streams[k].at
             /\ p.streams[k].sendW = peer.streams[k].sendW
                                       + (IF f.type = "WINDOW_UPDATE" /\ mine THEN f.n ELSE 0)
             /\ p.streams[k].recvW = peer.streams[k].recvW
                                       - (IF f.type # "WINDOW_UPDATE" /\ mine /\ b = << >> THEN f.n ELSE 0)
    /\ Returns(a, 0, f.n) /\ (a = << >> <=> f.type # "DATA" \/ f.n = 0)
    /\ Returns(b, f.id, f.n) /\ (b # << >> => f.type = "DATA")

LEMMA PeerTakesIs ==
    ASSUME H2Typed, NEW f \in DownFrames, NEW extend \in BOOLEAN, PeerTakes(f, extend)
    PROVE  \E a, b : Taken(f, peer', a, b) /\ up' = (up \o a) \o b
<1> DEFINE back == f.type = "DATA" /\ f.n > 0
           more == back /\ extend /\ ~f.end /\ peer.streams[f.id].at # "reset"
<1>1. PICK a : a = IF back THEN <<Frame("WINDOW_UPDATE", 0, f.n, FALSE)>> ELSE << >>
  OBVIOUS
<1>2. PICK b : b = IF more THEN <<Frame("WINDOW_UPDATE", f.id, f.n, FALSE)>> ELSE << >>
  OBVIOUS
<1>3. up' = (up \o a) \o b
  BY <1>1, <1>2 DEF PeerTakes
<1>4. /\ f.n \in Nat /\ f.id \in Nat /\ 0 \notin StreamIds /\ f.end \in BOOLEAN
      /\ f.id \in StreamIds \/ (f.id = 0 /\ f.type = "WINDOW_UPDATE")
  BY H2Assumption DEF DownFrames, Frames
<1>5. /\ Returns(a, 0, f.n) /\ (a = << >> <=> f.type # "DATA" \/ f.n = 0)
      /\ Returns(b, f.id, f.n) /\ (b # << >> => f.type = "DATA") /\ (b = << >> <=> ~more)
  <2>1. PICK g, h : g = Frame("WINDOW_UPDATE", 0, f.n, FALSE) /\ h = Frame("WINDOW_UPDATE", f.id, f.n, FALSE)
    OBVIOUS
  <2>2. <<g>> # << >> /\ <<h>> # << >>
    OBVIOUS
  <2>3. a = IF back THEN <<g>> ELSE << >>
    BY <1>1, <2>1
  <2>4. b = IF more THEN <<h>> ELSE << >>
    BY <1>2, <2>1
  <2>5. Returns(a, 0, f.n) /\ Returns(b, f.id, f.n)
    BY <2>1, <2>3, <2>4 DEF Returns
  <2> QED
    BY <1>4, <2>2, <2>3, <2>4, <2>5
<1>6. peer \in PeerStates /\ peer.sendW \in Int
  BY DEF H2Typed, PeerStates
<1> HIDE DEF more
<1>7. CASE f.type = "WINDOW_UPDATE" /\ f.id = 0
  <2>1. peer' = [peer EXCEPT !.sendW = @ + f.n]
    BY <1>7 DEF PeerTakes
  <2>2. PICK w \in Int : w = peer.sendW + f.n
    BY <1>4, <1>6
  <2>3. peer' = [peer EXCEPT !.sendW = w]
    BY <2>1, <2>2
  <2>4. /\ peer' \in PeerStates /\ peer'.initial = peer.initial /\ peer'.recvW = peer.recvW
        /\ peer'.changed = peer.changed /\ peer'.sendW = w /\ peer'.streams = peer.streams
    BY <1>6, <2>2, <2>3 DEF PeerStates
  <2>5. \A k \in StreamIds : peer.streams[k].sendW \in Int /\ peer.streams[k].recvW \in Int
    BY PeerFields
  <2>6. ASSUME NEW k \in StreamIds
        PROVE  /\ peer'.streams[k].at = peer.streams[k].at
               /\ peer'.streams[k].sendW = peer.streams[k].sendW
                                       + (IF f.type = "WINDOW_UPDATE" /\ f.id = k THEN f.n ELSE 0)
               /\ peer'.streams[k].recvW = peer.streams[k].recvW
                                       - (IF f.type # "WINDOW_UPDATE" /\ f.id = k /\ b = << >> THEN f.n ELSE 0)
    BY <1>4, <1>7, <2>4, <2>5
  <2>7. peer'.sendW = peer.sendW + (IF f.type = "WINDOW_UPDATE" /\ f.id = 0 THEN f.n ELSE 0)
    BY <1>7, <2>2, <2>4
  <2>8. Taken(f, peer', a, b)
    BY <1>5, <2>4, <2>6, <2>7 DEF Taken
  <2> QED
    BY <1>3, <2>8
<1>8. CASE f.id \in StreamIds
  <2>1. PICK id \in StreamIds : id = f.id
    BY <1>8
  <2>2. PICK old \in PeerStreams : old = peer.streams[id]
    BY <2>1, PeerFields
  <2>3. old.sendW \in Int /\ old.recvW \in Int /\ old.answered \in BOOLEAN /\ f.n \in Int
    BY <1>4, <2>2 DEF PeerStreams
  <2>4. \E st \in PeerStreams :
           /\ peer' = PeerPut(peer, id, st) /\ st.at = old.at
           /\ st.sendW = old.sendW + (IF f.type = "WINDOW_UPDATE" THEN f.n ELSE 0)
           /\ st.recvW = old.recvW - (IF f.type # "WINDOW_UPDATE" /\ b = << >> THEN f.n ELSE 0)
    <3>1. CASE f.type = "WINDOW_UPDATE"
      <4>1. peer' = [peer EXCEPT !.streams[id].sendW = @ + f.n]
        BY <1>4, <2>1, <3>1 DEF PeerTakes
      <4>2. PICK w \in Int : w = old.sendW + f.n
        BY <2>3
      <4>3. PICK st : st = [old EXCEPT !.sendW = w]
        OBVIOUS
      <4>4. st \in PeerStreams /\ st.at = old.at /\ st.sendW = w /\ st.recvW = old.recvW
        BY <4>2, <4>3 DEF PeerStreams
      <4>5. peer' = PeerPut(peer, id, st)
        BY <1>6, <2>2, <4>1, <4>2, <4>3 DEF PeerPut, PeerStates, PeerStreams
      <4>6. /\ st.sendW = old.sendW + (IF f.type = "WINDOW_UPDATE" THEN f.n ELSE 0)
            /\ st.recvW = old.recvW - (IF f.type # "WINDOW_UPDATE" /\ b = << >> THEN f.n ELSE 0)
        BY <2>3, <3>1, <4>2, <4>4
      <4> QED
        BY <4>4, <4>5, <4>6
    <3>2. CASE f.type # "WINDOW_UPDATE"
      <4>1. PICK m : m = IF more THEN 0 ELSE f.n
        OBVIOUS
      <4>2. peer' = [peer EXCEPT !.streams[id].recvW = @ - m, !.streams[id].answered = @ \/ f.end]
        BY <2>1, <3>2, <4>1 DEF PeerTakes, more
      <4>3. PICK w \in Int : w = old.recvW - m
        BY <2>3, <4>1
      <4>4. PICK e \in BOOLEAN : e = (old.answered \/ f.end)
        BY <1>4, <2>3
      <4>5. PICK st : st = [old EXCEPT !.recvW = w, !.answered = e]
        OBVIOUS
      <4>6. st \in PeerStreams /\ st.at = old.at /\ st.sendW = old.sendW /\ st.recvW = w
        BY <4>3, <4>4, <4>5 DEF PeerStreams
      <4>7. peer' = [peer EXCEPT !.streams[id] = [peer.streams[id] EXCEPT !.recvW = w, !.answered = e]]
        BY <1>6, <2>2, <4>2, <4>3, <4>4 DEF PeerStates, PeerStreams
      <4>8. peer' = PeerPut(peer, id, st)
        BY <2>2, <4>5, <4>7 DEF PeerPut
      <4>9. /\ st.sendW = old.sendW + (IF f.type = "WINDOW_UPDATE" THEN f.n ELSE 0)
            /\ st.recvW = old.recvW - (IF f.type # "WINDOW_UPDATE" /\ b = << >> THEN f.n ELSE 0)
        BY <1>5, <2>3, <3>2, <4>1, <4>3, <4>6
      <4> QED
        BY <4>6, <4>8, <4>9
    <3> QED
      BY <3>1, <3>2
  <2>5. PICK st \in PeerStreams :
           /\ peer' = PeerPut(peer, id, st) /\ st.at = old.at
           /\ st.sendW = old.sendW + (IF f.type = "WINDOW_UPDATE" THEN f.n ELSE 0)
           /\ st.recvW = old.recvW - (IF f.type # "WINDOW_UPDATE" /\ b = << >> THEN f.n ELSE 0)
    BY <2>4
  <2>6. /\ peer' \in PeerStates /\ peer'.streams[id] = st
        /\ peer'.initial = peer.initial /\ peer'.sendW = peer.sendW /\ peer'.recvW = peer.recvW
        /\ peer'.changed = peer.changed
        /\ \A k \in StreamIds : k # id => peer'.streams[k] = peer.streams[k]
    BY <1>6, <2>1, <2>5, PeerPutFacts
  <2>7. ASSUME NEW k \in StreamIds
        PROVE  /\ peer'.streams[k].at = peer.streams[k].at
               /\ peer'.streams[k].sendW = peer.streams[k].sendW
                                       + (IF f.type = "WINDOW_UPDATE" /\ f.id = k THEN f.n ELSE 0)
               /\ peer'.streams[k].recvW = peer.streams[k].recvW
                                       - (IF f.type # "WINDOW_UPDATE" /\ f.id = k /\ b = << >> THEN f.n ELSE 0)
    <3>1. CASE k = id
      BY <2>1, <2>2, <2>5, <2>6, <3>1
    <3>2. CASE k # id
      <4>1. peer.streams[k].sendW \in Int /\ peer.streams[k].recvW \in Int
        BY PeerFields
      <4> QED
        BY <2>1, <2>6, <3>2, <4>1
    <3> QED
      BY <3>1, <3>2
  <2>8. peer'.sendW = peer.sendW + (IF f.type = "WINDOW_UPDATE" /\ f.id = 0 THEN f.n ELSE 0)
    BY <1>4, <1>6, <1>8, <2>6
  <2>9. Taken(f, peer', a, b)
    BY <1>5, <2>6, <2>7, <2>8 DEF Taken
  <2> QED
    BY <1>3, <2>9
<1> QED
  BY <1>4, <1>7, <1>8

LEMMA PeerReceivesKeeps ==
    ASSUME H2Core, ~ended, UNCHANGED plan, PeerReceives
    PROVE  H2Core'
<1> USE DEF H2Core
<1>1. down # << >> /\ down' = Tail(down) /\ PeerOnly /\ down \in Seq(DownFrames)
  BY DEF PeerReceives, H2Typed
<1>2. PICK f : f = Head(down)
  OBVIOUS
<1>3. f \in DownFrames /\ Tail(down) \in Seq(DownFrames)
  BY <1>1, <1>2, HeadAndTail
<1>4. PICK a, b : Taken(f, peer', a, b) /\ up' = (up \o a) \o b
  <2>1. PICK extend \in BOOLEAN : PeerTakes(f, extend)
    BY <1>2 DEF PeerReceives
  <2> QED
    BY <1>3, <2>1, PeerTakesIs
<1>5. /\ peer' \in PeerStates /\ \A k \in StreamIds : peer'.streams[k].at = peer.streams[k].at
      /\ Returns(a, 0, f.n) /\ Returns(b, f.id, f.n)
  BY <1>4 DEF Taken
<1>6. f.n \in Nat /\ f.id \in Nat /\ 0 \notin StreamIds
  BY <1>3, H2Assumption DEF DownFrames, Frames
<1>7. /\ a \in Seq(UpFrames) /\ \A i \in DOMAIN a : a[i].type = "WINDOW_UPDATE" /\ a[i].id = 0
      /\ b \in Seq(UpFrames) /\ \A i \in DOMAIN b : b[i].type = "WINDOW_UPDATE" /\ b[i].id = f.id
  BY <1>5, <1>6, ReturnsFacts
<1>8. /\ up' \in Seq(UpFrames) /\ Len(up) <= Len(up') /\ \A i \in DOMAIN up : up'[i] = up[i]
      /\ \A i \in DOMAIN up' \ DOMAIN up : \/ \E j \in DOMAIN a : up'[i] = a[j]
                                           \/ \E j \in DOMAIN b : up'[i] = b[j]
  <2>1. up \in Seq(UpFrames)
    BY DEF H2Typed
  <2>2. PICK q : q = (up \o a) \o b
    OBVIOUS
  <2>3. q \in Seq(UpFrames) /\ Extended(up, a, b, q)
    BY <1>7, <2>1, <2>2, UpExtends
  <2>4. up' = q
    BY <1>4, <2>2
  <2> QED
    BY <2>3, <2>4 DEF Extended
<1>9. \A i \in DOMAIN up' \ DOMAIN up : up'[i].type = "WINDOW_UPDATE" /\ up'[i].id \in {0, f.id}
  BY <1>7, <1>8
<1>10. H2Typed'
  BY <1>1, <1>3, <1>5, <1>8 DEF H2Typed, PeerOnly
<1>11. \A k : Mentions(Sending', k) => Mentions(Sending, k)
  <2>1. \A k : Mentions(Sending', k) <=> Mentions(down', k) \/ Mentions(srv'.out, k)
    <3>1. down' \in Seq(DownFrames) /\ srv'.out \in Seq(DownFrames)
      BY <1>10, SrvFields DEF H2Typed
    <3>2. PICK o \in Seq(DownFrames) : o = srv'.out
      BY <3>1
    <3>3. \A k : Mentions(down' \o o, k) <=> Mentions(down', k) \/ Mentions(o, k)
      BY <3>1, MentionsConcat
    <3> QED
      BY <3>2, <3>3 DEF Sending
  <2>2. \A k : Mentions(down', k) => Mentions(down, k)
    BY <1>1, MentionsTail
  <2>3. srv'.out = srv.out
    BY <1>1 DEF PeerOnly
  <2>4. \A k : Mentions(srv'.out, k) <=> Mentions(srv.out, k)
    BY <2>3 DEF Mentions
  <2> QED
    BY <2>1, <2>2, <2>4, SendingFacts
<1>12. f.id \in StreamIds => peer.streams[f.id].at # "idle"
  <2>1. Mentions(Sending, f.id)
    BY <1>1, <1>2, MentionsTail, SendingFacts
  <2> QED
    BY <2>1 DEF Orderly, OpensOnce, Untouched
<1>13. PeerStep
  <2>1. ASSUME NEW i \in DOMAIN up' \ DOMAIN up, up'[i].id \in StreamIds
        PROVE  peer'.streams[up'[i].id].at # "idle"
    BY <1>5, <1>6, <1>9, <1>12, <2>1
  <2>2. UNCHANGED <<srv, ready, work>>
    BY <1>1 DEF PeerOnly
  <2> QED
    BY <1>5, <1>8, <1>9, <1>11, <2>1, <2>2 DEF PeerStep
<1> QED
  BY <1>1, <1>10, <1>13, PeerKeeps

(***************************************************************************)
(* The reader.  A frame is taken from the wire; what it says of a stream    *)
(* that is not opened yet comes after its HEADERS.                          *)
(***************************************************************************)
LEMMA TailFacts ==
    ASSUME NEW S, NEW q \in Seq(S), q # << >>, NEW t, t = Tail(q)
    PROVE  /\ t \in Seq(S) /\ 1 \in DOMAIN q /\ Head(q) = q[1]
           /\ \A i \in DOMAIN t : i \in Nat /\ i >= 1 /\ i + 1 \in DOMAIN q /\ t[i] = q[i + 1]
  OBVIOUS

LEMMA FrameReadKeeps ==
    ASSUME H2Typed, OpensOnce, up # << >>, up' = Tail(up), peer' = peer,
           \A k \in StreamIds : k # Head(up).id /\ Untouched(k) => Untouched(k)'
    PROVE  OpensOnce'
<1>1. /\ 1 \in DOMAIN up /\ Head(up) = up[1]
      /\ \A i \in DOMAIN up' : i \in Nat /\ i >= 1 /\ i + 1 \in DOMAIN up /\ up'[i] = up[i + 1]
  BY TailFacts DEF H2Typed
<1>2. ASSUME NEW k \in StreamIds, peer.streams[k].at = "idle"
      PROVE  Untouched(k)' /\ ~Mentions(up', k)
  <2>1. Untouched(k) /\ ~Mentions(up, k)
    BY <1>2 DEF OpensOnce
  <2>2. k # Head(up).id
    BY <1>1, <2>1 DEF Mentions
  <2>3. ~Mentions(up', k)
    BY <1>1, <2>1 DEF Mentions
  <2> QED
    BY <2>1, <2>2, <2>3
<1>3. ASSUME NEW k \in StreamIds, NEW i \in DOMAIN up', up'[i].type = "HEADERS", up'[i].id = k
      PROVE  Untouched(k)' /\ \A j \in DOMAIN up' : up'[j].id = k => j >= i
  <2>1. i + 1 \in DOMAIN up /\ up[i + 1].type = "HEADERS" /\ up[i + 1].id = k /\ i \in Nat /\ i >= 1
    BY <1>1, <1>3
  <2>2. Untouched(k) /\ \A j \in DOMAIN up : up[j].id = k => j >= i + 1
    BY <2>1 DEF OpensOnce
  <2>3. k # Head(up).id
    <3>1. ~(1 >= i + 1)
      BY <2>1
    <3> QED
      BY <1>1, <2>2, <3>1
  <2>4. ASSUME NEW j \in DOMAIN up', up'[j].id = k PROVE j >= i
    <3>1. j + 1 >= i + 1 /\ j \in Nat
      BY <1>1, <2>2, <2>4
    <3> QED
      BY <2>1, <3>1
  <2> QED
    BY <2>2, <2>3, <2>4
<1>4. \A k : Mentions(up, k)' <=> Mentions(up', k)
  BY DEF Mentions
<1> QED
  BY <1>2, <1>3, <1>4 DEF OpensOnce

(* HEADERS find a stream of which nothing is known.                         *)
LEMMA FirstFrame ==
    ASSUME H2Core, ~ended, up # << >>
    PROVE  /\ Head(up) \in UpFrames /\ Tail(up) \in Seq(UpFrames)
           /\ Head(up).type = "HEADERS" => Head(up).id \in StreamIds /\ Untouched(Head(up).id)
           /\ Head(up).type = "DATA" => Head(up).id \in StreamIds
<1> USE DEF H2Core
<1>1. up \in Seq(UpFrames) /\ OpensOnce
  BY DEF H2Typed, Orderly
<1>2. /\ 1 \in DOMAIN up /\ Head(up) = up[1] /\ Head(up) \in UpFrames /\ Tail(up) \in Seq(UpFrames)
  BY <1>1, HeadAndTail, TailFacts
<1>3. Head(up).type \in {"HEADERS", "DATA"} => Head(up).id \in StreamIds
  BY <1>2 DEF UpFrames
<1> QED
  BY <1>1, <1>2, <1>3 DEF OpensOnce

(* A frame for one stream.                                                  *)
ReadFor(id) ==
    /\ up # << >> /\ up' = Tail(up) /\ id = Head(up).id
    /\ OthersKept(srv, srv', id) /\ srv'.sendW = srv.sendW /\ srv'.out = srv.out
    /\ UNCHANGED <<down, peer>>
    /\ \A k \in StreamIds : k # id => work'[k] = work[k]
    /\ \A i, j \in DOMAIN ready' : ready'[i].id = ready'[j].id => i = j
    /\ \A i \in DOMAIN ready' :
          IF ready'[i].id # id THEN \E j \in DOMAIN ready : ready[j] = ready'[i]
          ELSE /\ work'[id].at = "none" /\ id \notin DOMAIN srv'.pending
               /\ IF ready'[i].detached THEN id \notin Live' /\ ~Mentions(Sending, id)
                  ELSE id \in Live' /\ ~srv'.streams[id].open
    /\ id \in StreamIds => Consistent(srv', work'[id], id)
    /\ id \in DOMAIN srv'.pending => id \in StreamIds

LEMMA ReadForKeeps ==
    ASSUME H2Typed, H2Typed', Orderly, ~ended, NEW id, ReadFor(id)
    PROVE  Orderly'
<1> USE DEF Orderly
<1>1. Sending' = Sending
  BY DEF ReadFor, Sending
<1>2. \A k : k # id =>
         /\ k \in Live' <=> k \in Live
         /\ k \in Live => srv'.streams[k] = srv.streams[k]
         /\ k \in DOMAIN srv'.pending <=> k \in DOMAIN srv.pending
         /\ k \in StreamIds => work'[k] = work[k]
  BY DEF ReadFor, OthersKept, Live
<1>3. \A k : k # id /\ Listed(k)' => Listed(k)
  BY DEF ReadFor, Listed
<1>4. OpensOnce'
  <2>1. ASSUME NEW k \in StreamIds, k # id, Untouched(k) PROVE Untouched(k)'
    BY <1>1, <1>2, <1>3, <2>1 DEF Untouched
  <2> QED
    BY <2>1, FrameReadKeeps DEF ReadFor
<1>5. AnsweredOnce'
  <2>1. ASSUME NEW i \in DOMAIN ready', NEW k, k = ready'[i].id
        PROVE  /\ work'[k].at = "none" /\ k \notin DOMAIN srv'.pending
               /\ IF ready'[i].detached THEN k \notin Live' /\ ~Mentions(Sending', k)
                  ELSE k \in Live' /\ ~srv'.streams[k].open
    <3>1. CASE k = id
      BY <1>1, <2>1, <3>1 DEF ReadFor
    <3>2. CASE k # id
      <4>1. PICK j \in DOMAIN ready : ready[j] = ready'[i]
        BY <2>1, <3>2 DEF ReadFor
      <4>2. k \in StreamIds
        BY <2>1, <4>1, RequestFacts DEF H2Typed
      <4>3. /\ work[k].at = "none" /\ k \notin DOMAIN srv.pending
            /\ IF ready[j].detached THEN k \notin Live /\ ~Mentions(Sending, k)
               ELSE k \in Live /\ ~srv.streams[k].open
        BY <2>1, <4>1 DEF AnsweredOnce
      <4> QED
        BY <1>1, <1>2, <3>2, <4>1, <4>2, <4>3
    <3> QED
      BY <3>1, <3>2
  <2>2. ASSUME NEW k \in StreamIds
        PROVE  /\ work'[k].at # "none" => k \notin DOMAIN srv'.pending
               /\ (work'[k].at # "none" \/ k \in DOMAIN srv'.pending) /\ k \in Live'
                     => ~srv'.streams[k].open \/ srv'.streams[k].streaming
    <3>1. CASE k = id
      BY <3>1 DEF Consistent, Live, ReadFor
    <3>2. CASE k # id
      BY <1>2, <3>2 DEF AnsweredOnce
    <3> QED
      BY <3>1, <3>2
  <2>3. ASSUME NEW k \in DOMAIN srv'.pending PROVE k \in Live'
    <3>1. CASE k = id
      BY <2>3, <3>1 DEF Consistent, Live, ReadFor
    <3>2. CASE k # id
      BY <1>2, <2>3, <3>2 DEF AnsweredOnce
    <3> QED
      BY <3>1, <3>2
  <2>4. \A i, j \in DOMAIN ready' : ready'[i].id = ready'[j].id => i = j
    BY DEF ReadFor
  <2> QED
    BY <2>1, <2>2, <2>3, <2>4 DEF AnsweredOnce
<1>6. NoIdleWindow'
  <2> SUFFICES ASSUME NEW k \in DOMAIN srv'.pending
               PROVE  srv'.sendW <= 0 \/ srv'.streams[k].sendW <= 0
    BY DEF NoIdleWindow
  <2>1. CASE k = id
    BY <2>1 DEF Consistent, ReadFor
  <2>2. CASE k # id
    <3>1. k \in DOMAIN srv.pending /\ k \in Live
      BY <1>2, <2>2 DEF AnsweredOnce
    <3>2. (srv.sendW <= 0 \/ srv.streams[k].sendW <= 0) /\ srv'.streams[k] = srv.streams[k]
      BY <1>2, <2>2, <3>1 DEF NoIdleWindow
    <3> QED
      BY <3>2 DEF ReadFor
  <2> QED
    BY <2>1, <2>2
<1> QED
  BY <1>4, <1>5, <1>6

(* A frame that opens a window: the pending responses go on.                *)
LEMMA DrainKeeps ==
    ASSUME H2Core, ~ended, UNCHANGED plan, up # << >>, up' = Tail(up),
           NEW s \in SrvStates, DOMAIN s.streams = Live, s.pending = srv.pending, s.out = srv.out,
           s.recvW = srv.recvW,
           \A k \in Live : s.streams[k].open = srv.streams[k].open
                           /\ s.streams[k].streaming = srv.streams[k].streaming,
           srv' \in Drained(s),
           UNCHANGED <<ready, dispatching, batchCredit, unread, credits, work, ended, down, peer>>
    PROVE  H2Core'
<1> USE DEF H2Core
<1>1. DOMAIN s.pending \in SUBSET DOMAIN s.streams
  BY DEF Orderly, AnsweredOnce
<1>2. DrainedOf(s, srv', DOMAIN s.pending)
  BY <1>1, DrainedFacts
<1>3. PICK t : t = srv'
  OBVIOUS
<1>4. /\ t \in SrvStates /\ t.recvW = srv.recvW
      /\ DOMAIN t.streams \in SUBSET Live
      /\ \A k \in DOMAIN t.streams : /\ t.streams[k].open = srv.streams[k].open
                                     /\ t.streams[k].streaming = srv.streams[k].streaming
      /\ \A k \in DOMAIN t.pending :
            /\ k \in DOMAIN srv.pending /\ k \in DOMAIN t.streams
            /\ t.sendW <= 0 \/ t.streams[k].sendW <= 0
      /\ \A k : k \notin DOMAIN srv.pending =>
            /\ k \in DOMAIN t.streams <=> k \in Live
            /\ Mentions(t.out, k) <=> Mentions(srv.out, k)
  <2>1. DrainedOf(s, t, DOMAIN s.pending)
    BY <1>2, <1>3
  <2>2. \A k \in DOMAIN t.streams : k \in Live /\ SameBody(s, t, k)
    BY <2>1 DEF DrainedOf, Charged
  <2> QED
    BY <2>1, <2>2 DEF DrainedOf, Charged, SameBody
<1>5. H2Typed' /\ CreditConserved'
  <2>1. up' \in Seq(UpFrames)
    BY FirstFrame
  <2> QED
    BY <1>3, <1>4, <2>1 DEF H2Typed, CreditConserved
<1>6. \A k : k \notin DOMAIN srv.pending => (Mentions(Sending', k) <=> Mentions(Sending, k))
  <2>1. down' \in Seq(DownFrames) /\ srv'.out \in Seq(DownFrames)
    BY <1>5, SrvFields DEF H2Typed
  <2>2. PICK o \in Seq(DownFrames) : o = t.out
    BY <1>3, <2>1
  <2>3. \A k : Mentions(down' \o o, k) <=> Mentions(down', k) \/ Mentions(o, k)
    BY <2>1, MentionsConcat
  <2>4. Sending' = down' \o o /\ down' = down
    BY <1>3, <2>2 DEF Sending
  <2> QED
    BY <1>4, <2>2, <2>3, <2>4, SendingFacts
<1>7. Live' = DOMAIN t.streams /\ \A k : Listed(k)' <=> Listed(k)
  BY <1>3 DEF Live, Listed
<1>8. OpensOnce'
  <2>1. ASSUME NEW k \in StreamIds, Untouched(k) PROVE Untouched(k)'
    BY <1>3, <1>4, <1>6, <1>7, <2>1 DEF Untouched
  <2> QED
    BY <2>1, FrameReadKeeps DEF Orderly
<1>9. AnsweredOnce'
  <2>1. ASSUME NEW i \in DOMAIN ready, NEW k, k = ready[i].id
        PROVE  /\ work[k].at = "none" /\ k \notin DOMAIN t.pending
               /\ IF ready[i].detached THEN k \notin DOMAIN t.streams /\ ~Mentions(Sending', k)
                  ELSE k \in DOMAIN t.streams /\ ~t.streams[k].open
    <3>1. /\ work[k].at = "none" /\ k \notin DOMAIN srv.pending
          /\ IF ready[i].detached THEN k \notin Live /\ ~Mentions(Sending, k)
             ELSE k \in Live /\ ~srv.streams[k].open
      BY <2>1 DEF Orderly, AnsweredOnce
    <3> QED
      BY <1>4, <1>6, <3>1
  <2>2. ASSUME NEW k \in StreamIds
        PROVE  /\ work[k].at # "none" => k \notin DOMAIN t.pending
               /\ (work[k].at # "none" \/ k \in DOMAIN t.pending) /\ k \in DOMAIN t.streams
                     => ~t.streams[k].open \/ t.streams[k].streaming
    BY <1>4 DEF Orderly, AnsweredOnce
  <2>3. \A i, j \in DOMAIN ready : ready[i].id = ready[j].id => i = j
    BY DEF Orderly, AnsweredOnce
  <2> QED
    BY <1>3, <1>4, <1>7, <2>1, <2>2, <2>3 DEF AnsweredOnce
<1>10. NoIdleWindow'
  BY <1>3, <1>4 DEF NoIdleWindow
<1> QED
  BY <1>5, <1>8, <1>9, <1>10 DEF Orderly

(* The session after SETTINGS, before the pending responses go on.          *)
Settled(s, n) ==
    [s EXCEPT !.initial = n,
              !.streams = [id \in DOMAIN s.streams |-> [s.streams[id] EXCEPT !.sendW = @ + n - s.initial]]]

LEMMA SettledFacts ==
    ASSUME NEW s \in SrvStates, NEW n \in Nat
    PROVE  LET t == Settled(s, n)
           IN /\ t \in SrvStates /\ t.initial = n /\ t.sendW = s.sendW /\ t.recvW = s.recvW
              /\ t.pending = s.pending /\ t.out = s.out /\ DOMAIN t.streams = DOMAIN s.streams
              /\ \A k \in DOMAIN s.streams :
                    /\ t.streams[k].sendW = s.streams[k].sendW + n - s.initial
                    /\ SameBody(s, t, k)
<1> DEFINE t == Settled(s, n)
<1>1. /\ s.initial \in Int /\ s.streams \in [DOMAIN s.streams -> StreamStates]
      /\ DOMAIN s.streams \in SUBSET StreamIds /\ n \in Int
  BY SrvFields, MapFacts
<1>2. PICK x : x = [id \in DOMAIN s.streams |-> [s.streams[id] EXCEPT !.sendW = @ + n - s.initial]]
  OBVIOUS
<1>3. ASSUME NEW k \in DOMAIN s.streams
      PROVE  /\ x[k] \in StreamStates /\ x[k].sendW = s.streams[k].sendW + n - s.initial
             /\ x[k].recvW = s.streams[k].recvW /\ x[k].open = s.streams[k].open
             /\ x[k].streaming = s.streams[k].streaming
  <2>1. PICK e \in StreamStates : e = s.streams[k]
    BY <1>1
  <2>2. e.sendW \in Int
    BY <2>1 DEF StreamStates
  <2>3. PICK v \in Int : v = e.sendW + n - s.initial
    BY <1>1, <2>2
  <2>4. x[k] = [e EXCEPT !.sendW = v]
    <3>1. x[k] = [e EXCEPT !.sendW = e.sendW + n - s.initial]
      BY <1>2, <2>1 DEF StreamStates
    <3> QED
      BY <2>3, <3>1
  <2>5. x[k] \in StreamStates /\ x[k].sendW = v /\ x[k].recvW = e.recvW /\ x[k].open = e.open
        /\ x[k].streaming = e.streaming
    BY <2>1, <2>3, <2>4 DEF StreamStates
  <2> QED
    BY <2>1, <2>3, <2>5
<1>4. DOMAIN x = DOMAIN s.streams /\ x \in Maps(StreamStates)
  <2>1. x = [k \in DOMAIN s.streams |-> x[k]] /\ DOMAIN x = DOMAIN s.streams
    BY <1>2
  <2>2. x \in [DOMAIN s.streams -> StreamStates]
    BY <1>3, <2>1
  <2> QED
    BY <1>1, <2>1, <2>2, MapFacts
<1>5. t = [s EXCEPT !.initial = n, !.streams = x]
  BY <1>2 DEF Settled
<1> HIDE DEF t
<1>6. /\ t \in SrvStates /\ t.initial = n /\ t.sendW = s.sendW /\ t.recvW = s.recvW
      /\ t.pending = s.pending /\ t.out = s.out /\ t.streams = x
  <2> HIDE DEF DownFrames, Maps, StreamStates
  <2> QED
    BY <1>1, <1>4, <1>5 DEF SrvStates
<1> QED
  BY <1>3, <1>4, <1>6 DEF t, SameBody

LEMMA OnSettingsKeeps ==
    ASSUME H2Core, ~ended, UNCHANGED plan, up # << >>, up' = Tail(up), OnSettings(Head(up)),
           UNCHANGED <<dispatching, batchCredit, credits, down, peer>>
    PROVE  H2Core'
<1>1. PICK f : f = Head(up)
  OBVIOUS
<1>2. f.n \in Nat /\ srv \in SrvStates
  BY <1>1, FirstFrame DEF H2Core, H2Typed, UpFrames, Frames
<1>3. PICK s : s = Settled(srv, f.n)
  OBVIOUS
<1>4. srv' \in Drained(s) /\ UNCHANGED <<ready, unread, work, ended>>
  BY <1>1, <1>3 DEF OnSettings, Settled, Live
<1>5. /\ s \in SrvStates /\ s.recvW = srv.recvW /\ s.pending = srv.pending /\ s.out = srv.out
      /\ DOMAIN s.streams = Live
      /\ \A k \in Live : SameBody(srv, s, k)
  BY <1>2, <1>3, SettledFacts DEF Live
<1>6. \A k \in Live : s.streams[k].open = srv.streams[k].open
                      /\ s.streams[k].streaming = srv.streams[k].streaming
  BY <1>5 DEF SameBody
<1> QED
  BY <1>4, <1>5, <1>6, DrainKeeps

(* The session after WINDOW_UPDATE, before the pending responses go on.     *)
Widened(s, f) ==
    IF f.id = 0 THEN [s EXCEPT !.sendW = @ + f.n]
    ELSE IF f.id \in DOMAIN s.streams THEN [s EXCEPT !.streams[f.id].sendW = @ + f.n]
    ELSE s

LEMMA WidenedFacts ==
    ASSUME NEW s \in SrvStates, NEW f \in UpFrames
    PROVE  LET t == Widened(s, f)
           IN /\ t \in SrvStates /\ t.initial = s.initial /\ t.recvW = s.recvW
              /\ t.sendW = s.sendW + (IF f.id = 0 THEN f.n ELSE 0)
              /\ t.pending = s.pending /\ t.out = s.out /\ DOMAIN t.streams = DOMAIN s.streams
              /\ \A k \in DOMAIN s.streams :
                    /\ t.streams[k].sendW = s.streams[k].sendW + (IF k = f.id THEN f.n ELSE 0)
                    /\ SameBody(s, t, k)
<1> DEFINE t == Widened(s, f)
<1>1. /\ s.sendW \in Int /\ s.streams \in [DOMAIN s.streams -> StreamStates]
      /\ DOMAIN s.streams \in SUBSET StreamIds /\ f.n \in Int /\ f.id \in Nat /\ 0 \notin DOMAIN s.streams
  BY SrvFields, MapFacts, H2Assumption DEF UpFrames, Frames
<1>2. \A k \in DOMAIN s.streams : s.streams[k].sendW \in Int
  BY <1>1 DEF StreamStates
<1>3. CASE f.id = 0
  <2>1. PICK v \in Int : v = s.sendW + f.n
    BY <1>1
  <2>2. t = [s EXCEPT !.sendW = v]
    BY <1>3, <2>1 DEF Widened
  <2> HIDE DEF t
  <2>3. /\ t \in SrvStates /\ t.initial = s.initial /\ t.recvW = s.recvW /\ t.sendW = v
        /\ t.pending = s.pending /\ t.out = s.out /\ t.streams = s.streams
    <3> HIDE DEF DownFrames, Maps, StreamStates
    <3> QED
      BY <2>1, <2>2 DEF SrvStates
  <2>4. \A k \in DOMAIN s.streams :
           /\ t.streams[k].sendW = s.streams[k].sendW + (IF k = f.id THEN f.n ELSE 0)
           /\ SameBody(s, t, k)
    BY <1>1, <1>2, <1>3, <2>3 DEF SameBody
  <2> QED
    BY <1>3, <2>1, <2>3, <2>4 DEF t
<1>4. CASE f.id # 0 /\ f.id \in DOMAIN s.streams
  <2>1. PICK id \in DOMAIN s.streams : id = f.id
    BY <1>4
  <2>2. PICK e \in StreamStates : e = s.streams[id]
    BY <1>1, <2>1
  <2>3. PICK v \in Int : v = e.sendW + f.n
    BY <1>1, <1>2, <2>1, <2>2
  <2>4. PICK d : d = [e EXCEPT !.sendW = v]
    OBVIOUS
  <2>5. d \in StreamStates /\ d.sendW = v /\ d.recvW = e.recvW /\ d.open = e.open /\ d.streaming = e.streaming
    BY <2>2, <2>3, <2>4 DEF StreamStates
  <2>6. PICK x : x = [s.streams EXCEPT ![id] = d]
    OBVIOUS
  <2>7. /\ x \in Maps(StreamStates) /\ DOMAIN x = DOMAIN s.streams /\ x[id] = d
        /\ \A k \in DOMAIN s.streams : k # id => x[k] = s.streams[k]
    <3>1. /\ x \in [DOMAIN s.streams -> StreamStates] /\ DOMAIN x = DOMAIN s.streams /\ x[id] = d
          /\ \A k \in DOMAIN s.streams : k # id => x[k] = s.streams[k]
      BY <1>1, <2>1, <2>5, <2>6
    <3> QED
      BY <1>1, <3>1, MapFacts
  <2>8. t = [s EXCEPT !.streams = x]
    <3>1. t = [s EXCEPT !.streams[id].sendW = @ + f.n]
      BY <1>4, <2>1 DEF Widened
    <3> QED
      BY <2>1, <2>2, <2>3, <2>4, <2>6, <3>1 DEF SrvStates, StreamStates
  <2> HIDE DEF t
  <2>9. /\ t \in SrvStates /\ t.initial = s.initial /\ t.recvW = s.recvW /\ t.sendW = s.sendW
        /\ t.pending = s.pending /\ t.out = s.out /\ t.streams = x
    <3> HIDE DEF DownFrames, Maps, StreamStates
    <3> QED
      BY <2>7, <2>8 DEF SrvStates
  <2>10. \A k \in DOMAIN s.streams :
           /\ t.streams[k].sendW = s.streams[k].sendW + (IF k = f.id THEN f.n ELSE 0)
           /\ SameBody(s, t, k)
    BY <1>1, <1>2, <2>1, <2>2, <2>3, <2>5, <2>7, <2>9 DEF SameBody
  <2> QED
    BY <1>1, <1>4, <2>7, <2>9, <2>10 DEF t
<1>5. CASE f.id # 0 /\ f.id \notin DOMAIN s.streams
  <2>1. t = s
    BY <1>5 DEF Widened
  <2> HIDE DEF t
  <2> QED
    BY <1>1, <1>2, <1>5, <2>1 DEF t, SameBody
<1> QED
  BY <1>3, <1>4, <1>5

LEMMA OnWindowUpdateKeeps ==
    ASSUME H2Core, ~ended, UNCHANGED plan, up # << >>, up' = Tail(up), OnWindowUpdate(Head(up)),
           UNCHANGED <<dispatching, batchCredit, credits, down, peer>>
    PROVE  H2Core'
<1>1. PICK f : f = Head(up)
  OBVIOUS
<1>2. f \in UpFrames /\ srv \in SrvStates
  BY <1>1, FirstFrame DEF H2Core, H2Typed
<1>3. PICK s : s = Widened(srv, f)
  OBVIOUS
<1>4. srv' \in Drained(s) /\ UNCHANGED <<ready, unread, work, ended>>
  BY <1>1, <1>3 DEF OnWindowUpdate, Widened, Live
<1>5. /\ s \in SrvStates /\ s.recvW = srv.recvW /\ s.pending = srv.pending /\ s.out = srv.out
      /\ DOMAIN s.streams = Live
      /\ \A k \in Live : SameBody(srv, s, k)
  BY <1>2, <1>3, WidenedFacts DEF Live
<1>6. \A k \in Live : s.streams[k].open = srv.streams[k].open
                      /\ s.streams[k].streaming = srv.streams[k].streaming
  BY <1>5 DEF SameBody
<1> QED
  BY <1>4, <1>5, <1>6, DrainKeeps

(* The stream of a request with a body.                                     *)
Started(s, id, e) == [s EXCEPT !.streams = With(@, id, e)]

LEMMA StartedFacts ==
    ASSUME NEW s \in SrvStates, NEW id \in StreamIds, NEW e \in StreamStates
    PROVE  LET t == Started(s, id, e)
           IN /\ t \in SrvStates /\ t.initial = s.initial /\ t.sendW = s.sendW /\ t.recvW = s.recvW
              /\ t.pending = s.pending /\ t.out = s.out /\ OthersKept(s, t, id)
              /\ DOMAIN t.streams = DOMAIN s.streams \cup {id} /\ t.streams[id] = e
<1> DEFINE t == Started(s, id, e)
<1>1. s.streams \in Maps(StreamStates)
  BY SrvFields
<1>2. PICK x : x = With(s.streams, id, e)
  OBVIOUS
<1>3. /\ x \in Maps(StreamStates) /\ DOMAIN x = DOMAIN s.streams \cup {id} /\ x[id] = e
      /\ \A k \in DOMAIN s.streams : k # id => x[k] = s.streams[k]
  <2>1. /\ With(s.streams, id, e) \in Maps(StreamStates)
        /\ DOMAIN With(s.streams, id, e) = DOMAIN s.streams \cup {id}
        /\ With(s.streams, id, e)[id] = e
        /\ \A k \in DOMAIN s.streams : k # id => With(s.streams, id, e)[k] = s.streams[k]
    BY <1>1, MapFacts DEF With
  <2> QED
    BY <1>2, <2>1
<1>4. t = [s EXCEPT !.streams = x]
  BY <1>2 DEF Started
<1> HIDE DEF t
<1>5. /\ t \in SrvStates /\ t.initial = s.initial /\ t.sendW = s.sendW /\ t.recvW = s.recvW
      /\ t.streams = x /\ t.pending = s.pending /\ t.out = s.out
  <2> HIDE DEF DownFrames, Maps, StreamStates
  <2> QED
    BY <1>3, <1>4 DEF SrvStates
<1>6. OthersKept(s, t, id)
  BY <1>3, <1>5 DEF OthersKept
<1> QED
  BY <1>3, <1>5, <1>6 DEF t

LEMMA QueueRequest ==
    ASSUME NEW q \in Seq(Requests), NEW r \in Requests, NEW t, t = Append(q, r),
           \A i, j \in DOMAIN q : q[i].id = q[j].id => i = j, \A i \in DOMAIN q : q[i].id # r.id
    PROVE  /\ t \in Seq(Requests)
           /\ \A i, j \in DOMAIN t : t[i].id = t[j].id => i = j
           /\ \A i \in DOMAIN t : \/ i \in DOMAIN q /\ t[i] = q[i] /\ t[i].id # r.id
                                  \/ t[i] = r
<1>1. /\ t \in Seq(Requests) /\ Len(q) \in Nat /\ DOMAIN q = 1 .. Len(q) /\ DOMAIN t = 1 .. (Len(q) + 1)
      /\ \A i \in DOMAIN q : t[i] = q[i]
      /\ t[Len(q) + 1] = r
  <2> HIDE DEF Requests
  <2> QED
    OBVIOUS
<1>2. \A i \in DOMAIN t : i \in DOMAIN q \/ i = Len(q) + 1
  BY <1>1
<1> QED
  BY <1>1, <1>2

(* What is known of a stream when its HEADERS arrive.                       *)
OpensStream(f, s, e) ==
    /\ e \in StreamStates /\ e.open /\ s = Started(srv, f.id, e)
    /\ e.sendW = srv.initial /\ e.recvW = Window
    /\ IF e.streaming THEN At(f.id, "handling") ELSE UNCHANGED work

LEMMA OnHeadersIs ==
    ASSUME H2Typed, NEW f \in UpFrames, OnHeaders(f)
    PROVE  \/ /\ f.end /\ ready' = Append(ready, [id |-> f.id, detached |-> TRUE])
              /\ UNCHANGED <<srv, work, unread, ended>>
           \/ /\ ~f.end /\ UNCHANGED <<ready, unread, ended>>
              /\ \E e : OpensStream(f, srv', e)
<1>1. CASE f.end
  BY <1>1 DEF OnHeaders
<1>2. CASE ~f.end
  <2>1. UNCHANGED <<ready, unread, ended>>
    BY <1>2 DEF OnHeaders
  <2>2. PICK route \in plan.routes :
           /\ srv' = [srv EXCEPT !.streams = With(@, f.id,
                         [NewStream(srv, TRUE) EXCEPT !.streaming = route = "streaming"])]
           /\ IF route = "streaming" THEN At(f.id, "handling") ELSE UNCHANGED work
    BY <1>2 DEF OnHeaders
  <2>3. PICK e : e = [NewStream(srv, TRUE) EXCEPT !.streaming = route = "streaming"]
    OBVIOUS
  <2>4. srv' = Started(srv, f.id, e)
    BY <2>2, <2>3, Zenon DEF Started
  <2>5. e \in StreamStates /\ e.open /\ e.sendW = srv.initial /\ e.recvW = Window
        /\ e.streaming = (route = "streaming")
    <3>1. srv.initial \in Int /\ Window \in Int
      BY H2Assumption, SrvFields DEF H2Typed
    <3>2. PICK b \in BOOLEAN : b = (route = "streaming")
      OBVIOUS
    <3>3. PICK d : d = NewStream(srv, TRUE)
      OBVIOUS
    <3>4. d \in StreamStates /\ d.open = TRUE /\ d.sendW = srv.initial /\ d.recvW = Window
      BY <3>1, <3>3 DEF NewStream, StreamStates
    <3>5. e = [d EXCEPT !.streaming = b]
      BY <2>3, <3>2, <3>3
    <3>6. e \in StreamStates /\ e.open = TRUE /\ e.sendW = srv.initial /\ e.recvW = Window /\ e.streaming = b
      BY <3>2, <3>4, <3>5 DEF StreamStates
    <3> QED
      BY <3>2, <3>6
  <2>6. IF e.streaming THEN At(f.id, "handling") ELSE UNCHANGED work
    BY <2>2, <2>5
  <2>7. OpensStream(f, srv', e)
    BY <2>4, <2>5, <2>6 DEF OpensStream
  <2> QED
    BY <1>2, <2>1, <2>7
<1> QED
  BY <1>1, <1>2

LEMMA OnHeadersKeeps ==
    ASSUME H2Core, ~ended, UNCHANGED plan, up # << >>, up' = Tail(up),
           Head(up).type = "HEADERS", OnHeaders(Head(up)),
           UNCHANGED <<dispatching, batchCredit, credits, down, peer>>
    PROVE  H2Core'
<1> USE DEF H2Core
<1>1. PICK f : f = Head(up)
  OBVIOUS
<1>2. PICK id : id = f.id
  OBVIOUS
<1>3. f \in UpFrames /\ id \in StreamIds /\ Untouched(id) /\ up' \in Seq(UpFrames)
  BY <1>1, <1>2, FirstFrame
<1>4. /\ id \notin Live /\ id \notin DOMAIN srv.pending /\ work[id].at = "none" /\ ~Mentions(Sending, id)
      /\ \A i \in DOMAIN ready : ready[i].id # id
      /\ srv \in SrvStates /\ work \in [StreamIds -> WorkStates] /\ ready \in Seq(Requests)
  BY <1>3 DEF Untouched, Listed, H2Typed
<1>5. \A i, j \in DOMAIN ready : ready[i].id = ready[j].id => i = j
  BY DEF Orderly, AnsweredOnce
<1>6. CASE f.end /\ ready' = Append(ready, [id |-> f.id, detached |-> TRUE]) /\ UNCHANGED <<srv, work, unread, ended>>
  <2>1. PICK r : r = [id |-> id, detached |-> TRUE]
    OBVIOUS
  <2>2. r \in Requests /\ r.id = id /\ r.detached
    BY <1>3, <2>1 DEF Requests
  <2>3. ready' = Append(ready, r)
    BY <1>2, <1>6, <2>1
  <2>4. /\ ready' \in Seq(Requests)
        /\ \A i, j \in DOMAIN ready' : ready'[i].id = ready'[j].id => i = j
        /\ \A i \in DOMAIN ready' : \/ i \in DOMAIN ready /\ ready'[i] = ready[i] /\ ready'[i].id # r.id
                                    \/ ready'[i] = r
    <3>1. PICK q : q = ready'
      OBVIOUS
    <3>2. /\ q \in Seq(Requests)
          /\ \A i, j \in DOMAIN q : q[i].id = q[j].id => i = j
          /\ \A i \in DOMAIN q : \/ i \in DOMAIN ready /\ q[i] = ready[i] /\ q[i].id # r.id
                                 \/ q[i] = r
      BY <1>4, <1>5, <2>2, <2>3, <3>1, QueueRequest
    <3> QED
      BY <3>1, <3>2
  <2>5. H2Typed' /\ CreditConserved'
    BY <1>3, <1>6, <2>4 DEF H2Typed, CreditConserved
  <2>6. ReadFor(id)
    <3>1. OthersKept(srv, srv', id) /\ srv' = srv /\ work' = work
      BY <1>4, <1>6, ChargedSelf
    <3>2. ASSUME NEW i \in DOMAIN ready'
          PROVE  IF ready'[i].id # id THEN \E j \in DOMAIN ready : ready[j] = ready'[i]
                 ELSE /\ work'[id].at = "none" /\ id \notin DOMAIN srv'.pending
                      /\ IF ready'[i].detached THEN id \notin Live' /\ ~Mentions(Sending, id)
                         ELSE id \in Live' /\ ~srv'.streams[id].open
      <4>1. CASE ready'[i].id # id
        BY <2>2, <2>4, <4>1
      <4>2. CASE ready'[i].id = id
        <5>1. ready'[i] = r
          BY <2>2, <2>4, <4>2
        <5> QED
          BY <1>4, <2>2, <3>1, <4>2, <5>1 DEF Live
      <4> QED
        BY <4>1, <4>2
    <3>3. Consistent(srv', work'[id], id)
      BY <1>4, <3>1 DEF Consistent
    <3> QED
      BY <1>1, <1>2, <1>3, <2>4, <3>1, <3>2, <3>3 DEF ReadFor
  <2> QED
    BY <2>5, <2>6, ReadForKeeps
<1>7. ASSUME UNCHANGED <<ready, unread, ended>>, NEW e, OpensStream(f, srv', e)
      PROVE  H2Core'
  <2>1. PICK t : t = srv'
    OBVIOUS
  <2>2. /\ t \in SrvStates /\ t.sendW = srv.sendW /\ t.recvW = srv.recvW /\ t.pending = srv.pending
        /\ t.out = srv.out /\ OthersKept(srv, t, id) /\ DOMAIN t.streams = Live \cup {id} /\ t.streams[id] = e
    BY <1>2, <1>3, <1>4, <1>7, <2>1, StartedFacts DEF OpensStream, Live
  <2>3. /\ work' \in [StreamIds -> WorkStates]
        /\ \A k \in StreamIds : k # id => work'[k] = work[k]
        /\ ~e.streaming => work'[id].at = "none"
    <3>1. CASE e.streaming
      <4>1. At(id, "handling") /\ "handling" \in WorkPlaces
        BY <1>2, <1>7, <3>1 DEF OpensStream, WorkPlaces
      <4> QED
        BY <1>3, <3>1, <4>1, AtFacts
    <3>2. CASE ~e.streaming
      BY <1>4, <1>7, <3>2 DEF OpensStream
    <3> QED
      BY <3>1, <3>2
  <2>4. H2Typed' /\ CreditConserved'
    BY <1>3, <1>7, <2>1, <2>2, <2>3 DEF H2Typed, CreditConserved
  <2>5. ReadFor(id)
    <3>1. Consistent(srv', work'[id], id)
      BY <1>4, <2>1, <2>2, <2>3 DEF Consistent
    <3>2. ready' = ready
      BY <1>7
    <3> QED
      BY <1>1, <1>2, <1>3, <1>4, <1>5, <2>1, <2>2, <2>3, <3>1, <3>2 DEF ReadFor
  <2> QED
    BY <1>7, <2>4, <2>5, ReadForKeeps
<1> QED
  BY <1>1, <1>3, <1>6, <1>7, OnHeadersIs

LEMMA OnResetKeeps ==
    ASSUME H2Core, ~ended, UNCHANGED plan, up # << >>, up' = Tail(up), OnReset(Head(up)),
           UNCHANGED <<dispatching, batchCredit, credits, down, peer>>
    PROVE  H2Core'
<1> USE DEF H2Core
<1>1. PICK id : id = Head(up).id
  OBVIOUS
<1>2. PICK y : y = Without(srv.pending, id)
  OBVIOUS
<1>3. PICK t : t = RetiredState(srv, id, y)
  OBVIOUS
<1>4. srv' = t /\ ready' = Erased(ready, id) /\ UNCHANGED <<unread, work, ended>>
  BY <1>1, <1>2, <1>3 DEF OnReset, RetiredState
<1>5. /\ srv \in SrvStates /\ ready \in Seq(Requests) /\ up' \in Seq(UpFrames)
      /\ \A i, j \in DOMAIN ready : ready[i].id = ready[j].id => i = j
  BY FirstFrame DEF H2Typed, Orderly, AnsweredOnce
<1>6. /\ y \in Maps(Nat) /\ DOMAIN y = DOMAIN srv.pending \ {id}
  <2>1. srv.pending \in Maps(Nat)
    BY <1>5, SrvFields
  <2> QED
    BY <1>2, <2>1, MapFacts DEF Without, Restrict
<1>7. /\ Charged(srv, t) /\ OthersKept(srv, t, id) /\ t.pending = y /\ t.out = srv.out /\ t.sendW = srv.sendW
      /\ DOMAIN t.streams = Live \ {id}
  BY <1>2, <1>3, <1>5, RetireFacts DEF Live
<1>8. PICK q : q = ready'
  OBVIOUS
<1>9. /\ q \in Seq(Requests)
      /\ \A i \in DOMAIN q : q[i].id # id /\ \E j \in DOMAIN ready : ready[j] = q[i]
      /\ \A i, j \in DOMAIN q : q[i].id = q[j].id => i = j
  BY <1>4, <1>5, <1>8, ErasedFacts
<1>10. H2Typed' /\ CreditConserved'
  <2>1. t \in SrvStates /\ t.recvW = srv.recvW
    BY <1>7 DEF Charged
  <2> QED
    BY <1>4, <1>5, <1>8, <1>9, <2>1 DEF H2Typed, CreditConserved
<1>11. ReadFor(id)
  <2>1. Consistent(srv', work'[id], id) /\ id \notin DOMAIN srv'.pending
    BY <1>4, <1>6, <1>7 DEF Consistent
  <2>2. work' = work /\ OthersKept(srv, srv', id) /\ srv'.sendW = srv.sendW /\ srv'.out = srv.out
    BY <1>4, <1>7
  <2> QED
    BY <1>1, <1>8, <1>9, <2>1, <2>2 DEF ReadFor
<1> QED
  BY <1>4, <1>10, <1>11, ReadForKeeps

(* What becomes of a stream when DATA arrive.                               *)
DataRead(s, f, e) == [s EXCEPT !.recvW = @ - f.n, !.streams[f.id] = e]

LEMMA DataReadFacts ==
    ASSUME NEW s \in SrvStates, NEW f \in UpFrames, f.id \in DOMAIN s.streams, NEW e \in StreamStates
    PROVE  LET t == DataRead(s, f, e)
           IN /\ t \in SrvStates /\ t.initial = s.initial /\ t.sendW = s.sendW /\ t.recvW = s.recvW - f.n
              /\ t.pending = s.pending /\ t.out = s.out /\ OthersKept(s, t, f.id)
              /\ DOMAIN t.streams = DOMAIN s.streams /\ t.streams[f.id] = e
<1> DEFINE t == DataRead(s, f, e)
<1>1. /\ s.recvW \in Int /\ s.streams \in [DOMAIN s.streams -> StreamStates]
      /\ DOMAIN s.streams \in SUBSET StreamIds /\ f.n \in Int
  BY SrvFields, MapFacts DEF UpFrames, Frames
<1>2. PICK id \in DOMAIN s.streams : id = f.id
  OBVIOUS
<1>3. PICK v \in Int : v = s.recvW - f.n
  BY <1>1
<1>4. PICK x : x = [s.streams EXCEPT ![id] = e]
  OBVIOUS
<1>5. /\ x \in Maps(StreamStates) /\ DOMAIN x = DOMAIN s.streams /\ x[id] = e
      /\ \A k \in DOMAIN s.streams : k # id => x[k] = s.streams[k]
  <2>1. /\ x \in [DOMAIN s.streams -> StreamStates] /\ DOMAIN x = DOMAIN s.streams /\ x[id] = e
        /\ \A k \in DOMAIN s.streams : k # id => x[k] = s.streams[k]
    BY <1>1, <1>2, <1>4
  <2> QED
    BY <1>1, <2>1, MapFacts
<1>6. t = [s EXCEPT !.recvW = v, !.streams = x]
  <2> HIDE DEF DownFrames, Maps, StreamStates
  <2> QED
    BY <1>2, <1>3, <1>4 DEF DataRead, SrvStates
<1> HIDE DEF t
<1>7. /\ t \in SrvStates /\ t.initial = s.initial /\ t.sendW = s.sendW /\ t.recvW = v
      /\ t.pending = s.pending /\ t.out = s.out /\ t.streams = x
  <2> HIDE DEF DownFrames, Maps, StreamStates
  <2> QED
    BY <1>3, <1>5, <1>6 DEF SrvStates
<1>8. OthersKept(s, t, f.id)
  BY <1>2, <1>5, <1>7 DEF OthersKept
<1> QED
  BY <1>2, <1>3, <1>5, <1>7, <1>8 DEF t

(* DATA that are accepted: e is the stream then.                            *)
TakesData(f, e) ==
    LET old == srv.streams[f.id]
    IN /\ Acceptable(f) /\ srv' = DataRead(srv, f, e) /\ e \in StreamStates
       /\ e.sendW = old.sendW /\ e.recvW = old.recvW - f.n /\ e.open = ~f.end
       /\ old.streaming => e.streaming
       /\ unread' = [unread EXCEPT ![f.id] = @ + f.n]
       /\ ready' = IF f.end /\ ~e.streaming
                   THEN Append(ready, [id |-> f.id, detached |-> FALSE]) ELSE ready
       /\ IF e.streaming /\ ~old.streaming THEN At(f.id, "handling") ELSE UNCHANGED work
       /\ UNCHANGED ended

LEMMA OnDataIs ==
    ASSUME H2Typed, NEW f \in UpFrames, f.type = "DATA", OnData(f)
    PROVE  \/ ended' = TRUE /\ UNCHANGED <<srv, ready, unread, work>>
           \/ \E e : TakesData(f, e)
<1>1. CASE ended' = TRUE /\ UNCHANGED <<srv, ready, unread, work>>
  BY <1>1
<1>2. CASE ~(ended' = TRUE /\ UNCHANGED <<srv, ready, unread, work>>)
  <2>0. Acceptable(f)
    BY <1>2, Zenon DEF OnData
  <2>1. PICK id : id = f.id
    OBVIOUS
  <2>2. id \in DOMAIN srv.streams /\ srv.streams[id] \in StreamStates
    BY <2>0, <2>1, SrvFields, MapFacts DEF H2Typed, Acceptable, Live
  <2>3. PICK old \in StreamStates : old = srv.streams[id]
    BY <2>2
  <2>4. /\ old.recvW \in Int /\ old.streaming \in BOOLEAN /\ f.end \in BOOLEAN /\ f.n \in Int
    BY <2>3 DEF StreamStates, UpFrames, Frames
  <2>5. PICK starts \in BOOLEAN : starts = (~old.streaming /\ unread[id] + f.n > plan.limit)
    OBVIOUS
  <2>6. PICK streaming \in BOOLEAN : streaming = (old.streaming \/ starts)
    BY <2>4, <2>5
  <2>7. PICK v \in Int, o \in BOOLEAN : v = old.recvW - f.n /\ o = ~f.end
    <3>1. old.recvW - f.n \in Int /\ (~f.end) \in BOOLEAN
      BY <2>4
    <3> QED
      BY <3>1, Zenon
  <2>8. PICK e : e = [old EXCEPT !.recvW = v, !.open = o, !.streaming = streaming]
    OBVIOUS
  <2>9. /\ e \in StreamStates /\ e.sendW = old.sendW /\ e.recvW = v /\ e.open = o /\ e.streaming = streaming
    BY <2>3, <2>6, <2>7, <2>8 DEF StreamStates
  <2>10. /\ srv' = [srv EXCEPT !.recvW = @ - f.n,
                       !.streams[id] = [srv.streams[id] EXCEPT
                           !.recvW = @ - f.n, !.open = ~f.end, !.streaming = streaming]]
         /\ unread' = [unread EXCEPT ![id] = @ + f.n]
         /\ ready' = IF f.end /\ ~streaming
                     THEN Append(ready, [id |-> id, detached |-> FALSE]) ELSE ready
         /\ IF starts THEN At(id, "handling") ELSE UNCHANGED work
         /\ ended' = ended
    BY <1>2, <2>1, <2>3, <2>5, <2>6, Zenon DEF OnData
  <2>11. e = [srv.streams[id] EXCEPT !.recvW = @ - f.n, !.open = ~f.end, !.streaming = streaming]
    BY <2>3, <2>7, <2>8 DEF StreamStates
  <2>12. srv' = DataRead(srv, f, e)
    <3>1. srv' = [srv EXCEPT !.recvW = @ - f.n, !.streams[id] = e]
      BY <2>10, <2>11
    <3> QED
      BY <2>1, <3>1, Zenon DEF DataRead
  <2>13. starts <=> e.streaming /\ ~old.streaming
    BY <2>4, <2>5, <2>6, <2>9
  <2>14. TakesData(f, e)
    BY <2>0, <2>1, <2>3, <2>4, <2>6, <2>7, <2>9, <2>10, <2>12, <2>13 DEF TakesData
  <2> QED
    BY <2>14
<1> QED
  BY <1>1, <1>2

(* The body of a stream that is open is not answered, unless it is streamed. *)
LEMMA OpenStream ==
    ASSUME H2Core, ~ended, NEW id \in Live, srv.streams[id].open
    PROVE  /\ ~Listed(id) /\ id \in StreamIds
           /\ ~srv.streams[id].streaming => work[id].at = "none" /\ id \notin DOMAIN srv.pending
<1> USE DEF H2Core
<1>1. id \in StreamIds
  BY SrvFields DEF H2Typed, Live
<1>2. ASSUME NEW i \in DOMAIN ready, ready[i].id = id PROVE FALSE
  BY <1>2 DEF Orderly, AnsweredOnce
<1> QED
  BY <1>1, <1>2 DEF Listed, Orderly, AnsweredOnce

LEMMA OnDataKeeps ==
    ASSUME H2Core, ~ended, UNCHANGED plan, up # << >>, up' = Tail(up),
           Head(up).type = "DATA", OnData(Head(up)),
           UNCHANGED <<dispatching, batchCredit, credits, down, peer>>
    PROVE  H2Core'
<1> USE DEF H2Core
<1>1. PICK f : f = Head(up)
  OBVIOUS
<1>2. PICK id : id = f.id
  OBVIOUS
<1>3. f \in UpFrames /\ f.type = "DATA" /\ id \in StreamIds /\ up' \in Seq(UpFrames)
  BY <1>1, <1>2, FirstFrame
<1>4. CASE ended' = TRUE /\ UNCHANGED <<srv, ready, unread, work>>
  BY <1>3, <1>4 DEF H2Typed, CreditConserved
<1>5. ASSUME NEW e, TakesData(f, e) PROVE H2Core'
  <2>1. PICK old : old = srv.streams[id]
    OBVIOUS
  <2>2. id \in Live /\ old.open
    BY <1>2, <1>5, <2>1 DEF TakesData, Acceptable
  <2>3. /\ \A i \in DOMAIN ready : ready[i].id # id
        /\ ~old.streaming => work[id].at = "none" /\ id \notin DOMAIN srv.pending
    BY <2>1, <2>2, OpenStream DEF Listed
  <2>4. PICK t : t = srv'
    OBVIOUS
  <2>5. /\ e \in StreamStates /\ e.sendW = old.sendW /\ e.open = ~f.end
        /\ old.streaming => e.streaming
        /\ unread' = [unread EXCEPT ![id] = @ + f.n]
        /\ ready' = IF f.end /\ ~e.streaming THEN Append(ready, [id |-> id, detached |-> FALSE]) ELSE ready
        /\ IF e.streaming /\ ~old.streaming THEN At(id, "handling") ELSE UNCHANGED work
        /\ ended' = ended /\ t = DataRead(srv, f, e)
    BY <1>2, <1>5, <2>1, <2>4 DEF TakesData
  <2>6. srv \in SrvStates /\ ready \in Seq(Requests) /\ work \in [StreamIds -> WorkStates] /\ f.n \in Nat
    BY <1>3 DEF H2Typed, UpFrames, Frames
  <2>7. /\ t \in SrvStates /\ t.sendW = srv.sendW /\ t.recvW = srv.recvW - f.n
        /\ t.pending = srv.pending /\ t.out = srv.out /\ OthersKept(srv, t, id)
        /\ DOMAIN t.streams = DOMAIN srv.streams /\ t.streams[id] = e
    BY <1>2, <1>3, <2>2, <2>5, <2>6, DataReadFacts DEF Live
  <2>8. /\ work' \in [StreamIds -> WorkStates]
        /\ \A k \in StreamIds : k # id => work'[k] = work[k]
        /\ ~e.streaming => work'[id].at = "none"
        /\ old.streaming => work' = work
    <3>1. CASE e.streaming /\ ~old.streaming
      <4>1. At(id, "handling") /\ "handling" \in WorkPlaces
        BY <2>5, <3>1 DEF WorkPlaces
      <4> QED
        BY <1>3, <3>1, <4>1, AtFacts
    <3>2. CASE ~(e.streaming /\ ~old.streaming)
      <4>1. work' = work
        BY <2>5, <3>2
      <4> QED
        BY <2>3, <2>5, <2>6, <3>2, <4>1
    <3> QED
      BY <3>1, <3>2
  <2>9. /\ ready' \in Seq(Requests)
        /\ \A i, j \in DOMAIN ready' : ready'[i].id = ready'[j].id => i = j
        /\ \A i \in DOMAIN ready' :
              \/ ready'[i].id # id /\ \E j \in DOMAIN ready : ready[j] = ready'[i]
              \/ ready'[i].id = id /\ ~ready'[i].detached /\ f.end /\ ~e.streaming
    <3>0. \A i, j \in DOMAIN ready : ready[i].id = ready[j].id => i = j
      BY DEF Orderly, AnsweredOnce
    <3>1. CASE f.end /\ ~e.streaming
      <4>1. PICK r : r = [id |-> id, detached |-> FALSE]
        OBVIOUS
      <4>2. r \in Requests /\ r.id = id /\ ~r.detached
        BY <1>3, <4>1 DEF Requests
      <4>3. PICK q : q = ready'
        OBVIOUS
      <4>4. q = Append(ready, r)
        BY <2>5, <3>1, <4>1, <4>3
      <4>5. /\ q \in Seq(Requests)
            /\ \A i, j \in DOMAIN q : q[i].id = q[j].id => i = j
            /\ \A i \in DOMAIN q : \/ i \in DOMAIN ready /\ q[i] = ready[i] /\ q[i].id # r.id
                                   \/ q[i] = r
        BY <2>3, <2>6, <3>0, <4>2, <4>4, QueueRequest
      <4> QED
        BY <3>1, <4>2, <4>3, <4>5
    <3>2. CASE ~(f.end /\ ~e.streaming)
      <4>1. ready' = ready
        BY <2>5, <3>2
      <4> QED
        BY <2>3, <2>6, <3>0, <4>1
    <3> QED
      BY <3>1, <3>2
  <2>10. unread' \in [StreamIds -> Nat] /\ SumFunction(unread') = SumFunction(unread) + f.n
    <3>1. unread \in [StreamIds -> Nat] /\ unread[id] \in Nat
      BY <1>3 DEF H2Typed
    <3>2. /\ unread' \in [StreamIds -> Nat] /\ unread'[id] = unread[id] + f.n
          /\ \A x \in StreamIds : x # id => unread'[x] = unread[x]
      BY <1>3, <2>5, <2>6, <3>1
    <3>3. SumFunction(unread) \in Int /\ SumFunction(unread') = SumFunction(unread) - unread[id] + unread'[id]
      BY <1>3, <3>1, <3>2, SumChange
    <3> QED
      BY <2>6, <3>1, <3>2, <3>3
  <2>11. H2Typed'
    BY <1>3, <2>4, <2>5, <2>7, <2>8, <2>9, <2>10 DEF H2Typed
  <2>12. CreditConserved'
    <3>1. /\ srv.recvW \in Int /\ SumFunction(unread) \in Int /\ SumFunction(credits) \in Int
          /\ batchCredit \in Int /\ f.n \in Int
      BY <2>6, SrvFields, SumType DEF H2Typed
    <3> QED
      BY <2>4, <2>7, <2>10, <3>1 DEF CreditConserved
  <2>13. Consistent(t, work'[id], id)
    <3>1. id \in DOMAIN srv.pending => /\ old.streaming /\ work[id].at = "none"
                                       /\ srv.sendW <= 0 \/ old.sendW <= 0
      BY <1>3, <2>1, <2>3 DEF Orderly, AnsweredOnce, NoIdleWindow
    <3> QED
      BY <2>2, <2>5, <2>7, <2>8, <3>1 DEF Consistent, Live
  <2>14. ReadFor(id)
    <3>1. ASSUME NEW i \in DOMAIN ready'
          PROVE  IF ready'[i].id # id THEN \E j \in DOMAIN ready : ready[j] = ready'[i]
                 ELSE /\ work'[id].at = "none" /\ id \notin DOMAIN srv'.pending
                      /\ IF ready'[i].detached THEN id \notin Live' /\ ~Mentions(Sending, id)
                         ELSE id \in Live' /\ ~srv'.streams[id].open
      <4>1. CASE ready'[i].id # id
        BY <2>9, <4>1
      <4>2. CASE ready'[i].id = id
        <5>1. ~ready'[i].detached /\ f.end /\ ~e.streaming
          BY <2>9, <4>2
        <5>2. ~old.streaming /\ id \notin DOMAIN srv.pending /\ work'[id].at = "none"
          BY <2>3, <2>5, <2>8, <5>1
        <5>3. id \in Live' /\ ~srv'.streams[id].open
          BY <2>2, <2>4, <2>5, <2>7, <5>1 DEF Live
        <5> QED
          BY <2>4, <2>7, <4>2, <5>1, <5>2, <5>3
      <4> QED
        BY <4>1, <4>2
    <3> QED
      BY <1>1, <1>2, <1>3, <2>4, <2>7, <2>8, <2>9, <2>13, <3>1 DEF ReadFor
  <2> QED
    BY <2>5, <2>11, <2>12, <2>14, ReadForKeeps
<1> QED
  BY <1>1, <1>3, <1>4, <1>5, OnDataIs

LEMMA ReceiveKeeps ==
    ASSUME H2Core, ~ended, UNCHANGED plan, Receive
    PROVE  H2Core'
<1>1. /\ up # << >> /\ up' = Tail(up)
      /\ UNCHANGED <<dispatching, batchCredit, credits, down, peer>>
  BY DEF Receive
<1>2. \/ OnSettings(Head(up))
      \/ Head(up).type = "HEADERS" /\ OnHeaders(Head(up))
      \/ Head(up).type = "DATA" /\ OnData(Head(up))
      \/ OnWindowUpdate(Head(up))
      \/ OnReset(Head(up))
  BY DEF Receive
<1> QED
  BY <1>1, <1>2, OnSettingsKeeps, OnHeadersKeeps, OnDataKeeps, OnWindowUpdateKeeps, OnResetKeeps

LEMMA CoreInit == H2Init => H2Core
<1> SUFFICES ASSUME H2Init PROVE H2Core
  OBVIOUS
<1>1. plan \in H2Uses /\ plan.sends \in Nat /\ Window \in Nat
  <2>1. plan \in H2Uses
    BY H2Assumption DEF H2Init
  <2> QED
    BY <2>1, H2Assumption DEF H2Uses
<1>2. PICK e : e = << >>
  OBVIOUS
<1>3. /\ e \in Seq(DownFrames) /\ e \in Seq(UpFrames) /\ e \in Seq(Requests) /\ DOMAIN e = {}
  BY <1>2
<1>4. e \in Maps(StreamStates) /\ e \in Maps(Nat)
  <2>1. e \in [DOMAIN e -> StreamStates] /\ e \in [DOMAIN e -> Nat]
    BY <1>2, <1>3
  <2> QED
    BY <1>3, <2>1, MapFacts
<1>5. srv \in SrvStates /\ srv.recvW = Window /\ srv.streams = e /\ srv.pending = e /\ srv.out = e
  <2>1. srv = [initial |-> Window, sendW |-> Window, recvW |-> Window,
               streams |-> e, pending |-> e, out |-> e]
    BY <1>2 DEF H2Init
  <2> HIDE DEF DownFrames, Maps, StreamStates
  <2> QED
    BY <1>1, <1>3, <1>4, <2>1 DEF SrvStates
<1>6. ready = e /\ up = e /\ down = e
  BY <1>2 DEF H2Init
<1>7. /\ unread \in [StreamIds -> Nat] /\ credits \in [StreamIds -> Nat]
      /\ work \in [StreamIds -> WorkStates] /\ \A k \in StreamIds : work[k].at = "none"
  BY DEF H2Init, WorkStates, WorkPlaces
<1>8. peer \in PeerStates
  <2>1. PICK x : x = [id \in StreamIds |-> [at |-> "idle", sendW |-> Window, recvW |-> Window,
                                            left |-> plan.sends, answered |-> FALSE]]
    OBVIOUS
  <2>2. x \in [StreamIds -> PeerStreams]
    BY <1>1, <2>1 DEF PeerStreams, PeerPlaces
  <2>3. peer = [initial |-> Window, sendW |-> Window, recvW |-> Window, changed |-> FALSE, streams |-> x]
    BY <2>1 DEF H2Init
  <2> QED
    BY <1>1, <2>2, <2>3 DEF PeerStates
<1>9. H2Typed
  BY <1>3, <1>5, <1>6, <1>7, <1>8 DEF H2Typed, H2Init
<1>10. CreditConserved
  <2>1. \A f \in [StreamIds -> Nat] : (\A k \in StreamIds : f[k] = 0) => SumFunction(f) = 0
    <3> SUFFICES ASSUME NEW f \in [StreamIds -> Nat], \A k \in StreamIds : f[k] = 0
                 PROVE  SumFunction(f) = 0
      OBVIOUS
    <3>1. DOMAIN f = StreamIds /\ Numbers(f, StreamIds)
      BY H2Assumption DEF Numbers
    <3>2. SumFunctionOnSet(f, StreamIds) = 0
      BY <3>1, SumZero
    <3> QED
      BY <3>1, <3>2 DEF SumFunction
  <2>2. /\ \A k \in StreamIds : unread[k] = 0 /\ credits[k] = 0
        /\ batchCredit = 0
    BY DEF H2Init
  <2> QED
    BY <1>1, <1>5, <1>7, <2>1, <2>2 DEF CreditConserved
<1>11. ~Mentions(Sending, 0) /\ \A k : ~Mentions(Sending, k) /\ ~Mentions(up, k) /\ ~Listed(k)
  <2>1. \A k : ~Mentions(e, k)
    BY <1>3 DEF Mentions
  <2> QED
    BY <1>3, <1>5, <1>6, <1>9, <2>1, SendingFacts DEF Listed
<1>12. OpensOnce
  <2>1. Live = {} /\ DOMAIN srv.pending = {} /\ DOMAIN up = {}
    BY <1>3, <1>5, <1>6 DEF Live
  <2> QED
    BY <1>7, <1>11, <2>1 DEF OpensOnce, Untouched
<1>13. AnsweredOnce /\ NoIdleWindow
  <2>1. DOMAIN ready = {} /\ DOMAIN srv.pending = {}
    BY <1>3, <1>5, <1>6
  <2> QED
    BY <1>7, <2>1 DEF AnsweredOnce, NoIdleWindow
<1> QED
  BY <1>9, <1>10, <1>12, <1>13 DEF H2Core, Orderly

LEMMA CoreNext == H2Core /\ [H2Next]_h2Vars => H2Core'
<1> SUFFICES ASSUME H2Core, [H2Next]_h2Vars PROVE H2Core'
  OBVIOUS
<1>1. CASE UNCHANGED h2Vars
  <2>1. UNCHANGED <<plan, srv, ready, dispatching, batchCredit, unread, credits, work, writer, ended, up, down, peer>>
    BY <1>1 DEF h2Vars
  <2>2. H2Typed' /\ CreditConserved' /\ (~ended => NoIdleWindow')
    BY <2>1 DEF H2Core, H2Typed, CreditConserved, Orderly, NoIdleWindow
  <2>3. ~ended => OpensOnce' /\ AnsweredOnce'
    BY <2>1 DEF H2Core, Orderly, OpensOnce, AnsweredOnce, Untouched, Listed, Mentions, Sending, Live
  <2> QED
    BY <2>1, <2>2, <2>3 DEF H2Core, Orderly
<1>2. CASE H2Next
  <2>1. ~ended /\ UNCHANGED plan
    BY <1>2 DEF H2Next
  <2>2. ASSUME NEW id \in StreamIds, Background(id) PROVE H2Core'
    <3>1. CASE Consume(id)
      BY <2>1, <2>2, <3>1, ConsumeKeeps
    <3>2. CASE ~Consume(id)
      <4>1. PICK s : TaskTo(id, s)
        BY <2>1, <2>2, <3>2, TaskSteps
      <4> QED
        BY <2>1, <2>2, <4>1, TaskKeeps
    <3> QED
      BY <3>1, <3>2
  <2>3. ASSUME NEW id \in StreamIds, Peer(id) PROVE H2Core'
    BY <2>1, <2>3, PeerPutsKeeps, PeerSendsKeeps DEF Peer
  <2>4. CASE \/ ReturnFlowCredit \/ Flush \/ Written
             \/ BeginDispatch \/ DispatchOne \/ EndDispatch \/ Receive
             \/ PeerChangesWindow \/ PeerReceives
    BY <2>1, <2>4, ReturnFlowCreditKeeps, FlushKeeps, BeginDispatchKeeps, DispatchOneKeeps,
       EndDispatchKeeps, ReceiveKeeps, PeerChangesKeeps, PeerReceivesKeeps
  <2> QED
    BY <1>2, <2>2, <2>3, <2>4 DEF H2Next
<1> QED
  BY <1>1, <1>2

LEMMA CoreInductive == H2Spec => []H2Core
<1> QED
  BY CoreInit, CoreNext, PTL DEF H2Spec

-----------------------------------------------------------------------------
(***************************************************************************)
(* The windows of the two ends.                                             *)
(***************************************************************************)
Weight(f, type, k) == IF f.type = type /\ f.id = k THEN f.n ELSE 0
AllWeight(f) == IF f.type = "DATA" THEN f.n ELSE 0

LEMMA FramesOnWires ==
    /\ \A q \in Seq(UpFrames) : q \in Seq(Frames)
    /\ \A q \in Seq(DownFrames) : q \in Seq(Frames)
    /\ UpFrames \in SUBSET Frames /\ DownFrames \in SUBSET Frames
<1>1. UpFrames \in SUBSET Frames /\ DownFrames \in SUBSET Frames
  BY DEF UpFrames, DownFrames
<1> HIDE DEF UpFrames, DownFrames, Frames
<1> QED
  BY <1>1

LEMMA UnitsType ==
    \A q \in Seq(Frames) : AllUnits(q) \in Int /\ \A type, k : Units(q, type, k) \in Int
  BY UnitsAreSums, AllUnitsAreSums

LEMMA WeightType == \A f \in Frames : AllWeight(f) \in Int /\ \A type, k : Weight(f, type, k) \in Int
  BY DEF AllWeight, Weight, Frames

LEMMA UnitsAbsent ==
    ASSUME NEW q \in Seq(Frames), NEW type, NEW k, ~Carries(q, type, k)
    PROVE  Units(q, type, k) = 0
<1>1. DOMAIN q = 1 .. Len(q)
  OBVIOUS
<1>2. \A i \in 1 .. Len(q) : Weights(q, type, k)[i] = 0
  BY <1>1 DEF Carries, Weights
<1> QED
  BY <1>2, UnitsAreSums, SumZero

LEMMA UnitsUnmentioned ==
    ASSUME NEW q \in Seq(Frames), NEW k, ~Mentions(q, k)
    PROVE  \A type : Units(q, type, k) = 0
<1>1. \A type : ~Carries(q, type, k)
  BY DEF Mentions, Carries
<1> QED
  BY <1>1, UnitsAbsent

(* The units of r are those of p and those of q.                            *)
Joins(r, p, q) ==
    /\ AllUnits(p) \in Int /\ AllUnits(q) \in Int /\ AllUnits(r) = AllUnits(p) + AllUnits(q)
    /\ \A type, k : /\ Units(p, type, k) \in Int /\ Units(q, type, k) \in Int
                    /\ Units(r, type, k) = Units(p, type, k) + Units(q, type, k)

LEMMA UnitsBoth ==
    ASSUME NEW p \in Seq(DownFrames), NEW q \in Seq(DownFrames), NEW r, r = p \o q
    PROVE  r \in Seq(DownFrames) /\ Joins(r, p, q)
<1>1. r \in Seq(DownFrames)
  <2> HIDE DEF DownFrames
  <2> QED
    OBVIOUS
<1>2. p \in Seq(Frames) /\ q \in Seq(Frames)
  BY FramesOnWires
<1>3. /\ AllUnits(r) = AllUnits(p) + AllUnits(q)
      /\ \A type, k : Units(r, type, k) = Units(p, type, k) + Units(q, type, k)
  BY <1>2, UnitsConcat, AllConcat
<1>4. /\ AllUnits(p) \in Int /\ AllUnits(q) \in Int
      /\ \A type, k : Units(p, type, k) \in Int /\ Units(q, type, k) \in Int
  BY <1>2, UnitsType
<1> QED
  BY <1>1, <1>3, <1>4 DEF Joins

(* The units of r are those of q and of one more frame.                     *)
Adds(r, q, f) ==
    /\ AllUnits(q) \in Int /\ AllUnits(r) = AllUnits(q) + AllWeight(f)
    /\ \A type, k : /\ Units(q, type, k) \in Int
                    /\ Units(r, type, k) = Units(q, type, k) + Weight(f, type, k)

LEMMA UnitsWith ==
    ASSUME NEW q \in Seq(Frames), NEW f \in Frames, f.type = "DATA" => f.id \in StreamIds,
           NEW r, r = Append(q, f)
    PROVE  Adds(r, q, f)
<1> HIDE DEF Frames
<1>1. PICK e : e = <<f>>
  OBVIOUS
<1>2. e \in Seq(Frames) /\ Append(q, f) = q \o e
  BY <1>1
<1>3. AllUnits(e) = AllWeight(f) /\ \A type, k : Units(e, type, k) = Weight(f, type, k)
  BY <1>1, AllOne, UnitsOne DEF AllWeight, Weight
<1>4. PICK p : p = q \o e
  OBVIOUS
<1>5. p = r
  BY <1>2, <1>4
<1>6. AllUnits(p) = AllUnits(q) + AllUnits(e)
  BY <1>2, <1>4, AllConcat
<1>7. \A type, k : Units(p, type, k) = Units(q, type, k) + Units(e, type, k)
  BY <1>2, <1>4, UnitsConcat
<1>8. AllUnits(q) \in Int /\ \A type, k : Units(q, type, k) \in Int
  BY UnitsType
<1> QED
  BY <1>3, <1>5, <1>6, <1>7, <1>8 DEF Adds

LEMMA UnitsFirst ==
    ASSUME NEW q \in Seq(Frames), q # << >>, Head(q).type = "DATA" => Head(q).id \in StreamIds,
           NEW t, t = Tail(q), NEW f, f = Head(q)
    PROVE  Adds(q, t, f)
<1> HIDE DEF Frames
<1>1. f \in Frames /\ t \in Seq(Frames) /\ q = <<f>> \o t
  BY HeadAndTail
<1>2. PICK e : e = <<f>>
  OBVIOUS
<1>3. e \in Seq(Frames) /\ q = e \o t
  BY <1>1, <1>2
<1>4. AllUnits(e) = AllWeight(f) /\ \A type, k : Units(e, type, k) = Weight(f, type, k)
  BY <1>1, <1>2, AllOne, UnitsOne DEF AllWeight, Weight
<1>5. PICK p : p = e \o t
  OBVIOUS
<1>6. p = q
  BY <1>3, <1>5
<1>7. AllUnits(p) = AllUnits(e) + AllUnits(t)
  BY <1>1, <1>3, <1>5, AllConcat
<1>8. \A type, k : Units(p, type, k) = Units(e, type, k) + Units(t, type, k)
  <2>1. \A type, k : Units(e \o t, type, k) = Units(e, type, k) + Units(t, type, k)
    BY <1>1, <1>3, UnitsConcat
  <2> QED
    BY <1>5, <2>1
<1>9. AllUnits(t) \in Int /\ AllWeight(f) \in Int
      /\ \A type, k : Units(t, type, k) \in Int /\ Weight(f, type, k) \in Int
  BY <1>1, UnitsType, WeightType
<1> QED
  BY <1>4, <1>6, <1>7, <1>8, <1>9 DEF Adds

-----------------------------------------------------------------------------
(* What the two ends know, relative to the initial window of each: SETTINGS *)
(* moves both sides of the third equation alike.                            *)
Balanced ==
    /\ srv.sendW + AllUnits(Sending) + Units(up, "WINDOW_UPDATE", 0) = peer.recvW
    /\ peer.sendW + Units(Sending, "WINDOW_UPDATE", 0) + AllUnits(up) = srv.recvW
    /\ \A k \in StreamIds :
          /\ k \in Live \/ Unanswered(k) =>
                (StreamWindow(srv, k) - srv.initial) + Units(Sending, "DATA", k)
                    + Units(up, "WINDOW_UPDATE", k) = peer.streams[k].recvW - peer.initial
          /\ k \in Live /\ srv.streams[k].open =>
                peer.streams[k].sendW + Units(Sending, "WINDOW_UPDATE", k) + Units(up, "DATA", k)
                    = srv.streams[k].recvW

Flowing == SettlesOnce /\ BodyBeforeOpen /\ NoEarlyCredit /\ Balanced
H2Flow == ~ended /\ "done" \notin plan.early => Flowing

LEMMA WireTypes ==
    ASSUME H2Typed
    PROVE  Sending \in Seq(DownFrames) /\ Sending \in Seq(Frames) /\ up \in Seq(Frames)
<1>1. down \in Seq(DownFrames) /\ srv.out \in Seq(DownFrames) /\ up \in Seq(UpFrames)
  BY SrvFields DEF H2Typed
<1>2. Sending \in Seq(DownFrames)
  <2> HIDE DEF DownFrames
  <2> QED
    BY <1>1 DEF Sending
<1> QED
  BY <1>1, <1>2, FramesOnWires

LEMMA BalancedAgrees ==
    ASSUME H2Typed, SettlesOnce, Balanced PROVE WindowsAgree
<1>1. /\ srv.initial \in Int /\ \A k : StreamWindow(srv, k) \in Int
      /\ peer.initial \in Int
  BY SrvFields DEF H2Typed, PeerStates
<1>2. \A k \in StreamIds : peer.streams[k].recvW \in Int
  BY PeerFields
<1>3. \A type, k : Units(Sending, type, k) \in Int /\ Units(up, type, k) \in Int
  BY WireTypes, UnitsType
<1>4. PICK d : d = IF \E i \in DOMAIN up : up[i].type = "SETTINGS" THEN peer.initial - srv.initial ELSE 0
  OBVIOUS
<1>5. d = peer.initial - srv.initial
  BY <1>1, <1>4 DEF SettlesOnce
<1>6. ASSUME NEW k \in StreamIds, k \in Live \/ Unanswered(k)
      PROVE  StreamWindow(srv, k) + d + Units(Sending, "DATA", k)
                 + Units(up, "WINDOW_UPDATE", k) = peer.streams[k].recvW
  <2>1. (StreamWindow(srv, k) - srv.initial) + Units(Sending, "DATA", k)
           + Units(up, "WINDOW_UPDATE", k) = peer.streams[k].recvW - peer.initial
    BY <1>6 DEF Balanced
  <2> QED
    BY <1>1, <1>2, <1>3, <1>5, <2>1
<1>7. /\ srv.sendW + AllUnits(Sending) + Units(up, "WINDOW_UPDATE", 0) = peer.recvW
      /\ peer.sendW + Units(Sending, "WINDOW_UPDATE", 0) + AllUnits(up) = srv.recvW
      /\ \A k \in StreamIds : k \in Live /\ srv.streams[k].open =>
            peer.streams[k].sendW + Units(Sending, "WINDOW_UPDATE", k) + Units(up, "DATA", k)
                = srv.streams[k].recvW
  BY DEF Balanced
<1> QED
  BY <1>4, <1>6, <1>7 DEF WindowsAgree, AllUnits

-----------------------------------------------------------------------------
(* A request of which the session has said nothing yet.                     *)
Fresh(k) ==
    \/ Carries(up, "HEADERS", k)
    \/ \E i \in DOMAIN ready : ready[i].id = k /\ ready[i].detached

Running == H2Core /\ ~ended

FreshIsNew ==
    \A k \in StreamIds :
       /\ Fresh(k) => /\ Unanswered(k) /\ k \notin Live /\ ~Mentions(Sending, k)
                      /\ \A type : Units(Sending, type, k) = 0
       /\ Unanswered(k) => Fresh(k) \/ k \in Live

LEMMA FreshFacts == Running => FreshIsNew
<1> SUFFICES ASSUME H2Core, ~ended PROVE FreshIsNew
  BY DEF Running
<1> SUFFICES ASSUME NEW k \in StreamIds
             PROVE  /\ Fresh(k) => /\ Unanswered(k) /\ k \notin Live /\ ~Mentions(Sending, k)
                                   /\ \A type : Units(Sending, type, k) = 0
                    /\ Unanswered(k) => Fresh(k) \/ k \in Live
  BY DEF FreshIsNew
<1>1. OpensOnce /\ AnsweredOnce /\ H2Typed
  BY DEF H2Core, Orderly
<1>2. ASSUME Fresh(k) PROVE Unanswered(k) /\ k \notin Live /\ ~Mentions(Sending, k)
  <2>1. CASE Carries(up, "HEADERS", k)
    BY <1>1, <2>1 DEF Carries, Unanswered, OpensOnce, Untouched
  <2>2. CASE \E i \in DOMAIN ready : ready[i].id = k /\ ready[i].detached
    BY <1>1, <2>2 DEF Unanswered, AnsweredOnce
  <2> QED
    BY <1>2, <2>1, <2>2 DEF Fresh
<1>3. ASSUME Fresh(k) PROVE \A type : Units(Sending, type, k) = 0
  BY <1>1, <1>2, <1>3, WireTypes, UnitsUnmentioned
<1>4. ASSUME Unanswered(k) PROVE Fresh(k) \/ k \in Live
  <2>1. CASE Carries(up, "HEADERS", k)
    BY <2>1 DEF Fresh
  <2>2. CASE \E i \in DOMAIN ready : ready[i].id = k
    BY <1>1, <2>2 DEF Fresh, AnsweredOnce
  <2> QED
    BY <1>4, <2>1, <2>2 DEF Unanswered, Carries
<1> QED
  BY <1>2, <1>3, <1>4

LEMMA FreshNext == Running' => FreshIsNew'
  BY FreshFacts, PTL

-----------------------------------------------------------------------------
(* A step that leaves the session in s, and hands over some of its queue.   *)
SessionStep(s) ==
    /\ s \in SrvStates /\ srv'.initial = s.initial /\ srv'.sendW = s.sendW
    /\ srv'.recvW = s.recvW /\ srv'.streams = s.streams /\ Sending' = down \o s.out
    /\ \A i \in DOMAIN ready' : \E j \in DOMAIN ready : ready'[i] = ready[j]
    /\ UNCHANGED <<plan, up, peer, ended>>

(* What it sends it is charged for, and what it returns it says.            *)
Flows(s) ==
    /\ s.initial = srv.initial
    /\ s.sendW + AllUnits(s.out) = srv.sendW + AllUnits(srv.out)
    /\ s.recvW - Units(s.out, "WINDOW_UPDATE", 0) = srv.recvW - Units(srv.out, "WINDOW_UPDATE", 0)
    /\ \A k \in DOMAIN s.streams :
          /\ k \in Live \/ Unanswered(k)
          /\ StreamWindow(s, k) + Units(s.out, "DATA", k)
                = StreamWindow(srv, k) + Units(srv.out, "DATA", k)
          /\ s.streams[k].open =>
                /\ k \in Live /\ srv.streams[k].open
                /\ s.streams[k].recvW - Units(s.out, "WINDOW_UPDATE", k)
                      = srv.streams[k].recvW - Units(srv.out, "WINDOW_UPDATE", k)

(* The units on the way are those on the wire and those in the queue.       *)
LEMMA SendingUnits ==
    ASSUME H2Typed, NEW s \in SrvStates, NEW q, q = down \o s.out
    PROVE  Joins(q, down, s.out)
<1>1. down \in Seq(DownFrames)
  BY DEF H2Typed
<1>2. s.out \in Seq(DownFrames)
  BY SrvFields
<1> QED
  BY <1>1, <1>2, UnitsBoth

LEMMA SessionFlowKeeps ==
    ASSUME Running, Running', H2Flow, NEW s, SessionStep(s), Flows(s)
    PROVE  H2Flow'
<1> SUFFICES ASSUME "done" \notin plan'.early PROVE Flowing'
  BY DEF H2Flow
<1>1. SettlesOnce /\ BodyBeforeOpen /\ NoEarlyCredit /\ Balanced
  BY DEF H2Flow, Flowing, Running, SessionStep
<1>2. H2Typed /\ s \in SrvStates /\ srv \in SrvStates
  BY DEF Running, H2Core, H2Typed, SessionStep
<1>3. up' = up /\ peer' = peer /\ srv'.initial = srv.initial
  BY DEF SessionStep, Flows
<1>4. SettlesOnce'
  BY <1>1, <1>3 DEF SettlesOnce
<1>5. BodyBeforeOpen'
  <2>1. \A k : Carries(up, "HEADERS", k)' <=> Carries(up, "HEADERS", k)
    BY <1>3 DEF Carries
  <2>2. \A k : Units(up, "DATA", k)' = Units(up, "DATA", k)
    BY <1>3
  <2> QED
    BY <1>1, <1>3, <2>1, <2>2 DEF BodyBeforeOpen
<1>6. \A i \in DOMAIN ready' : \E j \in DOMAIN ready : ready'[i] = ready[j]
  BY DEF SessionStep
<1>7. NoEarlyCredit'
  <2>1. \A k : Carries(up, "WINDOW_UPDATE", k)' <=> Carries(up, "WINDOW_UPDATE", k)
    BY <1>3 DEF Carries
  <2> QED
    BY <1>1, <1>3, <1>6, <2>1 DEF NoEarlyCredit
<1>8. \A k : Fresh(k)' => Fresh(k)
  BY <1>3, <1>6 DEF Fresh, Carries
<1>9. PICK q : q = Sending'
  OBVIOUS
<1>10. q = down \o s.out
  BY <1>9 DEF SessionStep
<1>11. Sending = down \o srv.out
  BY DEF Sending
<1>12. /\ s.initial \in Int /\ s.sendW \in Int /\ s.recvW \in Int
       /\ srv.initial \in Int /\ srv.sendW \in Int /\ srv.recvW \in Int
       /\ \A k : StreamWindow(s, k) \in Int /\ StreamWindow(srv, k) \in Int
       /\ \A k \in DOMAIN s.streams : s.streams[k].recvW \in Int
       /\ \A k \in Live : srv.streams[k].recvW \in Int
  BY <1>2, SrvFields DEF Live
<1>13. /\ AllUnits(up) \in Int /\ \A type, k : Units(up, type, k) \in Int
  BY <1>2, WireTypes, UnitsType
<1>14. Joins(q, down, s.out)
  BY <1>2, <1>10, SendingUnits
<1>15. Joins(Sending, down, srv.out)
  BY <1>2, <1>11, SendingUnits
<1>17. Live' = DOMAIN s.streams /\ \A k : StreamWindow(srv', k) = StreamWindow(s, k)
  BY <1>3 DEF Live, SessionStep, StreamWindow, Flows
<1>18. /\ peer.initial \in Int /\ peer.sendW \in Int /\ peer.recvW \in Int
       /\ \A k \in StreamIds : peer.streams[k].sendW \in Int /\ peer.streams[k].recvW \in Int
  <2>1. \A k \in StreamIds : peer.streams[k].sendW \in Int /\ peer.streams[k].recvW \in Int
    BY <1>2, PeerFields
  <2> QED
    BY <1>2, <2>1 DEF H2Typed, PeerStates
<1>19. srv'.sendW + AllUnits(q) + Units(up, "WINDOW_UPDATE", 0) = peer.recvW
  <2>1. srv.sendW + AllUnits(Sending) + Units(up, "WINDOW_UPDATE", 0) = peer.recvW
    BY <1>1 DEF Balanced
  <2>2. s.sendW + AllUnits(s.out) = srv.sendW + AllUnits(srv.out) /\ srv'.sendW = s.sendW
    BY DEF Flows, SessionStep
  <2>3. PICK d \in Int, o \in Int, p \in Int :
           /\ d = AllUnits(down) /\ o = AllUnits(s.out) /\ p = AllUnits(srv.out)
           /\ AllUnits(q) = d + o /\ AllUnits(Sending) = d + p
    BY <1>14, <1>15 DEF Joins
  <2> QED
    BY <1>12, <1>13, <2>1, <2>2, <2>3
<1>20. peer.sendW + Units(q, "WINDOW_UPDATE", 0) + AllUnits(up) = srv'.recvW
  <2>1. peer.sendW + Units(Sending, "WINDOW_UPDATE", 0) + AllUnits(up) = srv.recvW
    BY <1>1 DEF Balanced
  <2>2. /\ s.recvW - Units(s.out, "WINDOW_UPDATE", 0) = srv.recvW - Units(srv.out, "WINDOW_UPDATE", 0)
        /\ srv'.recvW = s.recvW
    BY DEF Flows, SessionStep
  <2>3. PICK d \in Int, o \in Int, p \in Int :
           /\ d = Units(down, "WINDOW_UPDATE", 0) /\ o = Units(s.out, "WINDOW_UPDATE", 0)
           /\ p = Units(srv.out, "WINDOW_UPDATE", 0) /\ Units(q, "WINDOW_UPDATE", 0) = d + o
           /\ Units(Sending, "WINDOW_UPDATE", 0) = d + p
    BY <1>14, <1>15 DEF Joins
  <2> QED
    BY <1>12, <1>13, <1>18, <2>1, <2>2, <2>3
<1>21. ASSUME NEW k \in StreamIds, k \in Live' \/ Unanswered(k)'
       PROVE  (StreamWindow(srv', k) - srv'.initial) + Units(q, "DATA", k)
                  + Units(up, "WINDOW_UPDATE", k) = peer.streams[k].recvW - peer.initial
  <2>1. k \in Live \/ Unanswered(k) =>
           (StreamWindow(srv, k) - srv.initial) + Units(Sending, "DATA", k)
               + Units(up, "WINDOW_UPDATE", k) = peer.streams[k].recvW - peer.initial
    BY <1>1 DEF Balanced
  <2>2. CASE k \in Live'
    <3>1. /\ k \in Live \/ Unanswered(k)
          /\ StreamWindow(s, k) + Units(s.out, "DATA", k)
                = StreamWindow(srv, k) + Units(srv.out, "DATA", k)
      BY <1>17, <2>2 DEF Flows
    <3>2. PICK d \in Int, o \in Int, p \in Int :
             /\ d = Units(down, "DATA", k) /\ o = Units(s.out, "DATA", k)
             /\ p = Units(srv.out, "DATA", k) /\ Units(q, "DATA", k) = d + o
             /\ Units(Sending, "DATA", k) = d + p
      BY <1>14, <1>15 DEF Joins
    <3> QED
      BY <1>3, <1>12, <1>13, <1>17, <1>18, <2>1, <3>1, <3>2
  <2>3. CASE k \notin Live'
    <3>1. Fresh(k)' /\ \A type : Units(q, type, k) = 0
      BY <1>9, <1>21, <2>3, FreshNext DEF FreshIsNew
    <3>2. Unanswered(k) /\ k \notin Live /\ \A type : Units(Sending, type, k) = 0
      BY <1>8, <3>1, FreshFacts DEF FreshIsNew
    <3>3. StreamWindow(srv, k) = srv.initial
      BY <3>2 DEF StreamWindow, Live
    <3>4. StreamWindow(srv', k) = srv'.initial
      BY <2>3 DEF StreamWindow, Live
    <3> QED
      BY <1>3, <2>1, <3>1, <3>2, <3>3, <3>4, <1>12
  <2> QED
    BY <2>2, <2>3
<1>22. ASSUME NEW k \in StreamIds, k \in Live', srv'.streams[k].open
       PROVE  peer.streams[k].sendW + Units(q, "WINDOW_UPDATE", k) + Units(up, "DATA", k)
                  = srv'.streams[k].recvW
  <2>1. /\ k \in DOMAIN s.streams /\ srv'.streams[k].recvW = s.streams[k].recvW
        /\ k \in Live /\ srv.streams[k].open
        /\ s.streams[k].recvW - Units(s.out, "WINDOW_UPDATE", k)
              = srv.streams[k].recvW - Units(srv.out, "WINDOW_UPDATE", k)
    BY <1>17, <1>22 DEF Flows, SessionStep
  <2>2. peer.streams[k].sendW + Units(Sending, "WINDOW_UPDATE", k) + Units(up, "DATA", k)
           = srv.streams[k].recvW
    BY <1>1, <2>1 DEF Balanced
  <2>3. PICK d \in Int, o \in Int, p \in Int :
           /\ d = Units(down, "WINDOW_UPDATE", k) /\ o = Units(s.out, "WINDOW_UPDATE", k)
           /\ p = Units(srv.out, "WINDOW_UPDATE", k) /\ Units(q, "WINDOW_UPDATE", k) = d + o
           /\ Units(Sending, "WINDOW_UPDATE", k) = d + p
    BY <1>14, <1>15 DEF Joins
  <2> QED
    BY <1>12, <1>13, <1>18, <2>1, <2>2, <2>3
<1>23. Balanced'
  BY <1>3, <1>9, <1>19, <1>20, <1>21, <1>22 DEF Balanced
<1> QED
  BY <1>4, <1>5, <1>7, <1>23 DEF Flowing

(* What is only queued, and charged for, flows.                             *)
LEMMA ChargedFlows ==
    ASSUME Running, NEW s, Charged(srv, s),
           \A k \in DOMAIN s.streams : k \in Live \/ (Unanswered(k) /\ ~s.streams[k].open)
    PROVE  Flows(s)
<1>1. srv \in SrvStates /\ s \in SrvStates
  BY DEF Running, H2Core, H2Typed, Charged
<1>2. \A k : Units(s.out, "WINDOW_UPDATE", k) = Units(srv.out, "WINDOW_UPDATE", k)
  BY DEF Charged
<1>3. s.initial = srv.initial /\ s.sendW + AllUnits(s.out) = srv.sendW + AllUnits(srv.out)
  BY DEF Charged
<1>4. s.recvW = srv.recvW
  BY DEF Charged
<1>5. ASSUME NEW k \in DOMAIN s.streams
      PROVE  /\ StreamWindow(s, k) + Units(s.out, "DATA", k)
                   = StreamWindow(srv, k) + Units(srv.out, "DATA", k)
             /\ k \in Live => SameBody(srv, s, k)
  BY DEF Charged, Live
<1>6. ASSUME NEW k \in DOMAIN s.streams, s.streams[k].open
      PROVE  /\ k \in Live /\ srv.streams[k].open
             /\ s.streams[k].recvW = srv.streams[k].recvW
  BY <1>5, <1>6 DEF SameBody
<1> QED
  BY <1>2, <1>3, <1>4, <1>5, <1>6 DEF Flows

LEMMA TaskFlows ==
    ASSUME Running, Running', H2Flow, UNCHANGED plan, NEW id \in StreamIds, NEW s, TaskTo(id, s)
    PROVE  H2Flow'
<1>1. Charged(srv, s) /\ DOMAIN s.streams \in SUBSET Live /\ s \in SrvStates
  BY DEF TaskTo, Charged
<1>2. H2Typed
  BY DEF Running, H2Core
<1>3. /\ srv'.initial = s.initial /\ srv'.sendW = s.sendW /\ srv'.recvW = s.recvW
      /\ srv'.streams = s.streams /\ Sending' = down \o s.out
  <2>1. CASE Write(id, s)
    BY <1>1, <1>2, <2>1, WriteFacts
  <2>2. CASE srv' = s /\ down' = down
    BY <2>2 DEF Sending
  <2> QED
    BY <2>1, <2>2 DEF TaskTo
<1>4. SessionStep(s)
  BY <1>1, <1>3 DEF SessionStep, TaskTo
<1>5. Flows(s)
  BY <1>1, ChargedFlows
<1> QED
  BY <1>4, <1>5, SessionFlowKeeps

LEMMA DispatchFlows ==
    ASSUME Running, Running', H2Flow, UNCHANGED plan, DispatchOne
    PROVE  H2Flow'
<1>1. PICK s : DispatchedTo(Head(ready).id, s)
  BY Dispatched DEF Running
<1>2. PICK id : id = Head(ready).id
  OBVIOUS
<1>3. ready # << >> /\ ready' = Tail(ready) /\ UNCHANGED <<ended, up, down, peer>>
  BY DEF DispatchOne
<1>4. /\ Listed(id) /\ \A i \in DOMAIN ready' : \E j \in DOMAIN ready : ready'[i] = ready[j]
  <2>1. PICK q : q = ready'
    OBVIOUS
  <2>2. \A i \in DOMAIN q : i + 1 \in DOMAIN ready /\ q[i] = ready[i + 1]
    BY <1>3, <2>1, FirstRequest DEF Running
  <2> QED
    BY <1>2, <1>3, <2>1, <2>2, FirstRequest DEF Running
<1>5. /\ s \in SrvStates /\ srv' = s /\ Charged(srv, s) /\ OthersKept(srv, s, id)
      /\ id \in DOMAIN s.streams => ~s.streams[id].open
  BY <1>1, <1>2 DEF DispatchedTo
<1>6. Sending' = down \o s.out
  BY <1>3, <1>5 DEF Sending
<1>7. SessionStep(s)
  BY <1>3, <1>4, <1>5, <1>6 DEF SessionStep
<1>8. Unanswered(id)
  BY <1>4 DEF Listed, Unanswered
<1>9. \A k \in DOMAIN s.streams : k \in Live \/ (Unanswered(k) /\ ~s.streams[k].open)
  BY <1>5, <1>8 DEF OthersKept, Live
<1>10. Flows(s)
  BY <1>5, <1>9, ChargedFlows
<1> QED
  BY <1>7, <1>10, SessionFlowKeeps

(* The queue is handed over as it is, or nothing is done to the windows.    *)
LEMMA SameWindowsFlow ==
    ASSUME Running, Running', H2Flow, UNCHANGED plan,
           Flush \/ Written \/ BeginDispatch \/ \E id \in StreamIds : Consume(id)
    PROVE  H2Flow'
<1>1. srv \in SrvStates /\ H2Typed
  BY DEF Running, H2Core, H2Typed
<1>2. Charged(srv, srv)
  BY <1>1, ChargedSelf
<1>3. Flows(srv)
  BY <1>2, ChargedFlows DEF Live
<1>4. /\ srv'.initial = srv.initial /\ srv'.sendW = srv.sendW /\ srv'.recvW = srv.recvW
      /\ srv'.streams = srv.streams /\ Sending' = down \o srv.out
  <2>1. CASE Flush
    BY <1>1, <2>1, WriteFacts DEF Flush
  <2>2. CASE Written \/ BeginDispatch \/ \E id \in StreamIds : Consume(id)
    BY <2>2 DEF Written, BeginDispatch, Consume, Sending
  <2> QED
    BY <2>1, <2>2
<1>5. UNCHANGED <<ready, up, peer, ended>>
  BY DEF Flush, Written, BeginDispatch, Consume
<1>6. SessionStep(srv)
  BY <1>1, <1>4, <1>5 DEF SessionStep
<1> QED
  BY <1>3, <1>6, SessionFlowKeeps

LEMMA ReturnFlows ==
    ASSUME Running, Running', H2Flow, UNCHANGED plan, ReturnFlowCredit
    PROVE  H2Flow'
<1>1. H2Typed /\ srv \in SrvStates /\ credits \in [StreamIds -> Nat]
  BY DEF Running, H2Core, H2Typed
<1>2. PICK ids, total :
         /\ ids = {id \in Creditable : id \in Live} /\ ids \in SUBSET StreamIds
         /\ total \in Nat /\ total = SumFunction(credits)
         /\ Write(Another, Credited(srv, credits, ids, total))
  BY <1>1, ReturnFlowCreditIsCredited
<1>3. PICK s : s = Credited(srv, credits, ids, total)
  OBVIOUS
<1>4. IsCredited(srv, s, credits, ids, total)
  BY <1>1, <1>2, <1>3, CreditedFacts
<1>5. s \in SrvStates
  BY <1>4 DEF IsCredited
<1>6. /\ srv'.initial = s.initial /\ srv'.sendW = s.sendW /\ srv'.recvW = s.recvW
      /\ srv'.streams = s.streams /\ Sending' = down \o s.out
  BY <1>1, <1>2, <1>3, <1>5, WriteFacts
<1>7. SessionStep(s)
  BY <1>5, <1>6 DEF SessionStep, ReturnFlowCredit
<1>8. AllUnits(s.out) = AllUnits(srv.out)
  <2>1. \A k : Units(s.out, "DATA", k) = Units(srv.out, "DATA", k)
    BY <1>4 DEF IsCredited
  <2> QED
    BY <2>1 DEF AllUnits
<1>9. /\ srv.recvW \in Int /\ \A k \in Live : srv.streams[k].recvW \in Int
      /\ \A k : Units(srv.out, "WINDOW_UPDATE", k) \in Int
  <2>1. srv.out \in Seq(Frames)
    BY <1>1, SrvFields
  <2> QED
    BY <1>1, <2>1, SrvFields, UnitsType DEF Live
<1>10. s.recvW - Units(s.out, "WINDOW_UPDATE", 0) = srv.recvW - Units(srv.out, "WINDOW_UPDATE", 0)
  <2>1. 0 \notin ids
    BY <1>2, H2Assumption
  <2>2. /\ s.recvW = srv.recvW + total
        /\ Units(s.out, "WINDOW_UPDATE", 0) = Units(srv.out, "WINDOW_UPDATE", 0) + total
    BY <1>4, <2>1 DEF IsCredited
  <2> QED
    BY <1>2, <1>9, <2>2
<1>11. ASSUME NEW k \in DOMAIN s.streams
       PROVE  /\ k \in Live /\ s.streams[k].open = srv.streams[k].open
              /\ StreamWindow(s, k) = StreamWindow(srv, k)
              /\ Units(s.out, "DATA", k) = Units(srv.out, "DATA", k)
              /\ s.streams[k].recvW - Units(s.out, "WINDOW_UPDATE", k)
                    = srv.streams[k].recvW - Units(srv.out, "WINDOW_UPDATE", k)
  <2>1. /\ k \in DOMAIN srv.streams /\ k \in Live /\ k \in StreamIds /\ k # 0
    BY <1>1, <1>4, SrvFields, H2Assumption DEF IsCredited, Live
  <2>2. PICK c \in Nat : c = IF k \in ids THEN credits[k] ELSE 0
    BY <1>1, <2>1
  <2>3. /\ s.streams[k].recvW = srv.streams[k].recvW + c
        /\ Units(s.out, "WINDOW_UPDATE", k) = Units(srv.out, "WINDOW_UPDATE", k) + c
    BY <1>4, <2>1, <2>2 DEF IsCredited
  <2>4. /\ s.streams[k].sendW = srv.streams[k].sendW /\ s.streams[k].open = srv.streams[k].open
        /\ Units(s.out, "DATA", k) = Units(srv.out, "DATA", k)
    BY <1>4, <2>1 DEF IsCredited
  <2>5. s.streams[k].recvW - Units(s.out, "WINDOW_UPDATE", k)
           = srv.streams[k].recvW - Units(srv.out, "WINDOW_UPDATE", k)
    BY <1>9, <2>1, <2>3
  <2> QED
    BY <2>1, <2>4, <2>5 DEF StreamWindow
<1>12. s.initial = srv.initial /\ s.sendW = srv.sendW
  BY <1>4 DEF IsCredited
<1>13. Flows(s)
  BY <1>8, <1>10, <1>11, <1>12 DEF Flows
<1> QED
  BY <1>7, <1>13, SessionFlowKeeps

LEMMA EndFlows ==
    ASSUME Running, Running', H2Flow, UNCHANGED plan, EndDispatch
    PROVE  H2Flow'
<1>1. PICK f : f = Frame("WINDOW_UPDATE", 0, batchCredit, FALSE)
  OBVIOUS
<1>2. /\ srv \in SrvStates /\ batchCredit \in Nat /\ srv.recvW \in Int /\ srv.out \in Seq(Frames)
      /\ srv' \in SrvStates
      /\ f \in Frames /\ f.id = 0 /\ f.type = "WINDOW_UPDATE" /\ f.n = batchCredit
  BY <1>1, SrvFields DEF Running, H2Core, H2Typed, Frames, FrameTypes, Frame
<1>3. PICK q : q = Append(srv.out, f)
  OBVIOUS
<1>4. Adds(q, srv.out, f)
  BY <1>2, <1>3, UnitsWith
<1>5. AllWeight(f) = 0 /\ Weight(f, "WINDOW_UPDATE", 0) = batchCredit
      /\ \A type, k : type = "DATA" \/ k # 0 => Weight(f, type, k) = 0
  BY <1>2 DEF AllWeight, Weight
<1>6. PICK s : s = srv'
  OBVIOUS
<1>7. s.initial = srv.initial /\ s.sendW = srv.sendW /\ s.streams = srv.streams
      /\ s.recvW = srv.recvW + batchCredit /\ (batchCredit = 0 => s.out = srv.out)
      /\ (batchCredit # 0 => s.out = q)
  <2>1. CASE batchCredit = 0
    BY <1>2, <1>6, <2>1 DEF EndDispatch
  <2>2. CASE batchCredit # 0
    <3>1. PICK r \in Int : r = srv.recvW + batchCredit
      BY <1>2
    <3>2. s = [srv EXCEPT !.recvW = r, !.out = q]
      BY <1>1, <1>3, <1>6, <2>2, <3>1 DEF EndDispatch
    <3>3. s.initial = srv.initial /\ s.sendW = srv.sendW /\ s.streams = srv.streams /\ s.recvW = r /\ s.out = q
      BY <1>2, <3>2 DEF SrvStates
    <3> QED
      BY <2>2, <3>1, <3>3
  <2> QED
    BY <2>1, <2>2
<1>8. /\ AllUnits(s.out) = AllUnits(srv.out)
      /\ Units(s.out, "WINDOW_UPDATE", 0) = Units(srv.out, "WINDOW_UPDATE", 0) + batchCredit
      /\ \A type, k : type = "DATA" \/ k # 0 => Units(s.out, type, k) = Units(srv.out, type, k)
  <2>1. CASE batchCredit = 0
    BY <1>4, <1>7, <2>1 DEF Adds
  <2>2. CASE batchCredit # 0
    BY <1>4, <1>5, <1>7, <2>2 DEF Adds
  <2> QED
    BY <1>2, <2>1, <2>2
<1>9. s.recvW - Units(s.out, "WINDOW_UPDATE", 0) = srv.recvW - Units(srv.out, "WINDOW_UPDATE", 0)
  BY <1>2, <1>4, <1>7, <1>8 DEF Adds
<1>10. ASSUME NEW k \in DOMAIN s.streams
       PROVE  /\ k \in Live /\ k # 0 /\ StreamWindow(s, k) = StreamWindow(srv, k)
  BY <1>2, <1>7, SrvFields, H2Assumption DEF Live, StreamWindow
<1>11. Flows(s)
  BY <1>7, <1>8, <1>9, <1>10 DEF Flows
<1>12. SessionStep(s)
  BY <1>2, <1>6 DEF SessionStep, EndDispatch, Sending
<1> QED
  BY <1>11, <1>12, SessionFlowKeeps

-----------------------------------------------------------------------------
(* What the session makes of a frame.                                       *)
ReadFlows(f) ==
    /\ srv'.initial = IF f.type = "SETTINGS" THEN f.n ELSE srv.initial
    /\ srv'.sendW + AllUnits(srv'.out)
          = (srv.sendW + AllUnits(srv.out)) + Weight(f, "WINDOW_UPDATE", 0)
    /\ srv'.recvW = srv.recvW - AllWeight(f)
    /\ \A k : Units(srv'.out, "WINDOW_UPDATE", k) = Units(srv.out, "WINDOW_UPDATE", k)
    /\ \A k \in Live' :
          /\ k \in Live \/ (f.type = "HEADERS" /\ f.id = k)
          /\ (StreamWindow(srv', k) - srv'.initial) + Units(srv'.out, "DATA", k)
                = (StreamWindow(srv, k) - srv.initial) + Units(srv.out, "DATA", k)
                     + Weight(f, "WINDOW_UPDATE", k)
          /\ srv'.streams[k].open =>
                \/ /\ k \in Live /\ srv.streams[k].open
                   /\ srv'.streams[k].recvW = srv.streams[k].recvW - Weight(f, "DATA", k)
                \/ f.type = "HEADERS" /\ f.id = k /\ srv'.streams[k].recvW = Window
    /\ \A i \in DOMAIN ready' : ready'[i].detached =>
          \/ \E j \in DOMAIN ready : ready'[i] = ready[j]
          \/ f.type = "HEADERS" /\ f.end /\ f.id = ready'[i].id

(* The session takes the first frame from the wire.                         *)
FirstRead(f) == up # << >> /\ up' = Tail(up) /\ f = Head(up) /\ UNCHANGED <<plan, down, peer>>

(* What is left on the wire then.                                           *)
LEMMA WireAfterRead ==
    ASSUME Running, NEW f, FirstRead(f)
    PROVE  /\ Adds(up, up', f) /\ f \in Frames /\ 1 \in DOMAIN up /\ f = up[1]
           /\ \A i \in DOMAIN up' : i \in Nat /\ i >= 1 /\ i + 1 \in DOMAIN up /\ up'[i] = up[i + 1]
           /\ \A i \in DOMAIN up : i # 1 => i - 1 \in DOMAIN up' /\ up'[i - 1] = up[i]
           /\ \A type, k : Carries(up', type, k) => Carries(up, type, k)
           /\ \A k \in StreamIds :
                 peer.streams[k].at = "idle" \/ Carries(up', "HEADERS", k) => f.id # k
<1> USE DEF FirstRead
<1>1. up \in Seq(UpFrames) /\ OpensOnce
  BY DEF Running, H2Core, H2Typed, Orderly
<1>2. up \in Seq(Frames)
  BY <1>1, FramesOnWires
<1>3. f \in UpFrames /\ (f.type = "DATA" => f.id \in StreamIds)
  BY FirstFrame DEF Running
<1>4. f \in Frames
  BY <1>3, FramesOnWires
<1>5. Adds(up, up', f)
  BY <1>2, <1>3, UnitsFirst
<1>6. /\ 1 \in DOMAIN up /\ f = up[1]
      /\ \A i \in DOMAIN up' : i \in Nat /\ i >= 1 /\ i + 1 \in DOMAIN up /\ up'[i] = up[i + 1]
  BY <1>1, TailFacts
<1>7. \A i \in DOMAIN up : i # 1 => i - 1 \in DOMAIN up' /\ up'[i - 1] = up[i]
  <2> HIDE DEF UpFrames
  <2>1. PICK q \in Seq(UpFrames) : q = up
    BY <1>1
  <2>2. PICK t : t = Tail(q)
    OBVIOUS
  <2>3. /\ DOMAIN q = 1 .. Len(q) /\ Len(q) \in Nat /\ Len(q) # 0 /\ DOMAIN t = 1 .. (Len(q) - 1)
        /\ \A i \in 1 .. (Len(q) - 1) : t[i] = q[i + 1]
    BY <2>1, <2>2
  <2>4. ASSUME NEW i \in DOMAIN q, i # 1 PROVE i - 1 \in DOMAIN t /\ t[i - 1] = q[i]
    <3>1. i \in Nat /\ i >= 1 /\ i <= Len(q)
      BY <2>3
    <3>2. i - 1 \in 1 .. (Len(q) - 1) /\ (i - 1) + 1 = i
      BY <2>3, <2>4, <3>1
    <3> QED
      BY <2>3, <3>2
  <2> QED
    BY <2>1, <2>2, <2>4
<1>8. \A type, k : Carries(up', type, k) => Carries(up, type, k)
  BY <1>6 DEF Carries
<1>9. ASSUME NEW k \in StreamIds, peer.streams[k].at = "idle" \/ Carries(up', "HEADERS", k)
      PROVE  f.id # k
  <2>1. CASE peer.streams[k].at = "idle"
    BY <1>1, <1>6, <2>1 DEF OpensOnce, Mentions
  <2>2. CASE Carries(up', "HEADERS", k)
    <3>1. PICK i \in DOMAIN up' : up'[i].type = "HEADERS" /\ up'[i].id = k
      BY <2>2 DEF Carries
    <3>2. i + 1 \in DOMAIN up /\ up[i + 1].type = "HEADERS" /\ up[i + 1].id = k /\ ~(1 >= i + 1)
      BY <1>6, <3>1
    <3>3. \A j \in DOMAIN up : up[j].id = k => j >= i + 1
      BY <1>1, <3>2 DEF OpensOnce
    <3> QED
      BY <1>6, <3>2, <3>3
  <2> QED
    BY <1>9, <2>1, <2>2
<1> QED
  BY <1>4, <1>5, <1>6, <1>7, <1>8, <1>9

LEMMA ReadFlowsKeeps ==
    ASSUME Running, Running', H2Flow, NEW f, FirstRead(f), ReadFlows(f)
    PROVE  H2Flow'
<1> SUFFICES ASSUME "done" \notin plan'.early PROVE Flowing'
  BY DEF H2Flow
<1>0. UNCHANGED plan /\ down' = down /\ peer' = peer
  BY DEF FirstRead
<1>1. SettlesOnce /\ BodyBeforeOpen /\ NoEarlyCredit /\ Balanced
  BY <1>0 DEF H2Flow, Flowing, Running
<1>2. H2Typed /\ H2Typed' /\ srv' \in SrvStates /\ srv \in SrvStates
  BY DEF Running, H2Core, H2Typed
<1>3. /\ Adds(up, up', f) /\ f \in Frames /\ 1 \in DOMAIN up /\ f = up[1]
      /\ \A i \in DOMAIN up' : i \in Nat /\ i >= 1 /\ i + 1 \in DOMAIN up /\ up'[i] = up[i + 1]
      /\ \A i \in DOMAIN up : i # 1 => i - 1 \in DOMAIN up' /\ up'[i - 1] = up[i]
  BY WireAfterRead
<1>4. /\ \A type, k : Carries(up', type, k) => Carries(up, type, k)
      /\ \A k \in StreamIds :
            peer.streams[k].at = "idle" \/ Carries(up', "HEADERS", k) => f.id # k
  BY WireAfterRead
<1>5. PICK u : u = up'
  OBVIOUS
<1>6. SettlesOnce'
  <2>1. CASE f.type = "SETTINGS"
    <3>1. srv'.initial = peer.initial
      BY <1>1, <1>3, <2>1 DEF SettlesOnce, ReadFlows
    <3>2. \A i \in DOMAIN u : u[i].type # "SETTINGS"
      BY <1>1, <1>3, <1>5, <2>1 DEF SettlesOnce
    <3> QED
      BY <1>0, <1>5, <3>1, <3>2 DEF SettlesOnce
  <2>2. CASE f.type # "SETTINGS"
    <3>1. srv'.initial = srv.initial
      BY <2>2 DEF ReadFlows
    <3>2. ASSUME NEW i \in DOMAIN u, u[i].type = "SETTINGS"
          PROVE  /\ peer.changed /\ u[i].n = peer.initial
                 /\ \A j \in DOMAIN u : u[j].type = "SETTINGS" => i = j
      <4>1. i \in Nat /\ i + 1 \in DOMAIN up /\ u[i] = up[i + 1]
        BY <1>3, <1>5
      <4>2. ASSUME NEW j \in DOMAIN u, u[j].type = "SETTINGS" PROVE i = j
        <5>1. j \in Nat /\ j + 1 \in DOMAIN up /\ u[j] = up[j + 1]
          BY <1>3, <1>5
        <5>2. i + 1 = j + 1
          BY <1>1, <3>2, <4>1, <4>2, <5>1 DEF SettlesOnce
        <5> QED
          BY <4>1, <5>1, <5>2
      <4> QED
        BY <1>1, <3>2, <4>1, <4>2 DEF SettlesOnce
    <3>3. ASSUME \A i \in DOMAIN u : u[i].type # "SETTINGS" PROVE srv.initial = peer.initial
      <4>1. \A i \in DOMAIN up : up[i].type # "SETTINGS"
        BY <1>3, <1>5, <2>2, <3>3
      <4> QED
        BY <1>1, <4>1 DEF SettlesOnce
    <3> QED
      BY <1>0, <1>5, <3>1, <3>2, <3>3 DEF SettlesOnce
  <2> QED
    BY <2>1, <2>2
<1>7. \A k \in StreamIds : peer.streams[k].at = "idle" \/ Carries(u, "HEADERS", k) =>
         peer.streams[k].sendW + Units(u, "DATA", k) = Window
  <2> SUFFICES ASSUME NEW k \in StreamIds, peer.streams[k].at = "idle" \/ Carries(u, "HEADERS", k)
               PROVE  peer.streams[k].sendW + Units(u, "DATA", k) = Window
    OBVIOUS
  <2>1. f.id # k /\ (peer.streams[k].at = "idle" \/ Carries(up, "HEADERS", k))
    BY <1>4, <1>5
  <2>2. Weight(f, "DATA", k) = 0
    BY <2>1 DEF Weight
  <2>3. Units(up, "DATA", k) = Units(u, "DATA", k) + 0 /\ Units(u, "DATA", k) \in Int
    BY <1>3, <1>5, <2>2 DEF Adds
  <2> QED
    BY <1>1, <2>1, <2>3 DEF BodyBeforeOpen
<1>8. BodyBeforeOpen'
  <2>1. \A k : Carries(up, "HEADERS", k)' <=> Carries(u, "HEADERS", k)
    BY <1>5 DEF Carries
  <2>2. \A k : Units(up, "DATA", k)' = Units(u, "DATA", k)
    BY <1>5
  <2> QED
    BY <1>0, <1>7, <2>1, <2>2 DEF BodyBeforeOpen
<1>9. NoEarlyCredit'
  <2>1. \A k : Carries(up, "WINDOW_UPDATE", k)' => Carries(up, "WINDOW_UPDATE", k)
    BY <1>4 DEF Carries
  <2>2. ASSUME NEW k \in StreamIds, NEW i \in DOMAIN up', up'[i].type = "HEADERS", up'[i].id = k, up'[i].end
        PROVE  \E j \in DOMAIN up : up[j].type = "HEADERS" /\ up[j].id = k /\ up[j].end
    BY <1>3, <2>2
  <2>3. ASSUME NEW k \in StreamIds, NEW i \in DOMAIN ready', ready'[i].id = k, ready'[i].detached
        PROVE  \/ \E j \in DOMAIN up : up[j].type = "HEADERS" /\ up[j].id = k /\ up[j].end
               \/ \E j \in DOMAIN ready : ready[j].id = k /\ ready[j].detached
    BY <1>3, <2>3 DEF ReadFlows
  <2> QED
    BY <1>0, <1>1, <2>1, <2>2, <2>3 DEF NoEarlyCredit
<1>10. ASSUME NEW k \in StreamIds, Fresh(k)' PROVE Fresh(k) /\ Weight(f, "WINDOW_UPDATE", k) = 0
  <2>1. CASE Carries(up, "HEADERS", k)'
    <3>1. Carries(up', "HEADERS", k)
      BY <2>1
    <3>2. Carries(up, "HEADERS", k) /\ f.id # k
      BY <1>4, <3>1
    <3> QED
      BY <3>2 DEF Fresh, Weight
  <2>2. CASE \E i \in DOMAIN ready' : ready'[i].id = k /\ ready'[i].detached
    <3>1. PICK i \in DOMAIN ready' : ready'[i].id = k /\ ready'[i].detached
      BY <2>2
    <3>2. CASE \E j \in DOMAIN ready : ready'[i] = ready[j]
      <4>1. \E j \in DOMAIN ready : ready[j].id = k /\ ready[j].detached
        BY <3>1, <3>2
      <4>2. ~Carries(up, "WINDOW_UPDATE", k)
        BY <1>1, <4>1 DEF NoEarlyCredit
      <4>3. ~(f.type = "WINDOW_UPDATE" /\ f.id = k)
        BY <1>3, <4>2 DEF Carries
      <4> QED
        BY <4>1, <4>3 DEF Fresh, Weight
    <3>3. CASE f.type = "HEADERS" /\ f.end /\ f.id = ready'[i].id
      <4>1. Carries(up, "HEADERS", k)
        BY <1>3, <3>1, <3>3 DEF Carries
      <4> QED
        BY <3>3, <4>1 DEF Fresh, Weight
    <3> QED
      BY <3>1, <3>2, <3>3 DEF ReadFlows
  <2> QED
    BY <1>10, <2>1, <2>2 DEF Fresh
<1>11. PICK q : q = Sending'
  OBVIOUS
<1>12. PICK s : s = srv'
  OBVIOUS
<1>13. Joins(q, down, s.out)
  BY <1>0, <1>2, <1>11, <1>12, SendingUnits DEF Sending
<1>14. Joins(Sending, down, srv.out)
  BY <1>2, SendingUnits DEF Sending
<1>15. /\ s.initial \in Int /\ s.sendW \in Int /\ s.recvW \in Int
       /\ srv.initial \in Int /\ srv.sendW \in Int /\ srv.recvW \in Int
       /\ \A k : StreamWindow(s, k) \in Int /\ StreamWindow(srv, k) \in Int
       /\ \A k \in DOMAIN s.streams : s.streams[k].recvW \in Int
       /\ \A k \in Live : srv.streams[k].recvW \in Int
  BY <1>2, <1>12, SrvFields DEF Live
<1>16. /\ AllWeight(f) \in Int /\ \A type, k : Weight(f, type, k) \in Int
  BY <1>3, WeightType
<1>17. /\ AllUnits(u) \in Int /\ AllUnits(up) = AllUnits(u) + AllWeight(f)
       /\ \A type, k : /\ Units(u, type, k) \in Int
                       /\ Units(up, type, k) = Units(u, type, k) + Weight(f, type, k)
  BY <1>3, <1>5 DEF Adds
<1>18. /\ peer.initial \in Int /\ peer.sendW \in Int /\ peer.recvW \in Int
       /\ \A k \in StreamIds : peer.streams[k].sendW \in Int /\ peer.streams[k].recvW \in Int
  <2>1. \A k \in StreamIds : peer.streams[k].sendW \in Int /\ peer.streams[k].recvW \in Int
    BY <1>2, PeerFields
  <2> QED
    BY <1>2, <2>1 DEF H2Typed, PeerStates
<1>19. s.sendW + AllUnits(q) + Units(u, "WINDOW_UPDATE", 0) = peer.recvW
  <2>1. srv.sendW + AllUnits(Sending) + Units(up, "WINDOW_UPDATE", 0) = peer.recvW
    BY <1>1 DEF Balanced
  <2>2. s.sendW + AllUnits(s.out) = (srv.sendW + AllUnits(srv.out)) + Weight(f, "WINDOW_UPDATE", 0)
    BY <1>12 DEF ReadFlows
  <2>3. PICK d \in Int, o \in Int, p \in Int :
           /\ d = AllUnits(down) /\ o = AllUnits(s.out) /\ p = AllUnits(srv.out)
           /\ AllUnits(q) = d + o /\ AllUnits(Sending) = d + p
    BY <1>13, <1>14 DEF Joins
  <2>4. PICK x \in Int, y \in Int :
           /\ x = Units(u, "WINDOW_UPDATE", 0) /\ y = Weight(f, "WINDOW_UPDATE", 0)
           /\ Units(up, "WINDOW_UPDATE", 0) = x + y
    BY <1>16, <1>17
  <2>5. PICK a \in Int, b \in Int : a = s.sendW /\ b = srv.sendW
    BY <1>15
  <2>6. a + o = (b + p) + y
    BY <2>2, <2>3, <2>4, <2>5
  <2>7. b + (d + p) + (x + y) = peer.recvW
    BY <2>1, <2>3, <2>4, <2>5
  <2>8. a + (d + o) + x = b + (d + p) + (x + y)
    BY <2>3, <2>4, <2>5, <2>6
  <2> QED
    BY <2>3, <2>4, <2>5, <2>7, <2>8
<1>20. peer.sendW + Units(q, "WINDOW_UPDATE", 0) + AllUnits(u) = s.recvW
  <2>1. peer.sendW + Units(Sending, "WINDOW_UPDATE", 0) + AllUnits(up) = srv.recvW
    BY <1>1 DEF Balanced
  <2>2. s.recvW = srv.recvW - AllWeight(f)
        /\ Units(s.out, "WINDOW_UPDATE", 0) = Units(srv.out, "WINDOW_UPDATE", 0)
    BY <1>12 DEF ReadFlows
  <2>3. PICK w \in Int : w = Units(q, "WINDOW_UPDATE", 0) /\ w = Units(Sending, "WINDOW_UPDATE", 0)
    BY <1>13, <1>14, <2>2 DEF Joins
  <2> QED
    BY <1>15, <1>16, <1>17, <1>18, <2>1, <2>2, <2>3
<1>21. ASSUME NEW k \in StreamIds, k \in Live' \/ Unanswered(k)'
       PROVE  (StreamWindow(s, k) - s.initial) + Units(q, "DATA", k)
                  + Units(u, "WINDOW_UPDATE", k) = peer.streams[k].recvW - peer.initial
  <2>1. k \in Live \/ Unanswered(k) =>
           (StreamWindow(srv, k) - srv.initial) + Units(Sending, "DATA", k)
               + Units(up, "WINDOW_UPDATE", k) = peer.streams[k].recvW - peer.initial
    BY <1>1 DEF Balanced
  <2>2. PICK x \in Int, y \in Int :
           /\ x = Units(u, "WINDOW_UPDATE", k) /\ y = Weight(f, "WINDOW_UPDATE", k)
           /\ Units(up, "WINDOW_UPDATE", k) = x + y
    BY <1>16, <1>17
  <2>3. CASE k \in Live'
    <3>1. /\ k \in Live \/ (f.type = "HEADERS" /\ f.id = k)
          /\ (StreamWindow(s, k) - s.initial) + Units(s.out, "DATA", k)
                = (StreamWindow(srv, k) - srv.initial) + Units(srv.out, "DATA", k)
                     + Weight(f, "WINDOW_UPDATE", k)
      BY <1>12, <2>3 DEF ReadFlows
    <3>2. k \in Live \/ Unanswered(k)
      BY <1>3, <3>1 DEF Unanswered
    <3>3. PICK d \in Int, o \in Int, p \in Int :
             /\ d = Units(down, "DATA", k) /\ o = Units(s.out, "DATA", k)
             /\ p = Units(srv.out, "DATA", k) /\ Units(q, "DATA", k) = d + o
             /\ Units(Sending, "DATA", k) = d + p
      BY <1>13, <1>14 DEF Joins
    <3>4. PICK a \in Int, b \in Int :
             /\ a = StreamWindow(s, k) - s.initial /\ b = StreamWindow(srv, k) - srv.initial
      BY <1>15
    <3>5. a + o = b + p + y
      BY <2>2, <3>1, <3>3, <3>4
    <3>6. b + (d + p) + (x + y) = peer.streams[k].recvW - peer.initial
      BY <2>1, <2>2, <3>2, <3>3, <3>4
    <3>7. a + (d + o) + x = b + (d + p) + (x + y)
      BY <3>5
    <3> QED
      BY <2>2, <3>3, <3>4, <3>6, <3>7
  <2>4. CASE k \notin Live'
    <3>1. Fresh(k)' /\ \A type : Units(q, type, k) = 0
      BY <1>11, <1>21, <2>4, FreshNext DEF FreshIsNew
    <3>2. Fresh(k) /\ y = 0
      BY <1>10, <2>2, <3>1
    <3>3. Unanswered(k) /\ k \notin Live /\ \A type : Units(Sending, type, k) = 0
      BY <3>2, FreshFacts DEF FreshIsNew
    <3>4. StreamWindow(srv, k) = srv.initial /\ StreamWindow(s, k) = s.initial
      BY <1>12, <2>4, <3>3 DEF StreamWindow, Live
    <3> QED
      BY <1>15, <1>18, <2>1, <2>2, <3>1, <3>2, <3>3, <3>4
  <2> QED
    BY <2>3, <2>4
<1>22. ASSUME NEW k \in StreamIds, k \in Live', s.streams[k].open
       PROVE  peer.streams[k].sendW + Units(q, "WINDOW_UPDATE", k) + Units(u, "DATA", k)
                  = s.streams[k].recvW
  <2>1. PICK x \in Int, y \in Int :
           /\ x = Units(u, "DATA", k) /\ y = Weight(f, "DATA", k) /\ Units(up, "DATA", k) = x + y
    BY <1>16, <1>17
  <2>2. Units(s.out, "WINDOW_UPDATE", k) = Units(srv.out, "WINDOW_UPDATE", k)
    BY <1>12 DEF ReadFlows
  <2>3. PICK w \in Int : w = Units(q, "WINDOW_UPDATE", k) /\ w = Units(Sending, "WINDOW_UPDATE", k)
    BY <1>13, <1>14, <2>2 DEF Joins
  <2>4. CASE k \in Live /\ srv.streams[k].open /\ s.streams[k].recvW = srv.streams[k].recvW - Weight(f, "DATA", k)
    <3>1. peer.streams[k].sendW + w + (x + y) = srv.streams[k].recvW
      BY <1>1, <2>1, <2>3, <2>4 DEF Balanced
    <3>2. srv.streams[k].recvW \in Int /\ peer.streams[k].sendW \in Int
      BY <1>15, <1>18, <2>4
    <3>3. s.streams[k].recvW = srv.streams[k].recvW - y
      BY <2>1, <2>4
    <3>4. peer.streams[k].sendW + w + x = s.streams[k].recvW
      BY <2>1, <2>3, <3>1, <3>2, <3>3
    <3> QED
      BY <2>1, <2>3, <3>4
  <2>5. CASE f.type = "HEADERS" /\ f.id = k /\ s.streams[k].recvW = Window
    <3>1. Carries(up, "HEADERS", k) /\ y = 0
      BY <1>3, <2>1, <2>5 DEF Carries, Weight
    <3>2. w = 0
      BY <2>3, <3>1, FreshFacts DEF FreshIsNew, Fresh
    <3>3. peer.streams[k].sendW + (x + y) = Window
      BY <1>1, <2>1, <3>1 DEF BodyBeforeOpen
    <3> QED
      BY <1>18, <2>1, <2>3, <2>5, <3>1, <3>2, <3>3
  <2> QED
    BY <1>12, <1>22, <2>4, <2>5 DEF ReadFlows
<1>23. Balanced'
  BY <1>0, <1>5, <1>11, <1>12, <1>19, <1>20, <1>21, <1>22 DEF Balanced
<1> QED
  BY <1>6, <1>8, <1>9, <1>23 DEF Flowing

(* A frame that opens a window: what the pending responses send is charged. *)
LEMMA DrainFlows ==
    ASSUME Running, NEW f, f.type \in {"SETTINGS", "WINDOW_UPDATE"}, NEW s \in SrvStates,
           s.initial = (IF f.type = "SETTINGS" THEN f.n ELSE srv.initial),
           s.sendW = srv.sendW + Weight(f, "WINDOW_UPDATE", 0), s.recvW = srv.recvW,
           Weight(f, "WINDOW_UPDATE", 0) \in Int,
           s.pending = srv.pending, s.out = srv.out, DOMAIN s.streams = Live,
           \A k \in Live :
              /\ s.streams[k].sendW - s.initial
                    = (srv.streams[k].sendW - srv.initial) + Weight(f, "WINDOW_UPDATE", k)
              /\ SameBody(srv, s, k) /\ Weight(f, "WINDOW_UPDATE", k) \in Int,
           srv' \in Drained(s), ready' = ready
    PROVE  ReadFlows(f)
<1>1. PICK t : t = srv'
  OBVIOUS
<1>2. Charged(s, t) /\ DOMAIN t.streams \in SUBSET Live
  <2>1. DOMAIN s.pending \in SUBSET DOMAIN s.streams
    BY DEF Running, H2Core, Orderly, AnsweredOnce
  <2>2. DrainedOf(s, t, DOMAIN s.pending)
    BY <1>1, <2>1, DrainedFacts
  <2> QED
    BY <2>2 DEF DrainedOf
<1>3. /\ t \in SrvStates /\ srv \in SrvStates
  BY <1>2 DEF Charged, Running, H2Core, H2Typed
<1>4. /\ AllUnits(t.out) \in Int /\ AllUnits(srv.out) \in Int
      /\ \A k : Units(t.out, "DATA", k) \in Int /\ Units(srv.out, "DATA", k) \in Int
  <2>1. t.out \in Seq(Frames) /\ srv.out \in Seq(Frames)
    BY <1>3, SrvFields
  <2> QED
    BY <2>1, UnitsType
<1>5. /\ t.initial = s.initial /\ t.recvW = srv.recvW
      /\ \A k : Units(t.out, "WINDOW_UPDATE", k) = Units(srv.out, "WINDOW_UPDATE", k)
  BY <1>2 DEF Charged
<1>6. t.sendW + AllUnits(t.out) = (srv.sendW + AllUnits(srv.out)) + Weight(f, "WINDOW_UPDATE", 0)
  <2>1. t.sendW + AllUnits(t.out) = s.sendW + AllUnits(srv.out)
    BY <1>2 DEF Charged
  <2>2. srv.sendW \in Int
    BY <1>3, SrvFields
  <2> QED
    BY <1>4, <2>1, <2>2
<1>7. AllWeight(f) = 0 /\ \A k : Weight(f, "DATA", k) = 0
  BY DEF AllWeight, Weight
<1>8. ASSUME NEW k \in DOMAIN t.streams
      PROVE  /\ k \in Live
             /\ (StreamWindow(t, k) - t.initial) + Units(t.out, "DATA", k)
                   = (StreamWindow(srv, k) - srv.initial) + Units(srv.out, "DATA", k)
                        + Weight(f, "WINDOW_UPDATE", k)
             /\ t.streams[k].open = srv.streams[k].open
             /\ t.streams[k].recvW = srv.streams[k].recvW
  <2>1. k \in Live /\ k \in DOMAIN s.streams /\ k \in DOMAIN srv.streams
    BY <1>2 DEF Live
  <2>2. PICK a \in Int, b \in Int, c \in Int, i \in Int, j \in Int, x \in Int, y \in Int, w \in Int :
           /\ a = StreamWindow(t, k) /\ b = StreamWindow(s, k) /\ c = StreamWindow(srv, k)
           /\ i = s.initial /\ j = srv.initial /\ x = Units(t.out, "DATA", k)
           /\ y = Units(srv.out, "DATA", k) /\ w = Weight(f, "WINDOW_UPDATE", k)
    BY <1>3, <1>4, <2>1, SrvFields
  <2>3. a + x = b + y
    BY <1>2, <2>2 DEF Charged
  <2>4. b - i = (c - j) + w
    BY <2>1, <2>2 DEF StreamWindow
  <2>5. (a - i) + x = (c - j) + y + w
    BY <2>3, <2>4
  <2>6. SameBody(srv, s, k) /\ SameBody(s, t, k)
    BY <1>2, <2>1 DEF Charged
  <2>7. t.streams[k].open = srv.streams[k].open /\ t.streams[k].recvW = srv.streams[k].recvW
    BY <2>6 DEF SameBody
  <2> QED
    BY <1>5, <2>1, <2>2, <2>5, <2>7
<1>9. Live' = DOMAIN t.streams
  BY <1>1 DEF Live
<1>10. ASSUME NEW k \in Live', srv'.streams[k].open
       PROVE  /\ k \in Live /\ srv.streams[k].open
              /\ srv'.streams[k].recvW = srv.streams[k].recvW - Weight(f, "DATA", k)
  <2>1. k \in Live /\ srv.streams[k].open /\ srv'.streams[k].recvW = srv.streams[k].recvW
    BY <1>1, <1>8, <1>9, <1>10
  <2>2. srv.streams[k].recvW \in Int
    BY <1>3, <2>1, SrvFields DEF Live
  <2> QED
    BY <1>7, <2>1, <2>2
<1>11. srv'.recvW = srv.recvW - AllWeight(f)
  <2>1. srv.recvW \in Int
    BY <1>3, SrvFields
  <2> QED
    BY <1>1, <1>5, <1>7, <2>1
<1> QED
  BY <1>1, <1>5, <1>6, <1>8, <1>9, <1>10, <1>11 DEF ReadFlows

LEMMA SettingsFlow ==
    ASSUME Running, NEW f \in UpFrames, f.type = "SETTINGS", OnSettings(f)
    PROVE  ReadFlows(f)
<1>1. f.n \in Nat /\ srv \in SrvStates
  BY DEF Running, H2Core, H2Typed, UpFrames, Frames
<1>2. PICK s : s = Settled(srv, f.n)
  OBVIOUS
<1>3. srv' \in Drained(s) /\ ready' = ready
  BY <1>2 DEF OnSettings, Settled, Live
<1>4. /\ s \in SrvStates /\ s.initial = f.n /\ s.sendW = srv.sendW /\ s.recvW = srv.recvW
      /\ s.pending = srv.pending /\ s.out = srv.out /\ DOMAIN s.streams = Live
      /\ \A k \in Live : /\ s.streams[k].sendW = srv.streams[k].sendW + f.n - srv.initial
                         /\ SameBody(srv, s, k)
  BY <1>1, <1>2, SettledFacts DEF Live
<1>5. \A k : Weight(f, "WINDOW_UPDATE", k) = 0
  BY DEF Weight
<1>6. srv.sendW \in Int /\ srv.initial \in Int /\ \A k \in Live : srv.streams[k].sendW \in Int
  BY <1>1, SrvFields DEF Live
<1>7. s.sendW = srv.sendW + Weight(f, "WINDOW_UPDATE", 0)
  BY <1>4, <1>5, <1>6
<1>8. \A k \in Live : s.streams[k].sendW - s.initial
                         = (srv.streams[k].sendW - srv.initial) + Weight(f, "WINDOW_UPDATE", k)
  BY <1>1, <1>4, <1>5, <1>6
<1> QED
  BY <1>3, <1>4, <1>5, <1>7, <1>8, DrainFlows

LEMMA UpdateFlows ==
    ASSUME Running, NEW f \in UpFrames, f.type = "WINDOW_UPDATE", OnWindowUpdate(f)
    PROVE  ReadFlows(f)
<1>1. f.n \in Nat /\ srv \in SrvStates
  BY DEF Running, H2Core, H2Typed, UpFrames, Frames
<1>2. PICK s : s = Widened(srv, f)
  OBVIOUS
<1>3. srv' \in Drained(s) /\ ready' = ready
  BY <1>2 DEF OnWindowUpdate, Widened, Live
<1>4. /\ s \in SrvStates /\ s.initial = srv.initial /\ s.recvW = srv.recvW
      /\ s.sendW = srv.sendW + (IF f.id = 0 THEN f.n ELSE 0)
      /\ s.pending = srv.pending /\ s.out = srv.out /\ DOMAIN s.streams = Live
      /\ \A k \in Live : /\ s.streams[k].sendW = srv.streams[k].sendW + (IF k = f.id THEN f.n ELSE 0)
                         /\ SameBody(srv, s, k)
  BY <1>1, <1>2, WidenedFacts DEF Live
<1>5. \A k : Weight(f, "WINDOW_UPDATE", k) \in Int
             /\ Weight(f, "WINDOW_UPDATE", k) = IF k = f.id THEN f.n ELSE 0
  BY <1>1 DEF Weight
<1>6. srv.sendW \in Int /\ srv.initial \in Int /\ \A k \in Live : srv.streams[k].sendW \in Int
  BY <1>1, SrvFields DEF Live
<1>7. s.sendW = srv.sendW + Weight(f, "WINDOW_UPDATE", 0)
  BY <1>4, <1>5
<1>8. ASSUME NEW k \in Live
      PROVE  s.streams[k].sendW - s.initial
                = (srv.streams[k].sendW - srv.initial) + Weight(f, "WINDOW_UPDATE", k)
  <2>1. s.streams[k].sendW = srv.streams[k].sendW + Weight(f, "WINDOW_UPDATE", k)
    BY <1>4, <1>5
  <2> QED
    BY <1>4, <1>5, <1>6, <2>1
<1> QED
  BY <1>3, <1>4, <1>5, <1>7, <1>8, DrainFlows

(* A frame after which the send windows and the queue are as they were.     *)
LEMMA QuietFlows ==
    ASSUME Running, NEW f, f.type \notin {"SETTINGS", "WINDOW_UPDATE"}, NEW t, t = srv',
           t \in SrvStates, t.initial = srv.initial, t.sendW = srv.sendW, t.out = srv.out,
           t.recvW = srv.recvW - AllWeight(f),
           \A k \in DOMAIN t.streams :
              /\ k \in Live \/ (f.type = "HEADERS" /\ f.id = k)
              /\ t.streams[k].sendW = StreamWindow(srv, k)
              /\ t.streams[k].open =>
                    \/ /\ k \in Live /\ srv.streams[k].open
                       /\ t.streams[k].recvW = srv.streams[k].recvW - Weight(f, "DATA", k)
                    \/ f.type = "HEADERS" /\ f.id = k /\ t.streams[k].recvW = Window,
           \A i \in DOMAIN ready' : ready'[i].detached =>
              \/ \E j \in DOMAIN ready : ready'[i] = ready[j]
              \/ f.type = "HEADERS" /\ f.end /\ f.id = ready'[i].id
    PROVE  ReadFlows(f)
<1>1. \A k : Weight(f, "WINDOW_UPDATE", k) = 0
  BY DEF Weight
<1>2. srv \in SrvStates
  BY DEF Running, H2Core, H2Typed
<1>3. /\ AllUnits(srv.out) \in Int /\ \A k : Units(srv.out, "DATA", k) \in Int
  <2>1. srv.out \in Seq(Frames)
    BY <1>2, SrvFields
  <2> QED
    BY <2>1, UnitsType
<1>4. srv.sendW \in Int /\ srv.initial \in Int /\ \A k : StreamWindow(srv, k) \in Int
  BY <1>2, SrvFields
<1>5. Live' = DOMAIN t.streams
  BY DEF Live
<1>6. ASSUME NEW k \in Live'
      PROVE  (StreamWindow(srv', k) - srv'.initial) + Units(srv'.out, "DATA", k)
                = (StreamWindow(srv, k) - srv.initial) + Units(srv.out, "DATA", k)
                     + Weight(f, "WINDOW_UPDATE", k)
  <2>1. StreamWindow(t, k) = StreamWindow(srv, k)
    BY <1>5 DEF StreamWindow
  <2>2. (StreamWindow(t, k) - t.initial) + Units(t.out, "DATA", k)
                = (StreamWindow(srv, k) - srv.initial) + Units(srv.out, "DATA", k)
                     + Weight(f, "WINDOW_UPDATE", k)
    BY <1>1, <1>3, <1>4, <2>1
  <2> QED
    BY <2>2
<1>7. srv'.sendW + AllUnits(srv'.out) = (srv.sendW + AllUnits(srv.out)) + Weight(f, "WINDOW_UPDATE", 0)
  BY <1>1, <1>3, <1>4
<1> QED
  BY <1>5, <1>6, <1>7 DEF ReadFlows

LEMMA HeadersFlow ==
    ASSUME Running, NEW f \in UpFrames, f.type = "HEADERS", f.id \in StreamIds, Untouched(f.id),
           OnHeaders(f)
    PROVE  ReadFlows(f)
<1>1. H2Typed /\ srv \in SrvStates /\ ready \in Seq(Requests)
  BY DEF Running, H2Core, H2Typed
<1>2. AllWeight(f) = 0 /\ \A k : Weight(f, "DATA", k) = 0
  BY DEF AllWeight, Weight
<1>3. srv.recvW \in Int /\ \A k \in Live : srv.streams[k].recvW \in Int
  BY <1>1, SrvFields DEF Live
<1>4. PICK t : t = srv'
  OBVIOUS
<1>5. CASE f.end /\ ready' = Append(ready, [id |-> f.id, detached |-> TRUE]) /\ srv' = srv
  <2>1. PICK r : r = [id |-> f.id, detached |-> TRUE]
    OBVIOUS
  <2>2. r \in Requests /\ r.id = f.id
    BY <2>1 DEF Requests
  <2>3. PICK q : q = ready'
    OBVIOUS
  <2>4. \A i \in DOMAIN q : \/ i \in DOMAIN ready /\ q[i] = ready[i]
                            \/ q[i] = r
    <3>1. \A i, j \in DOMAIN ready : ready[i].id = ready[j].id => i = j
      BY DEF Running, H2Core, Orderly, AnsweredOnce
    <3>2. \A i \in DOMAIN ready : ready[i].id # r.id
      BY <2>2 DEF Untouched, Listed
    <3>3. q = Append(ready, r)
      BY <1>5, <2>1, <2>3
    <3> QED
      BY <1>1, <2>2, <3>1, <3>2, <3>3, QueueRequest
  <2>5. \A i \in DOMAIN ready' : ready'[i].detached =>
           \/ \E j \in DOMAIN ready : ready'[i] = ready[j]
           \/ f.type = "HEADERS" /\ f.end /\ f.id = ready'[i].id
    BY <1>5, <2>2, <2>3, <2>4
  <2>6. t = srv /\ t.recvW = srv.recvW - AllWeight(f)
    BY <1>2, <1>3, <1>4, <1>5
  <2>7. ASSUME NEW k \in DOMAIN t.streams
        PROVE  /\ k \in Live /\ t.streams[k].sendW = StreamWindow(srv, k)
               /\ t.streams[k].open = srv.streams[k].open
               /\ t.streams[k].recvW = srv.streams[k].recvW - Weight(f, "DATA", k)
    BY <1>2, <1>3, <2>6 DEF Live, StreamWindow
  <2> QED
    BY <1>1, <1>4, <2>5, <2>6, <2>7, QuietFlows
<1>6. CASE ~f.end /\ ready' = ready /\ \E e : OpensStream(f, srv', e)
  <2>1. PICK e : OpensStream(f, t, e)
    BY <1>4, <1>6
  <2>2. /\ e \in StreamStates /\ t = Started(srv, f.id, e) /\ e.sendW = srv.initial /\ e.recvW = Window
    BY <2>1 DEF OpensStream
  <2>3. /\ t \in SrvStates /\ t.initial = srv.initial /\ t.sendW = srv.sendW /\ t.recvW = srv.recvW
        /\ t.out = srv.out /\ OthersKept(srv, t, f.id)
        /\ DOMAIN t.streams = DOMAIN srv.streams \cup {f.id} /\ t.streams[f.id] = e
    BY <1>1, <2>2, StartedFacts
  <2>4. f.id \notin Live
    BY DEF Untouched
  <2>5. ASSUME NEW k \in DOMAIN t.streams
        PROVE  /\ k \in Live \/ (f.type = "HEADERS" /\ f.id = k)
               /\ t.streams[k].sendW = StreamWindow(srv, k)
               /\ t.streams[k].open =>
                     \/ /\ k \in Live /\ srv.streams[k].open
                        /\ t.streams[k].recvW = srv.streams[k].recvW - Weight(f, "DATA", k)
                     \/ f.type = "HEADERS" /\ f.id = k /\ t.streams[k].recvW = Window
    <3>1. CASE k = f.id
      BY <2>2, <2>3, <2>4, <3>1 DEF StreamWindow, Live
    <3>2. CASE k # f.id
      <4>1. k \in Live /\ t.streams[k] = srv.streams[k]
        BY <2>3, <3>2 DEF OthersKept, Live
      <4>2. t.streams[k].recvW = srv.streams[k].recvW - Weight(f, "DATA", k)
        BY <1>2, <1>3, <4>1
      <4> QED
        BY <4>1, <4>2 DEF StreamWindow, Live
    <3> QED
      BY <3>1, <3>2
  <2>6. t.recvW = srv.recvW - AllWeight(f)
    BY <1>2, <1>3, <2>3
  <2> QED
    BY <1>4, <1>6, <2>3, <2>5, <2>6, QuietFlows
<1> QED
  BY <1>1, <1>5, <1>6, OnHeadersIs

LEMMA ResetFlows ==
    ASSUME Running, NEW f \in UpFrames, f.type = "RST_STREAM", OnReset(f)
    PROVE  ReadFlows(f)
<1>1. srv \in SrvStates /\ ready \in Seq(Requests)
      /\ \A i, j \in DOMAIN ready : ready[i].id = ready[j].id => i = j
  BY DEF Running, H2Core, H2Typed, Orderly, AnsweredOnce
<1>2. PICK y : y = Without(srv.pending, f.id)
  OBVIOUS
<1>3. PICK t : t = RetiredState(srv, f.id, y)
  OBVIOUS
<1>4. t = srv' /\ ready' = Erased(ready, f.id)
  BY <1>2, <1>3 DEF OnReset, RetiredState
<1>5. /\ Charged(srv, t) /\ OthersKept(srv, t, f.id) /\ t.out = srv.out /\ t.sendW = srv.sendW
      /\ DOMAIN t.streams = Live \ {f.id}
  BY <1>1, <1>2, <1>3, RetireFacts DEF Live
<1>6. PICK q : q = ready'
  OBVIOUS
<1>7. \A i \in DOMAIN q : \E j \in DOMAIN ready : ready[j] = q[i]
  BY <1>1, <1>4, <1>6, ErasedFacts
<1>8. AllWeight(f) = 0 /\ \A k : Weight(f, "DATA", k) = 0
  BY DEF AllWeight, Weight
<1>9. srv.recvW \in Int /\ \A k \in Live : srv.streams[k].recvW \in Int
  BY <1>1, SrvFields DEF Live
<1>10. t \in SrvStates /\ t.initial = srv.initial /\ t.recvW = srv.recvW - AllWeight(f)
  BY <1>5, <1>8, <1>9 DEF Charged
<1>11. ASSUME NEW k \in DOMAIN t.streams
       PROVE  /\ k \in Live /\ t.streams[k].sendW = StreamWindow(srv, k)
              /\ t.streams[k].open = srv.streams[k].open
              /\ t.streams[k].recvW = srv.streams[k].recvW - Weight(f, "DATA", k)
  <2>1. k \in Live /\ t.streams[k] = srv.streams[k]
    BY <1>5 DEF OthersKept, Live
  <2> QED
    BY <1>8, <1>9, <2>1 DEF StreamWindow, Live
<1>12. \A i \in DOMAIN ready' : \E j \in DOMAIN ready : ready'[i] = ready[j]
  BY <1>6, <1>7
<1> QED
  BY <1>4, <1>5, <1>10, <1>11, <1>12, QuietFlows

LEMMA DataFlows ==
    ASSUME Running, NEW f \in UpFrames, f.type = "DATA", f.id \in StreamIds, NEW e, TakesData(f, e)
    PROVE  ReadFlows(f)
<1>1. srv \in SrvStates /\ ready \in Seq(Requests) /\ f.n \in Nat
  BY DEF Running, H2Core, H2Typed, UpFrames, Frames
<1>2. PICK t : t = srv'
  OBVIOUS
<1>3. f.id \in Live /\ srv.streams[f.id].open
  BY DEF TakesData, Acceptable
<1>4. PICK old : old = srv.streams[f.id]
  OBVIOUS
<1>5. /\ e \in StreamStates /\ e.sendW = old.sendW /\ e.recvW = old.recvW - f.n
      /\ ready' = IF f.end /\ ~e.streaming THEN Append(ready, [id |-> f.id, detached |-> FALSE]) ELSE ready
      /\ t = DataRead(srv, f, e)
  BY <1>2, <1>4 DEF TakesData
<1>6. /\ t \in SrvStates /\ t.initial = srv.initial /\ t.sendW = srv.sendW /\ t.recvW = srv.recvW - f.n
      /\ t.out = srv.out /\ OthersKept(srv, t, f.id)
      /\ DOMAIN t.streams = DOMAIN srv.streams /\ t.streams[f.id] = e
  BY <1>1, <1>3, <1>5, DataReadFacts DEF Live
<1>7. AllWeight(f) = f.n /\ \A k : Weight(f, "DATA", k) = IF k = f.id THEN f.n ELSE 0
  BY DEF AllWeight, Weight
<1>8. \A k \in Live : srv.streams[k].recvW \in Int
  BY <1>1, SrvFields DEF Live
<1>9. ASSUME NEW k \in DOMAIN t.streams
      PROVE  /\ k \in Live /\ t.streams[k].sendW = StreamWindow(srv, k)
             /\ t.streams[k].open => srv.streams[k].open
             /\ t.streams[k].recvW = srv.streams[k].recvW - Weight(f, "DATA", k)
  <2>1. k \in Live
    BY <1>6 DEF Live
  <2>2. CASE k = f.id
    BY <1>3, <1>4, <1>5, <1>6, <1>7, <2>1, <2>2 DEF StreamWindow, Live
  <2>3. CASE k # f.id
    <3>1. t.streams[k] = srv.streams[k]
      BY <1>6, <2>1, <2>3 DEF OthersKept, Live
    <3> QED
      BY <1>7, <1>8, <2>1, <2>3, <3>1 DEF StreamWindow, Live
  <2> QED
    BY <2>2, <2>3
<1>10. \A i \in DOMAIN ready' : ready'[i].detached => \E j \in DOMAIN ready : ready'[i] = ready[j]
  <2>1. CASE ready' = ready
    BY <2>1
  <2>2. CASE ready' = Append(ready, [id |-> f.id, detached |-> FALSE])
    <3>1. PICK r : r = [id |-> f.id, detached |-> FALSE]
      OBVIOUS
    <3>2. r \in Requests /\ r.id = f.id /\ ~r.detached
      BY <3>1 DEF Requests
    <3>3. PICK q : q = ready'
      OBVIOUS
    <3>4. \A i \in DOMAIN q : \/ i \in DOMAIN ready /\ q[i] = ready[i]
                              \/ q[i] = r
      <4>1. \A i, j \in DOMAIN ready : ready[i].id = ready[j].id => i = j
        BY DEF Running, H2Core, Orderly, AnsweredOnce
      <4>2. \A i \in DOMAIN ready : ready[i].id # r.id
        BY <1>3, <3>2, OpenStream DEF Listed, Running
      <4>3. q = Append(ready, r)
        BY <2>2, <3>1, <3>3
      <4> QED
        BY <1>1, <3>2, <4>1, <4>2, <4>3, QueueRequest
    <3> QED
      BY <3>2, <3>3, <3>4
  <2> QED
    BY <1>5, <2>1, <2>2
<1> QED
  BY <1>2, <1>6, <1>7, <1>9, <1>10, QuietFlows

LEMMA ReceiveFlows ==
    ASSUME Running, H2Core', H2Flow, UNCHANGED plan, Receive
    PROVE  H2Flow'
<1>1. PICK f : f = Head(up)
  OBVIOUS
<1>2. FirstRead(f)
  BY <1>1 DEF Receive, FirstRead
<1>3. /\ f \in UpFrames
      /\ f.type = "HEADERS" => f.id \in StreamIds /\ Untouched(f.id)
      /\ f.type = "DATA" => f.id \in StreamIds
  BY <1>1, <1>2, FirstFrame DEF Running, FirstRead
<1>4. CASE ended'
  BY <1>4 DEF H2Flow
<1>5. CASE ~ended'
  <2>1. Running'
    BY <1>5 DEF Running
  <2>2. \/ f.type = "SETTINGS" /\ OnSettings(f)
        \/ f.type = "HEADERS" /\ OnHeaders(f)
        \/ f.type = "DATA" /\ OnData(f)
        \/ f.type = "WINDOW_UPDATE" /\ OnWindowUpdate(f)
        \/ f.type = "RST_STREAM" /\ OnReset(f)
    BY <1>1 DEF Receive
  <2>3. ASSUME f.type = "DATA", OnData(f) PROVE ReadFlows(f)
    <3>1. H2Typed
      BY DEF Running, H2Core
    <3>2. PICK e : TakesData(f, e)
      BY <1>3, <1>5, <2>3, <3>1, OnDataIs
    <3> QED
      BY <1>3, <2>3, <3>2, DataFlows
  <2>4. ReadFlows(f)
    BY <1>3, <2>2, <2>3, SettingsFlow, HeadersFlow, UpdateFlows, ResetFlows
  <2> QED
    BY <1>2, <2>1, <2>4, ReadFlowsKeeps
<1> QED
  BY <1>4, <1>5

-----------------------------------------------------------------------------
(* The peer says one thing more.                                            *)
PeerSays(f) ==
    /\ f \in UpFrames /\ up' = Append(up, f)
    /\ UNCHANGED <<plan, srv, ready, down, ended>>

(* What it may say, and what it makes of its own windows then.              *)
PeerFlows(f) ==
    /\ IF f.type = "SETTINGS" THEN ~peer.changed /\ peer'.changed /\ peer'.initial = f.n
       ELSE peer'.changed = peer.changed /\ peer'.initial = peer.initial
    /\ f.type = "WINDOW_UPDATE" => f.id \in StreamIds /\ peer.streams[f.id].at = "open"
    /\ peer'.recvW = peer.recvW /\ peer'.sendW = peer.sendW - AllWeight(f)
    /\ \A k \in StreamIds :
          /\ peer'.streams[k].sendW = peer.streams[k].sendW - Weight(f, "DATA", k)
          /\ peer'.streams[k].at = "idle" => peer.streams[k].at = "idle"
          /\ IF f.type = "HEADERS" /\ f.id = k
             THEN /\ peer.streams[k].at = "idle" /\ peer'.streams[k].recvW = peer'.initial
                  /\ f.end => peer'.streams[k].at # "open"
             ELSE /\ peer'.streams[k].recvW - peer'.initial
                        = (peer.streams[k].recvW - peer.initial) + Weight(f, "WINDOW_UPDATE", k)
                  /\ peer'.streams[k].at = "open" => peer.streams[k].at = "open"

(* What is on the wire then.                                                *)
LEMMA WireAfterSaying ==
    ASSUME Running, NEW f, PeerSays(f)
    PROVE  /\ Adds(up', up, f) /\ f \in Frames
           /\ \A i \in DOMAIN up : i \in DOMAIN up' /\ up'[i] = up[i]
           /\ \E n \in DOMAIN up' : n \notin DOMAIN up /\ up'[n] = f
                                    /\ \A i \in DOMAIN up' : i \in DOMAIN up \/ i = n
           /\ \A type, k : Carries(up', type, k) <=> Carries(up, type, k) \/ (f.type = type /\ f.id = k)
<1>1. H2Typed /\ f \in UpFrames /\ up' = Append(up, f) /\ up \in Seq(UpFrames)
  BY DEF Running, H2Core, H2Typed, PeerSays
<1>2. up \in Seq(Frames) /\ f \in Frames /\ (f.type = "DATA" => f.id \in StreamIds)
  BY <1>1, FramesOnWires DEF UpFrames
<1>3. Adds(up', up, f)
  BY <1>1, <1>2, UnitsWith
<1>4. /\ Len(up) \in Nat /\ DOMAIN up = 1 .. Len(up) /\ DOMAIN up' = 1 .. (Len(up) + 1)
      /\ \A i \in DOMAIN up : up'[i] = up[i]
      /\ \A i \in DOMAIN up' \ DOMAIN up : i = Len(up) + 1 /\ up'[i] = f
  BY <1>1, AppendUp
<1>5. PICK n \in Nat : n = Len(up) + 1
  BY <1>4
<1>6. n \in DOMAIN up' /\ n \notin DOMAIN up /\ \A i \in DOMAIN up : i \in DOMAIN up'
  BY <1>4, <1>5
<1>7. up'[n] = f /\ \A i \in DOMAIN up' : i \in DOMAIN up \/ i = n
  BY <1>4, <1>5, <1>6
<1>8. \A type, k : Carries(up', type, k) <=> Carries(up, type, k) \/ (f.type = type /\ f.id = k)
  BY <1>4, <1>6, <1>7 DEF Carries
<1> QED
  BY <1>2, <1>3, <1>4, <1>6, <1>7, <1>8

(* Nothing is on its way for a stream that the peer has not opened.         *)
LEMMA IdleFacts ==
    ASSUME Running, NEW k \in StreamIds, peer.streams[k].at = "idle"
    PROVE  /\ k \notin Live /\ ~Fresh(k) /\ ~Unanswered(k) /\ ~Mentions(Sending, k)
           /\ \A type : /\ Units(Sending, type, k) = 0 /\ Units(up, type, k) = 0
                        /\ ~Carries(up, type, k)
<1>1. H2Typed /\ Untouched(k) /\ ~Mentions(up, k)
  BY DEF Running, H2Core, Orderly, OpensOnce
<1>2. \A type : Units(Sending, type, k) = 0
  BY <1>1, WireTypes, UnitsUnmentioned DEF Untouched
<1>3. \A type : Units(up, type, k) = 0
  BY <1>1, WireTypes, UnitsUnmentioned
<1> QED
  BY <1>1, <1>2, <1>3 DEF Untouched, Mentions, Carries, Listed, Fresh, Unanswered

LEMMA PeerNumbers ==
    ASSUME H2Typed
    PROVE  /\ peer.initial \in Int /\ peer.sendW \in Int /\ peer.recvW \in Int
           /\ \A k \in StreamIds : peer.streams[k].sendW \in Int /\ peer.streams[k].recvW \in Int
<1>1. \A k \in StreamIds : peer.streams[k].sendW \in Int /\ peer.streams[k].recvW \in Int
  BY PeerFields
<1> QED
  BY <1>1 DEF H2Typed, PeerStates

LEMMA PeerFlowsKeeps ==
    ASSUME Running, H2Flow, NEW f, PeerSays(f), PeerFlows(f)
    PROVE  H2Flow'
<1> SUFFICES ASSUME "done" \notin plan'.early PROVE Flowing'
  BY DEF H2Flow
<1>1. UNCHANGED plan /\ srv' = srv /\ ready' = ready /\ down' = down /\ f \in UpFrames
  BY DEF PeerSays
<1>2. SettlesOnce /\ BodyBeforeOpen /\ NoEarlyCredit /\ Balanced
  BY <1>1 DEF H2Flow, Flowing, Running
<1>3. H2Typed /\ srv \in SrvStates
  BY DEF Running, H2Core, H2Typed
<1>4. PICK u : u = up'
  OBVIOUS
<1>5. PICK n \in DOMAIN u : n \notin DOMAIN up /\ u[n] = f /\ \A i \in DOMAIN u : i \in DOMAIN up \/ i = n
  BY <1>4, WireAfterSaying
<1>6. /\ Adds(u, up, f) /\ f \in Frames /\ \A i \in DOMAIN up : i \in DOMAIN u /\ u[i] = up[i]
      /\ \A type, k : Carries(u, type, k) <=> Carries(up, type, k) \/ (f.type = type /\ f.id = k)
  BY <1>4, WireAfterSaying
<1>7. SettlesOnce'
  <2>1. ASSUME NEW i \in DOMAIN u, u[i].type = "SETTINGS"
        PROVE  /\ peer'.changed /\ u[i].n = peer'.initial
               /\ \A j \in DOMAIN u : u[j].type = "SETTINGS" => i = j
    <3>1. CASE f.type = "SETTINGS"
      <4>1. \A j \in DOMAIN up : up[j].type # "SETTINGS"
        BY <1>2, <3>1 DEF SettlesOnce, PeerFlows
      <4>2. \A j \in DOMAIN u : u[j].type = "SETTINGS" => j = n
        BY <1>5, <1>6, <4>1
      <4> QED
        BY <1>5, <2>1, <3>1, <4>2 DEF PeerFlows
    <3>2. CASE f.type # "SETTINGS"
      <4>1. \A j \in DOMAIN u : u[j].type = "SETTINGS" => j \in DOMAIN up /\ u[j] = up[j]
        BY <1>5, <1>6, <3>2
      <4> QED
        BY <1>2, <2>1, <3>2, <4>1 DEF SettlesOnce, PeerFlows
    <3> QED
      BY <3>1, <3>2
  <2>2. ASSUME \A i \in DOMAIN u : u[i].type # "SETTINGS" PROVE srv.initial = peer'.initial
    <3>1. f.type # "SETTINGS" /\ \A i \in DOMAIN up : up[i].type # "SETTINGS"
      BY <1>5, <1>6, <2>2
    <3> QED
      BY <1>2, <3>1 DEF SettlesOnce, PeerFlows
  <2> QED
    BY <1>1, <1>4, <2>1, <2>2 DEF SettlesOnce
<1>8. /\ AllWeight(f) \in Int /\ \A type, k : Weight(f, type, k) \in Int
  BY <1>6, WeightType
<1>9. /\ AllUnits(up) \in Int /\ AllUnits(u) = AllUnits(up) + AllWeight(f)
      /\ \A type, k : /\ Units(up, type, k) \in Int
                      /\ Units(u, type, k) = Units(up, type, k) + Weight(f, type, k)
  BY <1>6 DEF Adds
<1>10. /\ peer.initial \in Int /\ peer.sendW \in Int /\ peer.recvW \in Int
       /\ \A k \in StreamIds : peer.streams[k].sendW \in Int /\ peer.streams[k].recvW \in Int
  BY <1>3, PeerNumbers
<1>11. \A k \in StreamIds : peer'.streams[k].sendW + Units(u, "DATA", k)
                               = peer.streams[k].sendW + Units(up, "DATA", k)
  <2> SUFFICES ASSUME NEW k \in StreamIds
               PROVE  peer'.streams[k].sendW + Units(u, "DATA", k)
                         = peer.streams[k].sendW + Units(up, "DATA", k)
    OBVIOUS
  <2>1. PICK x \in Int, y \in Int, z \in Int :
           /\ x = Units(up, "DATA", k) /\ y = Weight(f, "DATA", k) /\ Units(u, "DATA", k) = x + y
           /\ z = peer.streams[k].sendW
    BY <1>8, <1>9, <1>10
  <2>2. peer'.streams[k].sendW = z - y
    BY <2>1 DEF PeerFlows
  <2> QED
    BY <2>1, <2>2
<1>12. \A k \in StreamIds : peer'.streams[k].at = "idle" \/ Carries(u, "HEADERS", k) =>
          peer'.streams[k].sendW + Units(u, "DATA", k) = Window
  <2> SUFFICES ASSUME NEW k \in StreamIds, peer'.streams[k].at = "idle" \/ Carries(u, "HEADERS", k)
               PROVE  peer'.streams[k].sendW + Units(u, "DATA", k) = Window
    OBVIOUS
  <2>1. peer.streams[k].at = "idle" \/ Carries(up, "HEADERS", k)
    BY <1>6 DEF PeerFlows
  <2> QED
    BY <1>2, <1>11, <2>1 DEF BodyBeforeOpen
<1>13. BodyBeforeOpen'
  <2>1. \A k : Carries(up, "HEADERS", k)' <=> Carries(u, "HEADERS", k)
    BY <1>4
  <2>2. \A k : Units(up, "DATA", k)' = Units(u, "DATA", k)
    BY <1>4
  <2> QED
    BY <1>12, <2>1, <2>2 DEF BodyBeforeOpen
<1>14. ASSUME NEW k \in StreamIds,
              \/ \E i \in DOMAIN u : u[i].type = "HEADERS" /\ u[i].id = k /\ u[i].end
              \/ \E i \in DOMAIN ready : ready[i].id = k /\ ready[i].detached
       PROVE  peer'.streams[k].at # "open" /\ ~Carries(u, "WINDOW_UPDATE", k)
  <2>1. CASE \/ \E i \in DOMAIN up : up[i].type = "HEADERS" /\ up[i].id = k /\ up[i].end
             \/ \E i \in DOMAIN ready : ready[i].id = k /\ ready[i].detached
    <3>1. peer.streams[k].at # "open" /\ ~Carries(up, "WINDOW_UPDATE", k)
      BY <1>2, <2>1 DEF NoEarlyCredit
    <3>2. Fresh(k)
      BY <2>1 DEF Fresh, Carries
    <3>3. peer.streams[k].at # "idle"
      BY <3>2, IdleFacts
    <3> QED
      BY <1>6, <3>1, <3>3 DEF PeerFlows
  <2>2. CASE f.type = "HEADERS" /\ f.id = k /\ f.end
    <3>1. peer.streams[k].at = "idle" /\ peer'.streams[k].at # "open"
      BY <2>2 DEF PeerFlows
    <3> QED
      BY <1>6, <2>2, <3>1, IdleFacts
  <2> QED
    BY <1>5, <1>6, <1>14, <2>1, <2>2
<1>15. NoEarlyCredit'
  <2>1. \A k : Carries(up, "WINDOW_UPDATE", k)' <=> Carries(u, "WINDOW_UPDATE", k)
    BY <1>4
  <2> QED
    BY <1>1, <1>4, <1>14, <2>1 DEF NoEarlyCredit
<1>16. Sending' = Sending /\ Live' = Live
  BY <1>1 DEF Sending, Live
<1>17. srv.sendW + AllUnits(Sending) + Units(u, "WINDOW_UPDATE", 0) = peer'.recvW
  <2>1. Weight(f, "WINDOW_UPDATE", 0) = 0
    BY H2Assumption DEF PeerFlows, Weight
  <2>2. Units(u, "WINDOW_UPDATE", 0) = Units(up, "WINDOW_UPDATE", 0)
    BY <1>9, <2>1
  <2> QED
    BY <1>2, <2>2 DEF Balanced, PeerFlows
<1>18. \A type, k : Units(Sending, type, k) \in Int
  BY <1>3, WireTypes, UnitsType
<1>19. peer'.sendW + Units(Sending, "WINDOW_UPDATE", 0) + AllUnits(u) = srv.recvW
  <2>1. PICK x \in Int, y \in Int, z \in Int, w \in Int :
           /\ x = AllUnits(up) /\ y = AllWeight(f) /\ AllUnits(u) = x + y
           /\ z = peer.sendW /\ w = Units(Sending, "WINDOW_UPDATE", 0)
    BY <1>8, <1>9, <1>10, <1>18
  <2>2. peer'.sendW = z - y
    BY <2>1 DEF PeerFlows
  <2>3. z + w + x = srv.recvW
    BY <1>2, <2>1 DEF Balanced
  <2>4. (z - y) + w + (x + y) = z + w + x
    OBVIOUS
  <2> QED
    BY <2>1, <2>2, <2>3, <2>4
<1>20. ASSUME NEW k \in StreamIds, k \in Live \/ Unanswered(k)'
       PROVE  (StreamWindow(srv, k) - srv.initial) + Units(Sending, "DATA", k)
                  + Units(u, "WINDOW_UPDATE", k) = peer'.streams[k].recvW - peer'.initial
  <2>1. PICK a \in Int, b \in Int, x \in Int, y \in Int :
           /\ a = StreamWindow(srv, k) - srv.initial /\ b = Units(Sending, "DATA", k)
           /\ x = Units(up, "WINDOW_UPDATE", k) /\ y = Weight(f, "WINDOW_UPDATE", k)
           /\ Units(u, "WINDOW_UPDATE", k) = x + y
    <3>1. StreamWindow(srv, k) \in Int /\ srv.initial \in Int
      BY <1>3, SrvFields
    <3> QED
      BY <1>8, <1>9, <1>18, <3>1
  <2>2. CASE f.type = "HEADERS" /\ f.id = k
    <3>1. peer.streams[k].at = "idle" /\ peer'.streams[k].recvW = peer'.initial
      BY <2>2 DEF PeerFlows
    <3>2. k \notin Live /\ b = 0 /\ x = 0
      BY <2>1, <3>1, IdleFacts
    <3>3. y = 0
      BY <2>1, <2>2 DEF Weight
    <3>4. a = 0
      <4>1. srv.initial \in Int /\ StreamWindow(srv, k) = srv.initial
        BY <1>3, <3>2, SrvFields DEF StreamWindow, Live
      <4> QED
        BY <2>1, <4>1
    <3>5. peer'.initial \in Int
      BY <1>10, <2>2 DEF PeerFlows
    <3> QED
      BY <2>1, <3>1, <3>2, <3>3, <3>4, <3>5
  <2>3. CASE ~(f.type = "HEADERS" /\ f.id = k)
    <3>1. k \in Live \/ Unanswered(k)
      <4>1. ASSUME NEW i \in DOMAIN u, u[i].type = "HEADERS", u[i].id = k
            PROVE  i \in DOMAIN up /\ up[i].type = "HEADERS" /\ up[i].id = k
        BY <1>5, <1>6, <2>3, <4>1
      <4> QED
        BY <1>1, <1>4, <1>20, <4>1 DEF Unanswered
    <3>2. a + b + x = peer.streams[k].recvW - peer.initial
      BY <1>2, <2>1, <3>1 DEF Balanced
    <3>3. peer'.streams[k].recvW - peer'.initial = (peer.streams[k].recvW - peer.initial) + y
      BY <2>1, <2>3 DEF PeerFlows
    <3>4. peer'.streams[k].recvW - peer'.initial = (a + b + x) + y
      BY <3>2, <3>3
    <3>5. a + b + (x + y) = (a + b + x) + y
      OBVIOUS
    <3> QED
      BY <2>1, <3>4, <3>5
  <2> QED
    BY <2>2, <2>3
<1>21. ASSUME NEW k \in StreamIds, k \in Live, srv.streams[k].open
       PROVE  peer'.streams[k].sendW + Units(Sending, "WINDOW_UPDATE", k) + Units(u, "DATA", k)
                  = srv.streams[k].recvW
  <2>1. PICK x \in Int, y \in Int, z \in Int, w \in Int :
           /\ x = Units(up, "DATA", k) /\ y = Weight(f, "DATA", k) /\ Units(u, "DATA", k) = x + y
           /\ z = peer.streams[k].sendW /\ w = Units(Sending, "WINDOW_UPDATE", k)
    BY <1>8, <1>9, <1>10, <1>18
  <2>2. peer'.streams[k].sendW = z - y
    BY <2>1 DEF PeerFlows
  <2>3. z + w + x = srv.streams[k].recvW
    BY <1>2, <1>21, <2>1 DEF Balanced
  <2>4. (z - y) + w + (x + y) = z + w + x
    OBVIOUS
  <2> QED
    BY <2>1, <2>2, <2>3, <2>4
<1>22. Balanced'
  BY <1>1, <1>4, <1>16, <1>17, <1>19, <1>20, <1>21 DEF Balanced
<1> QED
  BY <1>7, <1>13, <1>15, <1>22 DEF Flowing

LEMMA PeerPutsFlow ==
    ASSUME Running, "done" \notin plan.early, NEW id \in StreamIds, NEW f, NEW st, PeerPuts(id, f, st)
    PROVE  PeerFlows(f)
<1>1. /\ f \in UpFrames /\ f.id = id /\ st \in PeerStreams /\ peer' = PeerPut(peer, id, st)
      /\ st.at # "idle" /\ st.sendW = peer.streams[id].sendW
      /\ \/ /\ f.type = "HEADERS" /\ peer.streams[id].at = "idle"
            /\ st.recvW = peer.initial /\ (f.end => st.at # "open")
         \/ f.type = "RST_STREAM" /\ st.recvW = peer.streams[id].recvW /\ st.at = "reset"
         \/ /\ f.type = "WINDOW_UPDATE" /\ f.n = 1 /\ st.recvW = peer.streams[id].recvW + 1
            /\ st.at = peer.streams[id].at /\ st.at \in plan.early
  BY DEF PeerPuts
<1>2. H2Typed /\ peer \in PeerStates
  BY DEF Running, H2Core, H2Typed
<1>3. PICK q : q = peer'
  OBVIOUS
<1>4. /\ q.streams[id] = st /\ q.initial = peer.initial /\ q.sendW = peer.sendW
      /\ q.recvW = peer.recvW /\ q.changed = peer.changed
      /\ \A k \in StreamIds : k # id => q.streams[k] = peer.streams[k]
  BY <1>1, <1>2, <1>3, PeerPutFacts
<1>5. /\ peer.initial \in Int /\ peer.sendW \in Int
      /\ \A k \in StreamIds : peer.streams[k].sendW \in Int /\ peer.streams[k].recvW \in Int
  BY <1>2, PeerNumbers
<1>6. AllWeight(f) = 0 /\ \A k : Weight(f, "DATA", k) = 0
  BY <1>1 DEF AllWeight, Weight
<1>7. \A k : Weight(f, "WINDOW_UPDATE", k) = IF f.type = "WINDOW_UPDATE" /\ k = id THEN 1 ELSE 0
  BY <1>1 DEF Weight
<1>8. f.type = "WINDOW_UPDATE" => peer.streams[id].at = "open"
  <2>1. plan \in H2Uses
    BY <1>2, H2Assumption DEF H2Typed
  <2>2. plan.early \in SUBSET {"open", "done"}
    BY <2>1 DEF H2Uses
  <2> QED
    BY <1>1, <2>2
<1>9. q.recvW = peer.recvW /\ q.sendW = peer.sendW - AllWeight(f)
  BY <1>4, <1>5, <1>6
<1>10. ASSUME NEW k \in StreamIds
       PROVE  /\ q.streams[k].sendW = peer.streams[k].sendW - Weight(f, "DATA", k)
              /\ q.streams[k].at = "idle" => peer.streams[k].at = "idle"
              /\ IF f.type = "HEADERS" /\ f.id = k
                 THEN /\ peer.streams[k].at = "idle" /\ q.streams[k].recvW = q.initial
                      /\ f.end => q.streams[k].at # "open"
                 ELSE /\ q.streams[k].recvW - q.initial
                            = (peer.streams[k].recvW - peer.initial) + Weight(f, "WINDOW_UPDATE", k)
                      /\ q.streams[k].at = "open" => peer.streams[k].at = "open"
  <2>1. CASE k # id
    <3>1. q.streams[k] = peer.streams[k] /\ Weight(f, "WINDOW_UPDATE", k) = 0
      BY <1>4, <1>7, <2>1
    <3> QED
      BY <1>1, <1>4, <1>5, <1>6, <2>1, <3>1
  <2>2. CASE k = id
    <3>1. q.streams[k].sendW = peer.streams[k].sendW - Weight(f, "DATA", k) /\ q.streams[k].at # "idle"
      BY <1>1, <1>4, <1>5, <1>6, <2>2
    <3>2. CASE f.type = "HEADERS"
      BY <1>1, <1>4, <2>2, <3>1, <3>2
    <3>3. CASE f.type # "HEADERS"
      <4>1. st.recvW = peer.streams[id].recvW + Weight(f, "WINDOW_UPDATE", id)
        BY <1>1, <1>5, <1>7, <3>3
      <4>2. st.at = "open" => peer.streams[id].at = "open"
        BY <1>1, <3>3
      <4>3. Weight(f, "WINDOW_UPDATE", id) \in Int
        BY <1>7
      <4>4. st.recvW - peer.initial = (peer.streams[id].recvW - peer.initial) + Weight(f, "WINDOW_UPDATE", id)
        BY <1>5, <4>1, <4>3
      <4> QED
        BY <1>4, <2>2, <3>1, <3>3, <4>2, <4>4
    <3> QED
      BY <3>2, <3>3
  <2> QED
    BY <2>1, <2>2
<1> QED
  BY <1>1, <1>3, <1>4, <1>8, <1>9, <1>10 DEF PeerFlows

LEMMA PeerStreamFlows ==
    ASSUME Running, H2Flow, UNCHANGED plan, NEW id \in StreamIds,
           PeerRequests(id) \/ PeerResets(id) \/ PeerExtends(id)
    PROVE  H2Flow'
<1>1. PICK f, st : PeerPuts(id, f, st)
  BY PeerRequestsIs, PeerResetsIs, PeerExtendsIs DEF Running, H2Core
<1>2. PeerSays(f)
  BY <1>1 DEF PeerPuts, PeerSays, PeerOnly
<1>3. CASE "done" \notin plan.early
  BY <1>1, <1>2, <1>3, PeerPutsFlow, PeerFlowsKeeps
<1>4. CASE "done" \in plan.early
  BY <1>4 DEF H2Flow
<1> QED
  BY <1>3, <1>4

LEMMA PeerSendsFlow ==
    ASSUME Running, H2Flow, UNCHANGED plan, NEW id \in StreamIds, PeerSends(id)
    PROVE  H2Flow'
<1>1. H2Typed
  BY DEF Running, H2Core
<1>2. PICK n \in {0, 1}, end \in BOOLEAN, f \in UpFrames :
         /\ f.type = "DATA" /\ f.id = id /\ f.n = n /\ f.end = end
         /\ up' = Append(up, f)
         /\ peer' \in PeerStates /\ peer'.initial = peer.initial /\ peer'.recvW = peer.recvW
         /\ peer'.changed = peer.changed /\ peer'.sendW = peer.sendW - n
         /\ peer'.streams[id].at = (IF end THEN "done" ELSE "open")
         /\ peer'.streams[id].sendW = peer.streams[id].sendW - n
         /\ peer'.streams[id].recvW = peer.streams[id].recvW
         /\ \A k \in StreamIds : k # id => peer'.streams[k] = peer.streams[k]
  BY <1>1, PeerSendsIs
<1>3. PeerSays(f) /\ peer.streams[id].at = "open"
  BY <1>2 DEF PeerSends, PeerSays, PeerOnly
<1>4. /\ peer.initial \in Int
      /\ \A k \in StreamIds : peer.streams[k].sendW \in Int /\ peer.streams[k].recvW \in Int
  BY <1>1, PeerNumbers
<1>5. AllWeight(f) = n /\ \A k : Weight(f, "DATA", k) = IF k = id THEN n ELSE 0
  BY <1>2 DEF AllWeight, Weight
<1>6. \A k : Weight(f, "WINDOW_UPDATE", k) = 0
  BY <1>2 DEF Weight
<1>7. PICK q : q = peer'
  OBVIOUS
<1>8. ASSUME NEW k \in StreamIds
      PROVE  /\ q.streams[k].sendW = peer.streams[k].sendW - Weight(f, "DATA", k)
             /\ q.streams[k].at = "idle" => peer.streams[k].at = "idle"
             /\ q.streams[k].recvW - q.initial
                   = (peer.streams[k].recvW - peer.initial) + Weight(f, "WINDOW_UPDATE", k)
             /\ q.streams[k].at = "open" => peer.streams[k].at = "open"
  <2>1. CASE k # id
    BY <1>2, <1>4, <1>5, <1>6, <1>7, <2>1
  <2>2. CASE k = id
    BY <1>2, <1>3, <1>4, <1>5, <1>6, <1>7, <2>2
  <2> QED
    BY <2>1, <2>2
<1>9. PeerFlows(f)
  BY <1>2, <1>5, <1>7, <1>8 DEF PeerFlows
<1> QED
  BY <1>3, <1>9, PeerFlowsKeeps

LEMMA PeerChangesFlow ==
    ASSUME Running, H2Flow, UNCHANGED plan, PeerChangesWindow
    PROVE  H2Flow'
<1>1. H2Typed
  BY DEF Running, H2Core
<1>2. PICK n \in Nat, f \in UpFrames :
         /\ f.type = "SETTINGS" /\ f.id = 0 /\ f.n = n /\ up' = Append(up, f)
         /\ peer' \in PeerStates /\ peer'.initial = n /\ peer'.changed
         /\ peer'.sendW = peer.sendW /\ peer'.recvW = peer.recvW
         /\ \A k \in StreamIds :
               /\ peer'.streams[k].at = peer.streams[k].at
               /\ peer'.streams[k].sendW = peer.streams[k].sendW
               /\ peer'.streams[k].recvW = peer.streams[k].recvW + n - peer.initial
  BY <1>1, PeerChangesIs
<1>3. PeerSays(f) /\ ~peer.changed
  BY <1>2 DEF PeerChangesWindow, PeerSays, PeerOnly
<1>4. /\ peer.initial \in Int /\ peer.sendW \in Int
      /\ \A k \in StreamIds : peer.streams[k].sendW \in Int /\ peer.streams[k].recvW \in Int
  BY <1>1, PeerNumbers
<1>5. AllWeight(f) = 0 /\ \A k : Weight(f, "DATA", k) = 0 /\ Weight(f, "WINDOW_UPDATE", k) = 0
  BY <1>2 DEF AllWeight, Weight
<1>6. PICK q : q = peer'
  OBVIOUS
<1>7. ASSUME NEW k \in StreamIds
      PROVE  /\ q.streams[k].sendW = peer.streams[k].sendW - Weight(f, "DATA", k)
             /\ q.streams[k].at = peer.streams[k].at
             /\ q.streams[k].recvW - q.initial
                   = (peer.streams[k].recvW - peer.initial) + Weight(f, "WINDOW_UPDATE", k)
  BY <1>2, <1>4, <1>5, <1>6
<1>8. q.sendW = peer.sendW - AllWeight(f)
  BY <1>2, <1>4, <1>5, <1>6
<1>9. PeerFlows(f)
  BY <1>2, <1>3, <1>6, <1>7, <1>8 DEF PeerFlows
<1> QED
  BY <1>3, <1>9, PeerFlowsKeeps

(* The frames with which the peer returns credit.                           *)
LEMMA ReturnUnits ==
    ASSUME NEW a, NEW id \in Nat, NEW n \in Nat, Returns(a, id, n)
    PROVE  /\ AllUnits(a) = 0
           /\ \A type, k : Units(a, type, k) =
                 IF a # << >> /\ type = "WINDOW_UPDATE" /\ k = id THEN n ELSE 0
<1>1. CASE a = << >>
  BY <1>1, AllNone, UnitsNone
<1>2. CASE a = <<Frame("WINDOW_UPDATE", id, n, FALSE)>>
  <2>1. PICK f : f = Frame("WINDOW_UPDATE", id, n, FALSE)
    OBVIOUS
  <2>2. f \in Frames /\ f.type = "WINDOW_UPDATE" /\ f.id = id /\ f.n = n
    BY <2>1 DEF Frame, Frames, FrameTypes
  <2>3. a = <<f>> /\ a # << >>
    BY <1>2, <2>1
  <2>4. AllUnits(a) = 0
    BY <2>2, <2>3, AllOne
  <2>5. \A type, k : Units(a, type, k) = IF f.type = type /\ f.id = k THEN f.n ELSE 0
    BY <2>2, <2>3, UnitsOne
  <2> QED
    BY <2>2, <2>3, <2>4, <2>5
<1> QED
  BY <1>1, <1>2 DEF Returns

(* The peer takes f from the wire, and answers with a and b.                *)
PeerReads(f, a, b) ==
    /\ f \in DownFrames /\ down # << >> /\ f = Head(down) /\ down' = Tail(down)
    /\ Taken(f, peer', a, b) /\ up' = (up \o a) \o b
    /\ UNCHANGED <<plan, srv, ready, ended>>

LEMMA PeerReadsUnits ==
    ASSUME Running, NEW f, NEW a, NEW b, PeerReads(f, a, b)
    PROVE  /\ Adds(Sending, Sending', f) /\ Mentions(Sending, f.id)
           /\ AllUnits(up') = AllUnits(up) /\ AllUnits(up) \in Int
           /\ \A type, k : /\ Units(up, type, k) \in Int /\ Units(a, type, k) \in Int
                           /\ Units(b, type, k) \in Int
                           /\ Units(up', type, k)
                                 = (Units(up, type, k) + Units(a, type, k)) + Units(b, type, k)
<1>1. /\ f \in DownFrames /\ down # << >> /\ f = Head(down) /\ down' = Tail(down)
      /\ up' = (up \o a) \o b /\ srv' = srv /\ Returns(a, 0, f.n) /\ Returns(b, f.id, f.n)
  BY DEF PeerReads, Taken
<1>2. H2Typed /\ down \in Seq(DownFrames) /\ up \in Seq(UpFrames) /\ srv \in SrvStates
  BY DEF Running, H2Core, H2Typed
<1>3. f \in Frames /\ f.n \in Nat /\ f.id \in Nat /\ (f.type = "DATA" => f.id \in StreamIds)
  BY <1>1 DEF DownFrames, Frames
<1>4. down \in Seq(Frames) /\ up \in Seq(Frames)
  BY <1>2, FramesOnWires
<1>5. Adds(down, down', f)
  BY <1>1, <1>3, <1>4, UnitsFirst
<1>6. Mentions(Sending, f.id)
  BY <1>1, <1>2, MentionsTail, SendingFacts
<1>7. PICK o \in Seq(DownFrames) : o = srv.out
  BY <1>2, SrvFields
<1>8. down' \in Seq(DownFrames)
  BY <1>1, <1>2, HeadAndTail
<1>9. PICK q : q = Sending'
  OBVIOUS
<1>10. q = down' \o o /\ Sending = down \o o
  BY <1>1, <1>7, <1>9 DEF Sending
<1>11. Joins(q, down', o)
  BY <1>7, <1>8, <1>10, UnitsBoth
<1>12. Joins(Sending, down, o)
  BY <1>2, <1>7, <1>10, UnitsBoth
<1>13. Adds(Sending, q, f)
  <2>0. AllWeight(f) \in Int /\ \A type, k : Weight(f, type, k) \in Int
    BY <1>3, WeightType
  <2>1. AllUnits(q) \in Int /\ AllUnits(Sending) = AllUnits(q) + AllWeight(f)
    BY <1>5, <1>11, <1>12, <2>0 DEF Adds, Joins
  <2>2. ASSUME NEW type, NEW k
        PROVE  /\ Units(q, type, k) \in Int
               /\ Units(Sending, type, k) = Units(q, type, k) + Weight(f, type, k)
    <3>1. PICK d \in Int, x \in Int, y \in Int, w \in Int :
             /\ d = Units(down', type, k) /\ x = Units(o, type, k) /\ y = Units(down, type, k)
             /\ w = Weight(f, type, k) /\ y = d + w
             /\ Units(q, type, k) = d + x /\ Units(Sending, type, k) = y + x
      BY <1>5, <1>11, <1>12, <2>0 DEF Adds, Joins
    <3>2. (d + w) + x = (d + x) + w /\ d + x \in Int
      OBVIOUS
    <3> QED
      BY <3>1, <3>2
  <2> QED
    BY <2>1, <2>2 DEF Adds
<1>14. a \in Seq(Frames) /\ b \in Seq(Frames)
  <2>1. a \in Seq(UpFrames) /\ b \in Seq(UpFrames)
    BY <1>1, <1>3, ReturnsFacts
  <2> QED
    BY <2>1, FramesOnWires
<1>15. PICK c : c = up \o a
  OBVIOUS
<1>16. c \in Seq(Frames)
  <2> HIDE DEF Frames
  <2> QED
    BY <1>4, <1>14, <1>15
<1>17. PICK u : u = c \o b
  OBVIOUS
<1>18. AllUnits(c) = AllUnits(up) + AllUnits(a) /\ AllUnits(u) = AllUnits(c) + AllUnits(b)
  BY <1>4, <1>14, <1>15, <1>16, <1>17, AllConcat
<1>19. \A type, k : Units(c, type, k) = Units(up, type, k) + Units(a, type, k)
  <2>1. \A type, k : Units(up \o a, type, k) = Units(up, type, k) + Units(a, type, k)
    BY <1>4, <1>14, UnitsConcat
  <2> QED
    BY <1>15, <2>1
<1>20. \A type, k : Units(u, type, k) = Units(c, type, k) + Units(b, type, k)
  <2>1. \A type, k : Units(c \o b, type, k) = Units(c, type, k) + Units(b, type, k)
    BY <1>14, <1>16, UnitsConcat
  <2> QED
    BY <1>17, <2>1
<1>21. u = up'
  BY <1>1, <1>15, <1>17
<1>22. AllUnits(a) = 0 /\ AllUnits(b) = 0 /\ AllUnits(up) \in Int
  BY <1>1, <1>3, <1>4, ReturnUnits, UnitsType
<1>23. \A type, k : Units(up, type, k) \in Int /\ Units(a, type, k) \in Int /\ Units(b, type, k) \in Int
  BY <1>4, <1>14, UnitsType
<1>24. AllUnits(u) = AllUnits(up)
  BY <1>18, <1>22
<1>25. \A type, k : Units(u, type, k) = (Units(up, type, k) + Units(a, type, k)) + Units(b, type, k)
  BY <1>19, <1>20
<1> QED
  BY <1>6, <1>9, <1>13, <1>21, <1>22, <1>23, <1>24, <1>25

LEMMA PeerReadsFlow ==
    ASSUME Running, H2Flow, NEW f, NEW a, NEW b, PeerReads(f, a, b)
    PROVE  H2Flow'
<1> SUFFICES ASSUME "done" \notin plan'.early PROVE Flowing'
  BY DEF H2Flow
<1>1. UNCHANGED plan /\ srv' = srv /\ ready' = ready /\ f \in DownFrames /\ Taken(f, peer', a, b)
  BY DEF PeerReads
<1>2. SettlesOnce /\ BodyBeforeOpen /\ NoEarlyCredit /\ Balanced
  BY <1>1 DEF H2Flow, Flowing, Running
<1>3. H2Typed /\ srv \in SrvStates /\ up \in Seq(UpFrames)
  BY DEF Running, H2Core, H2Typed
<1>4. /\ f \in Frames /\ f.n \in Nat /\ f.id \in Nat /\ 0 \notin StreamIds
      /\ f.type \in {"HEADERS", "DATA", "WINDOW_UPDATE"} /\ (f.type = "HEADERS" => f.n = 0)
      /\ f.id \in StreamIds \/ (f.id = 0 /\ f.type = "WINDOW_UPDATE")
  BY <1>1, H2Assumption DEF DownFrames, Frames
<1>5. PICK u : u = up'
  OBVIOUS
<1>6. PICK q : q = Sending'
  OBVIOUS
<1>7. PICK p : p = peer'
  OBVIOUS
<1>8. /\ p.initial = peer.initial /\ p.recvW = peer.recvW /\ p.changed = peer.changed
      /\ p.sendW = peer.sendW + Weight(f, "WINDOW_UPDATE", 0)
      /\ \A k \in StreamIds :
            /\ p.streams[k].at = peer.streams[k].at
            /\ p.streams[k].sendW = peer.streams[k].sendW + Weight(f, "WINDOW_UPDATE", k)
            /\ p.streams[k].recvW = peer.streams[k].recvW
                  - (IF f.type # "WINDOW_UPDATE" /\ f.id = k /\ b = << >> THEN f.n ELSE 0)
      /\ Returns(a, 0, f.n) /\ (a = << >> <=> f.type # "DATA" \/ f.n = 0)
      /\ Returns(b, f.id, f.n) /\ (b # << >> => f.type = "DATA")
  BY <1>1, <1>7 DEF Taken, Weight
<1>9. /\ \A i \in DOMAIN up : i \in DOMAIN u /\ u[i] = up[i]
      /\ \A i \in DOMAIN u : i \in DOMAIN up
                             \/ (u[i].type = "WINDOW_UPDATE" /\ u[i].id \in {0, f.id})
  <2>1. /\ a \in Seq(UpFrames) /\ \A i \in DOMAIN a : a[i].type = "WINDOW_UPDATE" /\ a[i].id = 0
        /\ b \in Seq(UpFrames) /\ \A i \in DOMAIN b : b[i].type = "WINDOW_UPDATE" /\ b[i].id = f.id
    <3>1. f.n \in Nat /\ f.id \in Nat /\ 0 \in Nat /\ Returns(a, 0, f.n) /\ Returns(b, f.id, f.n)
      BY <1>4, <1>8
    <3>2. a \in Seq(UpFrames) /\ \A i \in DOMAIN a : a[i].type = "WINDOW_UPDATE" /\ a[i].id = 0
      BY ONLY <3>1, ReturnsFacts
    <3>3. b \in Seq(UpFrames) /\ \A i \in DOMAIN b : b[i].type = "WINDOW_UPDATE" /\ b[i].id = f.id
      BY ONLY <3>1, ReturnsFacts
    <3> QED
      BY <3>2, <3>3
  <2>2. u = (up \o a) \o b
    BY <1>5 DEF PeerReads
  <2>3. u \in Seq(UpFrames) /\ Extended(up, a, b, u)
    BY <1>3, <2>1, <2>2, UpExtends
  <2>4. DOMAIN up \in SUBSET DOMAIN u
    <3>1. DOMAIN up = 1 .. Len(up) /\ DOMAIN u = 1 .. Len(u) /\ Len(up) \in Nat /\ Len(u) \in Nat
      <4> HIDE DEF UpFrames
      <4> QED
        BY <1>3, <2>3
    <3>2. Len(up) <= Len(u)
      BY <2>3 DEF Extended
    <3> QED
      BY <3>1, <3>2
  <2> QED
    BY <2>1, <2>3, <2>4 DEF Extended
<1>10. /\ \A k : Carries(u, "HEADERS", k) <=> Carries(up, "HEADERS", k)
       /\ \A k : Carries(u, "WINDOW_UPDATE", k) => Carries(up, "WINDOW_UPDATE", k) \/ k \in {0, f.id}
  BY <1>9 DEF Carries
<1>11. SettlesOnce'
  <2>1. \A i \in DOMAIN u : u[i].type = "SETTINGS" => i \in DOMAIN up /\ u[i] = up[i]
    BY <1>9
  <2>2. /\ \A i \in DOMAIN u : u[i].type = "SETTINGS" =>
              /\ p.changed /\ u[i].n = p.initial
              /\ \A j \in DOMAIN u : u[j].type = "SETTINGS" => i = j
        /\ (\A i \in DOMAIN u : u[i].type # "SETTINGS") => srv.initial = p.initial
    BY <1>2, <1>8, <1>9, <2>1 DEF SettlesOnce
  <2> QED
    BY <1>1, <1>5, <1>7, <2>2 DEF SettlesOnce
<1>12. /\ Adds(Sending, q, f) /\ Mentions(Sending, f.id)
       /\ AllUnits(u) = AllUnits(up) /\ AllUnits(up) \in Int
  BY <1>5, <1>6, PeerReadsUnits
<1>13. \A type, k : /\ Units(up, type, k) \in Int /\ Units(a, type, k) \in Int
                    /\ Units(b, type, k) \in Int
                    /\ Units(u, type, k) = (Units(up, type, k) + Units(a, type, k)) + Units(b, type, k)
  BY <1>5, PeerReadsUnits
<1>14. \A type, k :
          /\ Units(a, type, k) = IF a # << >> /\ type = "WINDOW_UPDATE" /\ k = 0 THEN f.n ELSE 0
          /\ Units(b, type, k) = IF b # << >> /\ type = "WINDOW_UPDATE" /\ k = f.id THEN f.n ELSE 0
  <2>1. f.n \in Nat /\ f.id \in Nat /\ 0 \in Nat /\ Returns(a, 0, f.n) /\ Returns(b, f.id, f.n)
    BY <1>4, <1>8
  <2>2. \A type, k : Units(a, type, k) =
           IF a # << >> /\ type = "WINDOW_UPDATE" /\ k = 0 THEN f.n ELSE 0
    BY ONLY <2>1, ReturnUnits
  <2>3. \A type, k : Units(b, type, k) =
           IF b # << >> /\ type = "WINDOW_UPDATE" /\ k = f.id THEN f.n ELSE 0
    BY ONLY <2>1, ReturnUnits
  <2> QED
    BY <2>2, <2>3
<1>15. /\ AllWeight(f) \in Int /\ \A type, k : Weight(f, type, k) \in Int
  BY <1>4, WeightType
<1>16. ASSUME NEW k \in StreamIds, Fresh(k) \/ peer.streams[k].at = "idle"
       PROVE  f.id # k /\ Weight(f, "WINDOW_UPDATE", k) = 0
  <2>1. ~Mentions(Sending, k)
    BY <1>16, FreshFacts, IdleFacts DEF FreshIsNew
  <2> QED
    BY <1>12, <2>1 DEF Weight
<1>17. \A k : Units(u, "DATA", k) = Units(up, "DATA", k)
  BY <1>13, <1>14
<1>18. /\ peer.initial \in Int /\ peer.sendW \in Int /\ peer.recvW \in Int
       /\ \A k \in StreamIds : peer.streams[k].sendW \in Int /\ peer.streams[k].recvW \in Int
  BY <1>3, PeerNumbers
<1>19. \A k \in StreamIds : p.streams[k].at = "idle" \/ Carries(u, "HEADERS", k) =>
          p.streams[k].sendW + Units(u, "DATA", k) = Window
  <2> SUFFICES ASSUME NEW k \in StreamIds, p.streams[k].at = "idle" \/ Carries(u, "HEADERS", k)
               PROVE  p.streams[k].sendW + Units(u, "DATA", k) = Window
    OBVIOUS
  <2>1. peer.streams[k].at = "idle" \/ Carries(up, "HEADERS", k)
    BY <1>8, <1>10
  <2>2. p.streams[k].sendW = peer.streams[k].sendW
    BY <1>8, <1>16, <1>18, <2>1 DEF Fresh
  <2> QED
    BY <1>2, <1>17, <2>1, <2>2 DEF BodyBeforeOpen
<1>20. BodyBeforeOpen'
  <2>1. \A k : Carries(up, "HEADERS", k)' <=> Carries(u, "HEADERS", k)
    BY <1>5
  <2>2. \A k : Units(up, "DATA", k)' = Units(u, "DATA", k)
    BY <1>5
  <2> QED
    BY <1>7, <1>19, <2>1, <2>2 DEF BodyBeforeOpen
<1>21. ASSUME NEW k \in StreamIds,
              \/ \E i \in DOMAIN u : u[i].type = "HEADERS" /\ u[i].id = k /\ u[i].end
              \/ \E i \in DOMAIN ready : ready[i].id = k /\ ready[i].detached
       PROVE  p.streams[k].at # "open" /\ ~Carries(u, "WINDOW_UPDATE", k)
  <2>1. \/ \E i \in DOMAIN up : up[i].type = "HEADERS" /\ up[i].id = k /\ up[i].end
        \/ \E i \in DOMAIN ready : ready[i].id = k /\ ready[i].detached
    BY <1>9, <1>21
  <2>2. peer.streams[k].at # "open" /\ ~Carries(up, "WINDOW_UPDATE", k)
    BY <1>2, <2>1 DEF NoEarlyCredit
  <2>3. Fresh(k)
    BY <2>1 DEF Fresh, Carries
  <2> QED
    BY <1>4, <1>8, <1>10, <1>16, <2>2, <2>3
<1>22. NoEarlyCredit'
  <2>1. \A k : Carries(up, "WINDOW_UPDATE", k)' <=> Carries(u, "WINDOW_UPDATE", k)
    BY <1>5
  <2> QED
    BY <1>1, <1>5, <1>7, <1>21, <2>1 DEF NoEarlyCredit
<1>23. srv.sendW + AllUnits(q) + Units(u, "WINDOW_UPDATE", 0) = p.recvW
  <2>1. PICK s \in Int, x \in Int, y \in Int, w \in Int :
           /\ s = srv.sendW /\ x = AllUnits(q) /\ y = AllWeight(f) /\ w = Units(up, "WINDOW_UPDATE", 0)
           /\ AllUnits(Sending) = x + y
    BY <1>3, <1>12, <1>13, <1>15, SrvFields DEF Adds
  <2>2. Units(a, "WINDOW_UPDATE", 0) = y
    BY <1>8, <1>14, <2>1 DEF AllWeight
  <2>3. Units(b, "WINDOW_UPDATE", 0) = 0
    BY <1>4, <1>8, <1>14
  <2>4. Units(u, "WINDOW_UPDATE", 0) = (w + y) + 0
    BY <1>13, <2>1, <2>2, <2>3
  <2>5. s + (x + y) + w = peer.recvW
    BY <1>2, <2>1 DEF Balanced
  <2>6. s + x + ((w + y) + 0) = s + (x + y) + w
    OBVIOUS
  <2> QED
    BY <1>8, <2>1, <2>4, <2>5, <2>6
<1>24. p.sendW + Units(q, "WINDOW_UPDATE", 0) + AllUnits(u) = srv.recvW
  <2>1. PICK z \in Int, x \in Int, y \in Int, w \in Int :
           /\ z = peer.sendW /\ x = Units(q, "WINDOW_UPDATE", 0) /\ y = Weight(f, "WINDOW_UPDATE", 0)
           /\ w = AllUnits(up) /\ Units(Sending, "WINDOW_UPDATE", 0) = x + y
    BY <1>12, <1>15, <1>18 DEF Adds
  <2>2. z + (x + y) + w = srv.recvW
    BY <1>2, <2>1 DEF Balanced
  <2>3. (z + y) + x + w = z + (x + y) + w
    OBVIOUS
  <2> QED
    BY <1>8, <1>12, <2>1, <2>2, <2>3
<1>25. ASSUME NEW k \in StreamIds, k \in Live \/ Unanswered(k)'
       PROVE  (StreamWindow(srv, k) - srv.initial) + Units(q, "DATA", k)
                  + Units(u, "WINDOW_UPDATE", k) = p.streams[k].recvW - p.initial
  <2>1. PICK c \in Int, x \in Int, y \in Int, w \in Int, z \in Int, i \in Int :
           /\ c = StreamWindow(srv, k) - srv.initial /\ x = Units(q, "DATA", k)
           /\ y = Weight(f, "DATA", k) /\ Units(Sending, "DATA", k) = x + y
           /\ w = Units(up, "WINDOW_UPDATE", k) /\ z = peer.streams[k].recvW /\ i = peer.initial
    <3>1. StreamWindow(srv, k) \in Int /\ srv.initial \in Int
      BY <1>3, SrvFields
    <3>2. /\ Units(q, "DATA", k) \in Int
          /\ Units(Sending, "DATA", k) = Units(q, "DATA", k) + Weight(f, "DATA", k)
      BY <1>12 DEF Adds
    <3>3. Weight(f, "DATA", k) \in Int
      BY <1>15
    <3>4. Units(up, "WINDOW_UPDATE", k) \in Int
      BY <1>13
    <3>5. peer.streams[k].recvW \in Int /\ peer.initial \in Int
      BY <1>18
    <3>6. StreamWindow(srv, k) - srv.initial \in Int
      BY <3>1
    <3> QED
      BY ONLY <3>2, <3>3, <3>4, <3>5, <3>6
  <2>2. k \in Live \/ Unanswered(k)
    <3>1. ASSUME NEW j \in DOMAIN u, u[j].type = "HEADERS", u[j].id = k
          PROVE  j \in DOMAIN up /\ up[j].type = "HEADERS" /\ up[j].id = k
      BY <1>9, <3>1
    <3> QED
      BY <1>1, <1>5, <1>25, <3>1 DEF Unanswered
  <2>3. c + (x + y) + w = z - i
    BY <1>2, <2>1, <2>2 DEF Balanced
  <2>4. k # 0
    BY <1>4
  <2>5. PICK m \in Int, l \in Int :
           /\ m = (IF b # << >> /\ k = f.id THEN f.n ELSE 0)
           /\ l = (IF f.type # "WINDOW_UPDATE" /\ f.id = k /\ b = << >> THEN f.n ELSE 0)
    BY <1>4
  <2>6. m + l = y
    BY <1>4, <1>8, <2>1, <2>5 DEF Weight
  <2>7. Units(u, "WINDOW_UPDATE", k) = (w + 0) + m
    BY <1>13, <1>14, <2>1, <2>4, <2>5
  <2>8. p.streams[k].recvW = z - l
    BY <1>8, <2>1, <2>5
  <2>9. c + x + ((w + 0) + m) = (z - l) - i
    BY <2>3, <2>6
  <2> QED
    BY <1>8, <2>1, <2>7, <2>8, <2>9
<1>26. ASSUME NEW k \in StreamIds, k \in Live, srv.streams[k].open
       PROVE  p.streams[k].sendW + Units(q, "WINDOW_UPDATE", k) + Units(u, "DATA", k)
                  = srv.streams[k].recvW
  <2>1. PICK z \in Int, x \in Int, y \in Int, w \in Int :
           /\ z = peer.streams[k].sendW /\ x = Units(q, "WINDOW_UPDATE", k)
           /\ y = Weight(f, "WINDOW_UPDATE", k) /\ w = Units(up, "DATA", k)
           /\ Units(Sending, "WINDOW_UPDATE", k) = x + y
    BY <1>12, <1>13, <1>15, <1>18 DEF Adds
  <2>2. z + (x + y) + w = srv.streams[k].recvW
    BY <1>2, <1>26, <2>1 DEF Balanced
  <2>3. (z + y) + x + w = z + (x + y) + w
    OBVIOUS
  <2> QED
    BY <1>8, <1>17, <2>1, <2>2, <2>3
<1>27. Live' = Live
  BY <1>1 DEF Live
<1>28. Balanced'
  BY <1>1, <1>5, <1>6, <1>7, <1>23, <1>24, <1>25, <1>26, <1>27 DEF Balanced
<1> QED
  BY <1>11, <1>20, <1>22, <1>28 DEF Flowing

LEMMA PeerReceivesFlow ==
    ASSUME Running, H2Flow, UNCHANGED plan, PeerReceives
    PROVE  H2Flow'
<1>1. /\ H2Typed /\ down # << >> /\ down' = Tail(down) /\ PeerOnly /\ down \in Seq(DownFrames)
  BY DEF PeerReceives, Running, H2Core, H2Typed
<1>2. PICK f : f = Head(down)
  OBVIOUS
<1>3. f \in DownFrames
  BY <1>1, <1>2, HeadAndTail
<1>4. PICK a, b : Taken(f, peer', a, b) /\ up' = (up \o a) \o b
  <2>1. PICK extend \in BOOLEAN : PeerTakes(f, extend)
    BY <1>2 DEF PeerReceives
  <2> QED
    BY <1>1, <1>3, <2>1, PeerTakesIs
<1>5. PeerReads(f, a, b)
  BY <1>1, <1>2, <1>3, <1>4 DEF PeerReads, PeerOnly
<1> QED
  BY <1>5, PeerReadsFlow

-----------------------------------------------------------------------------
LEMMA FlowInit == H2Init => H2Flow
<1> SUFFICES ASSUME H2Init PROVE Flowing
  BY DEF H2Flow
<1>1. /\ up = << >> /\ down = << >> /\ ready = << >> /\ Window \in Int
      /\ srv.initial = Window /\ srv.sendW = Window /\ srv.recvW = Window
      /\ srv.streams = << >> /\ srv.out = << >>
      /\ peer.initial = Window /\ peer.sendW = Window /\ peer.recvW = Window
      /\ \A k \in StreamIds : peer.streams[k].sendW = Window
  BY H2Assumption DEF H2Init
<1>2. DOMAIN up = {} /\ DOMAIN ready = {} /\ Live = {} /\ Sending = << >>
  BY <1>1 DEF Live, Sending
<1>3. /\ AllUnits(up) = 0 /\ AllUnits(Sending) = 0
      /\ \A type, k : Units(up, type, k) = 0 /\ Units(Sending, type, k) = 0
  BY <1>1, <1>2, AllNone, UnitsNone
<1>4. SettlesOnce
  BY <1>1, <1>2 DEF SettlesOnce
<1>5. BodyBeforeOpen
  BY <1>1, <1>3 DEF BodyBeforeOpen
<1>6. NoEarlyCredit
  BY <1>2 DEF NoEarlyCredit
<1>7. \A k : ~Unanswered(k)
  BY <1>2 DEF Unanswered
<1>8. Balanced
  BY <1>1, <1>2, <1>3, <1>7 DEF Balanced
<1> QED
  BY <1>4, <1>5, <1>6, <1>8 DEF Flowing

LEMMA FlowNext == H2Core /\ H2Core' /\ H2Flow /\ [H2Next]_h2Vars => H2Flow'
<1> SUFFICES ASSUME H2Core, H2Core', H2Flow, [H2Next]_h2Vars PROVE H2Flow'
  OBVIOUS
<1>1. CASE UNCHANGED h2Vars
  <2>1. UNCHANGED <<plan, srv, ready, ended, up, down, peer>>
    BY <1>1 DEF h2Vars
  <2>2. CASE ended \/ "done" \in plan.early
    BY <2>1, <2>2 DEF H2Flow
  <2>3. CASE ~ended /\ "done" \notin plan.early
    <3>1. Running
      BY <2>3 DEF Running
    <3>2. Running'
      BY <2>1, <2>3 DEF Running
    <3>3. Charged(srv, srv)
      BY ChargedSelf DEF H2Core, H2Typed
    <3>4. Flows(srv)
      BY <3>1, <3>3, ChargedFlows DEF Live
    <3>5. SessionStep(srv)
      BY <2>1 DEF SessionStep, Sending, H2Core, H2Typed
    <3> QED
      BY <3>1, <3>2, <3>4, <3>5, SessionFlowKeeps
  <2> QED
    BY <2>2, <2>3
<1>2. CASE H2Next
  <2>1. Running /\ UNCHANGED plan
    BY <1>2 DEF H2Next, Running
  <2>2. CASE Receive
    BY <2>1, <2>2, ReceiveFlows
  <2>3. CASE ended'
    BY <2>3 DEF H2Flow
  <2>4. CASE ~ended' /\ ~Receive
    <3>1. Running'
      BY <2>4 DEF Running
    <3>2. ASSUME NEW id \in StreamIds, Background(id) PROVE H2Flow'
      <4>1. CASE Consume(id)
        BY <2>1, <3>1, <4>1, SameWindowsFlow
      <4>2. CASE ~Consume(id)
        <5>1. PICK s : TaskTo(id, s)
          BY <2>1, <3>2, <4>2, TaskSteps DEF Running
        <5> QED
          BY <2>1, <3>1, <5>1, TaskFlows
      <4> QED
        BY <4>1, <4>2
    <3>3. ASSUME NEW id \in StreamIds, Peer(id) PROVE H2Flow'
      BY <2>1, <3>3, PeerStreamFlows, PeerSendsFlow DEF Peer
    <3>4. CASE \/ ReturnFlowCredit \/ Flush \/ Written
               \/ BeginDispatch \/ DispatchOne \/ EndDispatch
               \/ PeerChangesWindow \/ PeerReceives
      BY <2>1, <3>1, <3>4, ReturnFlows, SameWindowsFlow, DispatchFlows, EndFlows, PeerChangesFlow,
         PeerReceivesFlow
    <3> QED
      BY <1>2, <2>4, <3>2, <3>3, <3>4 DEF H2Next
  <2> QED
    BY <2>2, <2>3, <2>4
<1> QED
  BY <1>1, <1>2

-----------------------------------------------------------------------------
(* The credit of the connection is neither lost nor made, for any number of *)
(* streams, any windows and any use of the session: what the receive window *)
(* is short of is unread, or read and in pending_flow_credit_ or            *)
(* consumed_connection_credit, also when the stream it came from has been   *)
(* reset, answered or erased before return_flow_credit() runs.              *)
THEOREM ConnectionCreditConserved == H2Spec => []CreditConserved
<1>1. H2Core => CreditConserved
  BY DEF H2Core
<1> QED
  BY <1>1, CoreInductive, PTL

(* No response waits beside an open window: whatever opens one, a SETTINGS  *)
(* frame or a WINDOW_UPDATE of the stream or of the connection, is followed *)
(* in the same call by drain_pending_responses(), which leaves a response   *)
(* pending only if a window is closed again, in whatever order it takes the *)
(* responses.                                                               *)
THEOREM NoResponseLeftIdle == H2Spec => []NoIdleWindow
<1>1. H2Core => NoIdleWindow
  BY DEF H2Core, Orderly, NoIdleWindow
<1> QED
  BY <1>1, CoreInductive, PTL

(* The two ends agree on every window, up to what is on the wire, whatever  *)
(* the responses, the resets and the change of the initial window           *)
(* (queue_response_data(), return_flow_credit(), process_frame()): for any  *)
(* number of requests, and any peer that does not extend the window of a    *)
(* request it has completed before the response begins.                     *)
THEOREM WindowsAgreeWithoutEarlyCredit == H2Spec => []("done" \notin plan.early => WindowsAgree)
<1>1. H2Core /\ H2Flow => ("done" \notin plan.early => WindowsAgree)
  <2> SUFFICES ASSUME H2Core, H2Flow, "done" \notin plan.early PROVE WindowsAgree
    OBVIOUS
  <2>1. CASE ended
    BY <2>1 DEF WindowsAgree
  <2>2. CASE ~ended
    BY <2>2, BalancedAgrees DEF H2Core, H2Flow, Flowing
  <2> QED
    BY <2>1, <2>2
<1> QED
  BY <1>1, FlowInit, FlowNext, CoreInductive, PTL DEF H2Spec

=============================================================================
