------------------------------ MODULE SumProofs ------------------------------
(***************************************************************************)
(* Sums of the values of a function over a finite set (SumFunctionOnSet of *)
(* Functions): that the recursion behind them is well defined, and what    *)
(* the sums are that the models take.  The inductions go through a minimal *)
(* counterexample.                                                         *)
(***************************************************************************)
EXTENDS Functions, FiniteSets, FiniteSetTheorems, WellFoundedInduction, TLAPS

(* The element of s that the fold takes next.                              *)
Pick(s) == CHOOSE x \in s : TRUE

(* g sums f over the sets in D, one element after the other.               *)
Sums(g, f, D) ==
  g = [s \in D |-> IF s = {} THEN 0 ELSE f[Pick(s)] + g[s \ {Pick(s)}]]

(* Of a nonempty set of numbers one is the least.                          *)
LEMMA LeastNumber ==
  ASSUME NEW N \in SUBSET Nat, N # {}
  PROVE  \E n \in N : \A m \in N : n <= m
<1>1. PICK n \in N : \A m \in N : <<m, n>> \notin OpToRel(<, Nat)
  BY WFMin, NatLessThanWellFounded, Zenon
<1>2. ASSUME NEW m \in N PROVE n <= m
  <2>1. ~(m < n)
    BY <1>1 DEF OpToRel
  <2> QED BY <2>1
<1> QED BY <1>2

(* Of a nonempty set of finite sets one loses its membership with any      *)
(* element it loses.                                                       *)
LEMMA MinimalSubset ==
  ASSUME NEW S, IsFiniteSet(S), NEW B \in SUBSET (SUBSET S), B # {}
  PROVE  \E s \in B : IsFiniteSet(s) /\ \A x \in s : s \ {x} \notin B
<1> DEFINE N == {Cardinality(s) : s \in B}
<1>1. \A s \in B : IsFiniteSet(s) /\ Cardinality(s) \in Nat
  BY FS_Subset, FS_CardinalityType
<1>2. N \in SUBSET Nat /\ N # {}
  <2>1. PICK s \in B : TRUE
    OBVIOUS
  <2>2. Cardinality(s) \in N
    BY <2>1
  <2> QED BY <1>1, <2>2
<1>3. PICK n \in N : \A m \in N : n <= m
  BY <1>2, LeastNumber, Zenon
<1>4. PICK s \in B : n = Cardinality(s)
  OBVIOUS
<1>5. ASSUME NEW x \in s, s \ {x} \in B PROVE FALSE
  <2>1. Cardinality(s \ {x}) = Cardinality(s) - 1
    BY <1>1, FS_RemoveElement
  <2>2. Cardinality(s \ {x}) \in N
    BY <1>5
  <2>3. n <= Cardinality(s \ {x})
    BY <1>3, <2>2, Zenon
  <2> QED BY <1>1, <1>4, <2>1, <2>3
<1> QED BY <1>1, <1>5

LEMMA PickIsIn == ASSUME NEW s, s # {} PROVE Pick(s) \in s
BY DEF Pick

(* There is a function that sums f over all subsets of a finite set.       *)
LEMMA SumsExist ==
  ASSUME NEW f, NEW S, IsFiniteSet(S)
  PROVE  \E g : Sums(g, f, SUBSET S)
<1> DEFINE D(n) == {s \in SUBSET S : Cardinality(s) <= n}
           N == {n \in Nat : ~\E g : Sums(g, f, D(n))}
<1>1. \A s \in SUBSET S : IsFiniteSet(s) /\ Cardinality(s) \in Nat
                          /\ Cardinality(s) <= Cardinality(S)
  BY FS_Subset, FS_CardinalityType
<1>2. N = {}
  <2> SUFFICES ASSUME N # {} PROVE FALSE
    OBVIOUS
  <2>1. PICK n \in N : \A m \in N : n <= m
    <3>1. N \in SUBSET Nat
      OBVIOUS
    <3> HIDE DEF N
    <3> QED BY <3>1, LeastNumber, Zenon
  <2>2. n \in Nat /\ ~\E g : Sums(g, f, D(n))
    OBVIOUS
  <2>3. CASE n = 0
    <3> DEFINE g == [s \in D(0) |-> 0]
    <3>1. \A s \in D(0) : s = {}
      BY <1>1, FS_EmptySet
    <3>2. g = [s \in D(0) |-> IF s = {} THEN 0 ELSE f[Pick(s)] + g[s \ {Pick(s)}]]
      <4> HIDE DEF D
      <4> QED BY <3>1
    <3>3. Sums(g, f, D(0))
      BY <3>2 DEF Sums
    <3>4. \E k : Sums(k, f, D(0))
      BY <3>3
    <3>5. D(n) = D(0)
      BY <2>3
    <3> HIDE DEF D
    <3> QED BY <2>2, <3>4, <3>5
  <2>4. CASE n # 0
    <3>1. n - 1 \in Nat /\ n - 1 \notin N
      <4>1. n \in Nat
        OBVIOUS
      <4> HIDE DEF N
      <4> QED BY <2>1, <2>4, <4>1
    <3>2. PICK g : Sums(g, f, D(n - 1))
      BY <3>1
    <3> DEFINE h == [s \in D(n) |-> IF s = {} THEN 0 ELSE f[Pick(s)] + g[s \ {Pick(s)}]]
    <3>3. ASSUME NEW s \in D(n), s # {}
          PROVE  h[s \ {Pick(s)}] = g[s \ {Pick(s)}]
      <4> DEFINE t == s \ {Pick(s)}
      <4>1. Cardinality(t) = Cardinality(s) - 1
        BY <1>1, <3>3, PickIsIn, FS_RemoveElement
      <4>2. t \in D(n - 1) /\ t \in D(n)
        BY <1>1, <2>2, <4>1
      <4> HIDE DEF t
      <4>3. g[t] = IF t = {} THEN 0 ELSE f[Pick(t)] + g[t \ {Pick(t)}]
        BY <3>2, <4>2 DEF Sums
      <4>4. h[t] = IF t = {} THEN 0 ELSE f[Pick(t)] + g[t \ {Pick(t)}]
        BY <4>2
      <4> QED BY <4>3, <4>4 DEF t
    <3>4. Sums(h, f, D(n))
      <4>1. \A s \in D(n) :
              h[s] = IF s = {} THEN 0 ELSE f[Pick(s)] + h[s \ {Pick(s)}]
        BY <3>3
      <4>2. h = [s \in D(n) |-> h[s]]
        OBVIOUS
      <4> HIDE DEF h
      <4> QED BY <4>1, <4>2 DEF Sums
    <3> QED BY <2>2, <3>4
  <2> QED BY <2>3, <2>4
<1>3. Cardinality(S) \in Nat
  BY FS_CardinalityType
<1>4. D(Cardinality(S)) = SUBSET S
  BY <1>1
<1> QED BY <1>2, <1>3, <1>4

(* SumFunctionOnSet is such a function's value.                            *)
LEMMA SumIsOne ==
  ASSUME NEW f, NEW S, IsFiniteSet(S)
  PROVE  \E g : Sums(g, f, SUBSET S) /\ SumFunctionOnSet(f, S) = g[S]
<1> DEFINE g == CHOOSE g : Sums(g, f, SUBSET S)
<1>1. Sums(g, f, SUBSET S)
  BY SumsExist
<1>2. SumFunctionOnSet(f, S) = g[S]
  BY DEF SumFunctionOnSet, FoldFunctionOnSet, MapThenFoldSet, Sums, Pick
<1> QED BY <1>1, <1>2

(* How it recurs.                                                          *)
LEMMA SumsAt ==
  ASSUME NEW f, NEW S, NEW g, Sums(g, f, SUBSET S), NEW s \in SUBSET S
  PROVE  g[s] = IF s = {} THEN 0 ELSE f[Pick(s)] + g[s \ {Pick(s)}]
BY DEF Sums

(* Functions with the same values have the same sum, and it is an integer  *)
(* if they are: SumFunction sums over the whole domain.                    *)
LEMMA SumOfFunction == \A f : SumFunction(f) = SumFunctionOnSet(f, DOMAIN f)
BY DEF SumFunction

(***************************************************************************)
(* Changing the value at one place changes the sum by as much.             *)
(***************************************************************************)
LEMMA SumOfChange ==
  ASSUME NEW S, IsFiniteSet(S), NEW c \in S, NEW f, NEW h,
         \A x \in S : f[x] \in Int /\ h[x] \in Int,
         \A x \in S \ {c} : h[x] = f[x]
  PROVE  /\ SumFunctionOnSet(f, S) \in Int
         /\ SumFunctionOnSet(h, S) = SumFunctionOnSet(f, S) + (h[c] - f[c])
<1>1. PICK g : Sums(g, f, SUBSET S) /\ SumFunctionOnSet(f, S) = g[S]
  BY SumIsOne
<1>2. PICK k : Sums(k, h, SUBSET S) /\ SumFunctionOnSet(h, S) = k[S]
  BY SumIsOne
<1> DEFINE Good(s) == g[s] \in Int /\ k[s] = g[s] + (IF c \in s THEN h[c] - f[c] ELSE 0)
           B == {s \in SUBSET S : ~Good(s)}
<1>3. B = {}
  <2> SUFFICES ASSUME B # {} PROVE FALSE
    OBVIOUS
  <2>1. PICK s \in B : \A x \in s : s \ {x} \notin B
    <3>1. B \in SUBSET (SUBSET S)
      OBVIOUS
    <3> HIDE DEF B
    <3> QED BY <3>1, MinimalSubset
  <2>2. s \in SUBSET S /\ ~Good(s)
    OBVIOUS
  <2>3. CASE s = {}
    <3>1. {} \in SUBSET S
      OBVIOUS
    <3>2. g[{}] = 0 /\ k[{}] = 0
      <4> HIDE DEF B
      <4> QED BY <1>1, <1>2, <3>1 DEF Sums
    <3> QED BY <2>2, <2>3, <3>2
  <2>4. CASE s # {}
    <3> DEFINE x == Pick(s)
               t == s \ {x}
    <3>1. x \in s /\ x \in S /\ t \in SUBSET S
      BY <2>2, <2>4, PickIsIn
    <3>2. t \notin B
      BY <2>1, <3>1
    <3>3. g[s] = f[x] + g[t] /\ k[s] = h[x] + k[t]
      <4>1. g[s] = f[x] + g[t]
        BY <1>1, <2>2, <2>4, SumsAt
      <4>2. k[s] = h[x] + k[t]
        BY <1>2, <2>2, <2>4, SumsAt
      <4> QED BY <4>1, <4>2
    <3>4. (c \in s <=> x = c \/ c \in t) /\ (x = c => c \notin t)
      BY <3>1
    <3> HIDE DEF x, t, B
    <3>5. Good(t)
      BY <3>1, <3>2 DEF B
    <3>6. f[x] \in Int /\ h[x] \in Int /\ f[c] \in Int /\ h[c] \in Int
          /\ (x # c => h[x] = f[x])
      BY <3>1
    <3>7. Good(s)
      BY <3>3, <3>4, <3>5, <3>6
    <3> QED BY <2>2, <3>7
  <2> QED BY <2>3, <2>4
<1>4. Good(S)
  <2> HIDE DEF Good
  <2> QED BY <1>3
<1> QED BY <1>1, <1>2, <1>4

(***************************************************************************)
(* Equal values add up to their number times the value.                    *)
(***************************************************************************)
LEMMA SumOfEqual ==
  ASSUME NEW S, IsFiniteSet(S), NEW f, NEW y \in Int, \A x \in S : f[x] = y
  PROVE  SumFunctionOnSet(f, S) = Cardinality(S) * y
<1>1. PICK g : Sums(g, f, SUBSET S) /\ SumFunctionOnSet(f, S) = g[S]
  BY SumIsOne
<1> DEFINE Good(s) == g[s] = Cardinality(s) * y
           B == {s \in SUBSET S : ~Good(s)}
<1>2. B = {}
  <2> SUFFICES ASSUME B # {} PROVE FALSE
    OBVIOUS
  <2>1. PICK s \in B : IsFiniteSet(s) /\ \A x \in s : s \ {x} \notin B
    <3>1. B \in SUBSET (SUBSET S)
      OBVIOUS
    <3> HIDE DEF B
    <3> QED BY <3>1, MinimalSubset
  <2>2. s \in SUBSET S /\ ~Good(s)
    OBVIOUS
  <2>3. CASE s = {}
    <3>1. g[s] = 0 /\ Cardinality(s) = 0
      BY <1>1, <2>2, <2>3, SumsAt, FS_EmptySet
    <3> QED BY <2>2, <3>1
  <2>4. CASE s # {}
    <3> DEFINE x == Pick(s)
               t == s \ {x}
    <3>1. x \in s /\ x \in S /\ t \in SUBSET S
      BY <2>2, <2>4, PickIsIn
    <3>2. t \notin B
      BY <2>1, <3>1
    <3>3. g[s] = f[x] + g[t] /\ f[x] = y
      BY <1>1, <2>2, <2>4, <3>1, SumsAt
    <3>4. Cardinality(t) = Cardinality(s) - 1 /\ Cardinality(s) \in Nat
      BY <2>1, <3>1, FS_RemoveElement, FS_CardinalityType
    <3> HIDE DEF x, t, B
    <3>5. g[t] = Cardinality(t) * y
      BY <3>1, <3>2 DEF B
    <3>6. g[s] = y + (Cardinality(s) - 1) * y
      BY <3>3, <3>4, <3>5
    <3>7. y + (Cardinality(s) - 1) * y = Cardinality(s) * y
      BY <3>4
    <3> QED BY <2>2, <3>6, <3>7
  <2> QED BY <2>3, <2>4
<1>3. Good(S)
  <2> HIDE DEF Good
  <2> QED BY <1>2
<1> QED BY <1>1, <1>3
=============================================================================
