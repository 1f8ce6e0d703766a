----------------------------- MODULE FoldProofs ----------------------------
(***************************************************************************)
(* Lemmas about finite sets and sequences on which the proofs about the    *)
(* models rest: ranks, induction, least and greatest elements, and folds   *)
(* with the sums that they compute.                                        *)
(***************************************************************************)
EXTENDS Integers, SequencesExt, FiniteSetsExt, FiniteSetTheorems, TLAPS

-----------------------------------------------------------------------------
(* Ranks, induction and extrema.                                           *)

(* B gives for each element those before it, in some order of the set.     *)
Orders(B, S) ==
  /\ B \in [S -> SUBSET S]
  /\ \A i \in S : i \notin B[i]
  /\ \A i, j \in S : i \in B[j] => B[i] \subseteq B[j]
  /\ \A i, j \in S : i # j => i \in B[j] \/ j \in B[i]

LEMMA RankGrows ==
  ASSUME NEW S, IsFiniteSet(S), NEW B, Orders(B, S), NEW i \in S, NEW j \in S, i \in B[j]
  PROVE  /\ Cardinality(B[i]) \in Nat /\ Cardinality(B[j]) \in Nat
         /\ Cardinality(B[i]) < Cardinality(B[j])
<1>1. B[j] \in SUBSET S /\ B[i] \cup {i} \in SUBSET B[j] /\ i \notin B[i]
  BY DEF Orders
<1>2. IsFiniteSet(B[j])
  BY <1>1, FS_Subset
<1>3. IsFiniteSet(B[i])
  BY <1>1, <1>2, FS_Subset
<1>4. Cardinality(B[i] \cup {i}) = Cardinality(B[i]) + 1
  BY <1>1, <1>3, FS_AddElement
<1>5. Cardinality(B[i] \cup {i}) <= Cardinality(B[j])
  BY <1>1, <1>2, FS_Subset
<1>6. Cardinality(B[i]) \in Nat /\ Cardinality(B[j]) \in Nat
  BY <1>2, <1>3, FS_CardinalityType
<1> QED
  BY <1>4, <1>5, <1>6

LEMMA RankType ==
  ASSUME NEW S, IsFiniteSet(S), NEW B, Orders(B, S), NEW i \in S
  PROVE  Cardinality(B[i]) \in 0..(Cardinality(S) - 1)
<1>1. B[i] \in SUBSET (S \ {i})
  BY DEF Orders
<1>2. IsFiniteSet(S \ {i}) /\ Cardinality(S \ {i}) = Cardinality(S) - 1
  BY FS_RemoveElement
<1>3. IsFiniteSet(B[i]) /\ Cardinality(B[i]) <= Cardinality(S \ {i})
  BY <1>1, <1>2, FS_Subset
<1>4. Cardinality(B[i]) \in Nat /\ Cardinality(S) \in Nat
  BY <1>3, FS_CardinalityType
<1> QED
  BY <1>2, <1>3, <1>4

(* Every rank is that of exactly one element.                              *)
LEMMA RankIsOnto ==
  ASSUME NEW S, IsFiniteSet(S), NEW B, Orders(B, S), NEW k \in 0..(Cardinality(S) - 1)
  PROVE  \E i \in S : Cardinality(B[i]) = k
<1> DEFINE n == Cardinality(S)
           g == [i \in S |-> Cardinality(B[i])]
           T == 0..(n - 1)
<1>1. n \in Nat
  BY FS_CardinalityType
<1> HIDE DEF n
<1>2. IsFiniteSet(T) /\ Cardinality(T) = n
  BY <1>1, FS_Interval
<1>3. g \in [S -> T]
  BY RankType DEF n
<1>4. ASSUME NEW i \in S, NEW j \in S, g[i] = g[j] PROVE i = j
  <2>1. i \notin B[j] /\ j \notin B[i]
    BY <1>4, RankGrows
  <2> QED
    BY <2>1 DEF Orders
<1>5. g \in Injection(S, T)
  BY <1>3, <1>4 DEF Injection, IsInjective
<1>6. g \in Surjection(S, T)
  BY <1>2, <1>5, FS_Injection DEF n
<1>7. k \in T
  BY <1>1 DEF n
<1> HIDE DEF g, T
<1>8. \E i \in S : g[i] = k
  BY <1>6, <1>7 DEF Surjection
<1> QED
  BY <1>8 DEF g

HasRank(B, S, k) == \E i \in S : Cardinality(B[i]) = k

LEMMA RankIsThere ==
  ASSUME NEW S, IsFiniteSet(S), NEW B, Orders(B, S), NEW k \in 0..(Cardinality(S) - 1)
  PROVE  HasRank(B, S, k)
BY RankIsOnto DEF HasRank

LEMMA RankIsOne ==
  ASSUME NEW S, IsFiniteSet(S), NEW B, Orders(B, S), NEW i \in S, NEW j \in S,
         Cardinality(B[i]) = Cardinality(B[j])
  PROVE  i = j
<1>1. i \notin B[j] /\ j \notin B[i]
  BY RankGrows
<1> QED
  BY <1>1 DEF Orders

(* The natural numbers are well ordered.                                   *)
LEMMA LeastNumber ==
  ASSUME NEW T \in SUBSET Nat, T # {}
  PROVE  \E x \in T : \A y \in T : x <= y
<1>1. IsWellFoundedOn(OpToRel(<, Nat), Nat)
  BY NatLessThanWellFounded
<1>2. PICK x \in T : \A y \in T : ~(<<y, x>> \in OpToRel(<, Nat))
  BY <1>1, WFMin, Zenon
<1>3. ASSUME NEW y \in T, y < x PROVE <<y, x>> \in OpToRel(<, Nat)
  <2>1. <<y, x>> \in Nat \X Nat
    OBVIOUS
  <2>2. <<y, x>>[1] = y /\ <<y, x>>[2] = x
    OBVIOUS
  <2>3. <<y, x>>[1] < <<y, x>>[2]
    BY <1>3, <2>2, Zenon
  <2> QED
    BY <2>1, <2>3, Zenon DEF OpToRel
<1>4. \A y \in T : ~(y < x)
  BY <1>2, <1>3, Zenon
<1> QED
  BY <1>4

(* Induction for a set of numbers.                                         *)
LEMMA FromZero ==
  ASSUME NEW T \in SUBSET Nat, 0 \in T, \A n \in T : n + 1 \in T
  PROVE  T = Nat
<1> SUFFICES ASSUME T # Nat PROVE FALSE
  OBVIOUS
<1>1. PICK m \in Nat \ T : \A y \in Nat \ T : m <= y
  <2>1. Nat \ T \in SUBSET Nat /\ Nat \ T # {}
    OBVIOUS
  <2> QED
    BY <2>1, LeastNumber
<1>2. m # 0 /\ m - 1 \in Nat
  BY <1>1
<1>3. m - 1 \in T
  BY <1>1, <1>2
<1>4. (m - 1) + 1 = m
  BY <1>1
<1> QED
  BY <1>1, <1>3, <1>4

(* Induction for the subsets of a finite set.                              *)
LEMMA FromEmpty ==
  ASSUME NEW S, IsFiniteSet(S), NEW G, {} \in G,
         \A s \in SUBSET S : s # {} /\ (\A x \in s : s \ {x} \in G) => s \in G
  PROVE  \A s \in SUBSET S : s \in G
<1> DEFINE Good(n) == \A s \in SUBSET S : Cardinality(s) <= n => s \in G
           T == {n \in Nat : Good(n)}
<1>1. \A s \in SUBSET S : IsFiniteSet(s) /\ Cardinality(s) \in Nat /\ Cardinality(s) <= Cardinality(S)
  BY FS_Subset, FS_CardinalityType
<1>2. 0 \in T
  <2>1. \A s \in SUBSET S : Cardinality(s) <= 0 => s = {}
    BY <1>1, FS_EmptySet
  <2>2. Good(0)
    BY <2>1
  <2> QED
    BY <2>2
<1>3. ASSUME NEW n \in T PROVE n + 1 \in T
  <2>1. ASSUME NEW s \in SUBSET S, Cardinality(s) <= n + 1, s # {} PROVE s \in G
    <3>1. ASSUME NEW x \in s PROVE s \ {x} \in G
      <4>1. Cardinality(s \ {x}) = Cardinality(s) - 1
        BY <1>1, FS_RemoveElement
      <4>2. Cardinality(s \ {x}) <= n /\ s \ {x} \in SUBSET S
        BY <1>1, <2>1, <4>1
      <4> QED
        BY <4>2
    <3> QED
      BY <2>1, <3>1
  <2>2. Good(n + 1) /\ n + 1 \in Nat
    BY <2>1
  <2> HIDE DEF Good
  <2> QED
    BY <2>2
<1>4. T = Nat
  <2> HIDE DEF T
  <2>1. T \in SUBSET Nat
    BY DEF T
  <2> QED
    BY <1>2, <1>3, <2>1, FromZero
<1>5. Good(Cardinality(S))
  <2>1. Cardinality(S) \in T
    BY <1>4, FS_CardinalityType
  <2> QED
    BY <2>1
<1> QED
  BY <1>1, <1>5

LEMMA GreatestIs ==
  ASSUME NEW n \in Nat, NEW S \in SUBSET (1..n), S # {}
  PROVE  Max(S) \in S /\ \A y \in S : y <= Max(S)
<1> DEFINE T == {n - x : x \in S}
<1>1. T \in SUBSET Nat /\ T # {}
  <2>1. \A x \in S : x \in Nat /\ x <= n
    OBVIOUS
  <2>2. \A x \in S : n - x \in Nat
    BY <2>1
  <2> QED
    BY <2>2
<1>2. PICK t \in T : \A y \in T : t <= y
  BY <1>1, LeastNumber
<1>3. PICK x \in S : t = n - x
  BY <1>2
<1>4. \A y \in S : x >= y
  <2> SUFFICES ASSUME NEW y \in S PROVE x >= y
    OBVIOUS
  <2>1. n - x <= n - y
    BY <1>2, <1>3
  <2> QED
    BY <2>1
<1>5. Max(S) \in S /\ \A y \in S : Max(S) >= y
  BY <1>4 DEF Max
<1> QED
  BY <1>5

LEMMA LeastIs ==
  ASSUME NEW S \in SUBSET Nat, S # {}
  PROVE  Min(S) \in S /\ \A y \in S : Min(S) <= y
BY LeastNumber DEF Min

-----------------------------------------------------------------------------
(* A fold over a finite set that takes the elements as it likes.           *)

Chooses(c, S) == \A s \in SUBSET S : s # {} => c[s] \in s

Folds(g, S, base, c, step) ==
  \A s \in SUBSET S : g[s] = IF s = {} THEN base ELSE step[c[s]][g[s \ {c[s]}]]

LEMMA FoldExists ==
  ASSUME NEW S, IsFiniteSet(S), NEW A, NEW base \in A, NEW c, Chooses(c, S),
         NEW step \in [S -> [A -> A]]
  PROVE  \E g \in [SUBSET S -> A] : Folds(g, S, base, c, step)
<1> DEFINE Eq(g, s) == g[s] = IF s = {} THEN base ELSE step[c[s]][g[s \ {c[s]}]]
           Good(n) == \E g \in [SUBSET S -> A] : \A s \in SUBSET S : Cardinality(s) <= n => Eq(g, s)
           T == {n \in Nat : Good(n)}
<1> USE DEF Chooses
<1>1. \A s \in SUBSET S : IsFiniteSet(s) /\ Cardinality(s) \in Nat /\ Cardinality(s) <= Cardinality(S)
  BY FS_Subset, FS_CardinalityType
<1>2. 0 \in T
  <2> DEFINE g == [s \in SUBSET S |-> base]
  <2>1. g \in [SUBSET S -> A]
    OBVIOUS
  <2>2. \A s \in SUBSET S : Cardinality(s) <= 0 => s = {}
    BY <1>1, FS_EmptySet
  <2>3. \A s \in SUBSET S : Cardinality(s) <= 0 => Eq(g, s)
    BY <2>2
  <2>4. Good(0)
    BY <2>1, <2>3
  <2> QED
    BY <2>4
<1>3. ASSUME NEW n \in T PROVE n + 1 \in T
  <2>1. PICK g \in [SUBSET S -> A] : \A s \in SUBSET S : Cardinality(s) <= n => Eq(g, s)
    OBVIOUS
  <2> DEFINE h == [s \in SUBSET S |-> IF s = {} THEN base ELSE step[c[s]][g[s \ {c[s]}]]]
  <2>2. h \in [SUBSET S -> A]
    <3> SUFFICES ASSUME NEW s \in SUBSET S PROVE h[s] \in A
      OBVIOUS
    <3>1. CASE s = {}
      BY <3>1
    <3>2. CASE s # {}
      <4>1. c[s] \in S /\ s \ {c[s]} \in SUBSET S
        BY <3>2
      <4>2. step[c[s]] \in [A -> A] /\ g[s \ {c[s]}] \in A
        BY <4>1
      <4> QED
        BY <3>2, <4>2
    <3> QED
      BY <3>1, <3>2
  <2>3. ASSUME NEW s \in SUBSET S, Cardinality(s) <= n + 1 PROVE Eq(h, s)
    <3>1. CASE s = {}
      BY <3>1
    <3>2. CASE s # {}
      <4> DEFINE r == s \ {c[s]}
      <4>1. r \in SUBSET S /\ c[s] \in s
        BY <3>2
      <4>2. Cardinality(r) <= n
        <5>1. Cardinality(r) = Cardinality(s) - 1
          <6> DEFINE x == c[s]
          <6>1. IsFiniteSet(s) /\ x \in s
            BY <1>1, <4>1
          <6> HIDE DEF x
          <6>2. Cardinality(s \ {x}) = Cardinality(s) - 1
            BY <6>1, FS_RemoveElement
          <6> QED
            BY <6>2 DEF x
        <5> QED
          BY <1>1, <2>3, <5>1
      <4>3. Eq(g, r)
        BY <2>1, <4>1, <4>2
      <4>4. h[r] = g[r]
        BY <4>1, <4>3
      <4> QED
        BY <3>2, <4>4
    <3> QED
      BY <3>1, <3>2
  <2>4. Good(n + 1)
    <3> HIDE DEF h, Eq
    <3> QED
      BY <2>2, <2>3
  <2>5. n + 1 \in Nat
    OBVIOUS
  <2> HIDE DEF Good
  <2> QED
    BY <2>4, <2>5
<1>4. T = Nat
  <2> HIDE DEF T
  <2>1. T \in SUBSET Nat
    BY DEF T
  <2> QED
    BY <1>2, <1>3, <2>1, FromZero
<1>5. Good(Cardinality(S))
  <2>1. Cardinality(S) \in Nat
    BY FS_CardinalityType
  <2>2. Cardinality(S) \in T
    BY <1>4, <2>1
  <2> QED
    BY <2>2
<1> QED
  BY <1>1, <1>5 DEF Folds

-----------------------------------------------------------------------------
(* Sums.                                                                   *)

Picked(s) == CHOOSE x \in s : TRUE

SumEq(g, f, S) ==
  \A s \in SUBSET S : g[s] = IF s = {} THEN 0 ELSE f[Picked(s)] + g[s \ {Picked(s)}]

LEMMA PickedIn == \A s : s # {} => Picked(s) \in s
BY DEF Picked

LEMMA SumEqOne ==
  ASSUME NEW S, IsFiniteSet(S), NEW f, NEW g, NEW h, SumEq(g, f, S), SumEq(h, f, S)
  PROVE  \A s \in SUBSET S : g[s] = h[s]
<1> DEFINE G == {s \in SUBSET S : g[s] = h[s]}
<1>1. {} \in G
  BY DEF SumEq
<1>2. ASSUME NEW s \in SUBSET S, s # {}, \A x \in s : s \ {x} \in G PROVE s \in G
  <2>1. g[s \ {Picked(s)}] = h[s \ {Picked(s)}]
    BY <1>2, PickedIn
  <2> QED
    BY <1>2, <2>1 DEF SumEq
<1>3. \A s \in SUBSET S : s \in G
  <2> HIDE DEF G
  <2> QED
    BY <1>1, <1>2, FromEmpty
<1> QED
  BY <1>3

(* The sum runs over the elements one by one.                              *)
LEMMA SumRuns ==
  ASSUME NEW S, IsFiniteSet(S), NEW f, \A x \in S : f[x] \in Nat
  PROVE  \E g \in [SUBSET S -> Nat] : SumEq(g, f, S) /\ SumFunctionOnSet(f, S) = g[S]
<1> DEFINE step == [x \in S |-> [a \in Nat |-> f[x] + a]]
           c == [s \in SUBSET S |-> Picked(s)]
           Eq(iter) == iter = [s \in SUBSET S |-> IF s = {} THEN 0 ELSE f[Picked(s)] + iter[s \ {Picked(s)}]]
<1> DEFINE A == Nat
           base == 0
<1>1. step \in [S -> [A -> A]] /\ Chooses(c, S) /\ base \in A
  BY PickedIn DEF Chooses
<1>2. PICK g \in [SUBSET S -> Nat] :
        \A s \in SUBSET S : g[s] = IF s = {} THEN 0 ELSE step[c[s]][g[s \ {c[s]}]]
  <2> HIDE DEF step, c, A, base
  <2>1. PICK g \in [SUBSET S -> A] : Folds(g, S, base, c, step)
    BY <1>1, FoldExists
  <2> QED
    BY <2>1 DEF Folds, A, base
<1>3. \A s \in SUBSET S : s # {} => Picked(s) \in S /\ s \ {Picked(s)} \in SUBSET S
  BY PickedIn
<1>4. SumEq(g, f, S)
  <2> SUFFICES ASSUME NEW s \in SUBSET S
               PROVE  g[s] = IF s = {} THEN 0 ELSE f[Picked(s)] + g[s \ {Picked(s)}]
    BY DEF SumEq
  <2>1. CASE s = {}
    BY <1>2, <2>1
  <2>2. CASE s # {}
    <3>1. Picked(s) \in S /\ g[s \ {Picked(s)}] \in Nat
      BY <1>3, <2>2
    <3>2. step[Picked(s)][g[s \ {Picked(s)}]] = f[Picked(s)] + g[s \ {Picked(s)}]
      BY <3>1
    <3> QED
      BY <1>2, <2>2, <3>2
  <2> QED
    BY <2>1, <2>2
<1>5. Eq(g)
  BY <1>4 DEF SumEq
<1> DEFINE chosen == CHOOSE iter : Eq(iter)
<1>6. Eq(chosen)
  <2> HIDE DEF Eq
  <2> QED
    BY <1>5
<1>7. SumFunctionOnSet(f, S) = chosen[S]
  BY DEF SumFunctionOnSet, FoldFunctionOnSet, MapThenFoldSet, Picked
<1>8. SumEq(chosen, f, S)
  <2> HIDE DEF chosen
  <2> QED
    BY <1>6 DEF SumEq
<1>9. chosen[S] = g[S]
  <2> HIDE DEF chosen
  <2>1. S \in SUBSET S
    OBVIOUS
  <2> QED
    BY <1>4, <1>8, <2>1, SumEqOne
<1> QED
  BY <1>4, <1>7, <1>9

LEMMA SumType ==
  ASSUME NEW S, IsFiniteSet(S), NEW f, \A x \in S : f[x] \in Nat
  PROVE  SumFunctionOnSet(f, S) \in Nat
<1>1. PICK g \in [SUBSET S -> Nat] : SumFunctionOnSet(f, S) = g[S]
  BY SumRuns
<1> QED
  BY <1>1

LEMMA SumOfNone == \A f : SumFunctionOnSet(f, {}) = 0
<1> TAKE f
<1>1. IsFiniteSet({})
  BY FS_EmptySet
<1>2. PICK g \in [SUBSET {} -> Nat] : SumEq(g, f, {}) /\ SumFunctionOnSet(f, {}) = g[{}]
  <2>1. \A x \in {} : f[x] \in Nat
    OBVIOUS
  <2> QED
    BY <1>1, <2>1, SumRuns
<1>3. {} \in SUBSET {}
  OBVIOUS
<1> QED
  BY <1>2, <1>3 DEF SumEq

LEMMA SumPicks ==
  ASSUME NEW S, IsFiniteSet(S), NEW f, \A x \in S : f[x] \in Nat, S # {}
  PROVE  SumFunctionOnSet(f, S) = f[Picked(S)] + SumFunctionOnSet(f, S \ {Picked(S)})
<1> DEFINE R == S \ {Picked(S)}
<1>1. PICK g \in [SUBSET S -> Nat] : SumEq(g, f, S) /\ SumFunctionOnSet(f, S) = g[S]
  BY SumRuns
<1>2. IsFiniteSet(R)
  BY FS_Subset
<1>3. PICK h \in [SUBSET R -> Nat] : SumEq(h, f, R) /\ SumFunctionOnSet(f, R) = h[R]
  <2>1. \A x \in R : f[x] \in Nat
    OBVIOUS
  <2> HIDE DEF R
  <2> QED
    BY <1>2, <2>1, SumRuns
<1>4. SumEq(g, f, R)
  BY <1>1 DEF SumEq
<1>5. g[R] = h[R]
  <2>1. R \in SUBSET R
    OBVIOUS
  <2> HIDE DEF R
  <2> QED
    BY <1>2, <1>3, <1>4, <2>1, SumEqOne
<1>6. g[S] = f[Picked(S)] + g[R]
  <2>1. S \in SUBSET S
    OBVIOUS
  <2> QED
    BY <1>1, <2>1 DEF SumEq
<1> QED
  BY <1>1, <1>3, <1>5, <1>6

(* Whichever element is taken out, the sum is that element and the rest.   *)
LEMMA SumTakes ==
  ASSUME NEW S, IsFiniteSet(S), NEW f, \A x \in S : f[x] \in Nat, NEW x \in S
  PROVE  SumFunctionOnSet(f, S) = f[x] + SumFunctionOnSet(f, S \ {x})
<1> DEFINE Sum(s) == SumFunctionOnSet(f, s)
           G == {s \in SUBSET S : \A y \in s : Sum(s) = f[y] + Sum(s \ {y})}
<1>1. \A s \in SUBSET S : IsFiniteSet(s)
  BY FS_Subset
<1>2. \A s \in SUBSET S : Sum(s) \in Nat /\ (s # {} => Sum(s) = f[Picked(s)] + Sum(s \ {Picked(s)}))
  BY <1>1, SumType, SumPicks
<1> HIDE DEF Sum
<1>3. {} \in G
  OBVIOUS
<1>4. ASSUME NEW s \in SUBSET S, s # {}, \A z \in s : s \ {z} \in G PROVE s \in G
  <2> SUFFICES ASSUME NEW y \in s PROVE Sum(s) = f[y] + Sum(s \ {y})
    OBVIOUS
  <2> DEFINE p == Picked(s)
  <2>1. p \in s
    BY PickedIn
  <2>2. CASE p = y
    BY <1>2, <2>2
  <2>3. CASE p # y
    <3> HIDE DEF p
    <3> DEFINE r == s \ {p}
               q == s \ {y}
               t == (s \ {p}) \ {y}
    <3>1. r \in G /\ q \in G /\ t \in SUBSET S /\ y \in r /\ p \in q /\ t = q \ {p} /\ t = r \ {y}
      BY <1>4, <2>1, <2>3
    <3>2. Sum(r) = f[y] + Sum(t) /\ Sum(q) = f[p] + Sum(t)
      BY <3>1
    <3>3. Sum(s) = f[p] + Sum(r)
      BY <1>2 DEF p
    <3>4. f[p] \in Nat /\ f[y] \in Nat /\ Sum(t) \in Nat
      BY <1>2, <2>1, <3>1
    <3> HIDE DEF r, q, t, G
    <3>5. Sum(s) = f[y] + Sum(q)
      BY <3>2, <3>3, <3>4
    <3> QED
      BY <3>5 DEF q
  <2> QED
    BY <2>2, <2>3
<1>5. S \in G
  <2>1. S \in SUBSET S
    OBVIOUS
  <2> HIDE DEF G
  <2> QED
    BY <1>3, <1>4, <2>1, FromEmpty
<1>6. Sum(S) = f[x] + Sum(S \ {x})
  BY <1>5
<1> QED
  BY <1>6 DEF Sum

(* A sum is no more than another whose elements are at least as large.     *)
LEMMA SumInjects ==
  ASSUME NEW S, IsFiniteSet(S), NEW f, \A x \in S : f[x] \in Nat,
         NEW T, IsFiniteSet(T), NEW g, \A y \in T : g[y] \in Nat,
         NEW b \in [S -> T], \A x, y \in S : b[x] = b[y] => x = y,
         \A x \in S : f[x] <= g[b[x]]
  PROVE  SumFunctionOnSet(f, S) <= SumFunctionOnSet(g, T)
<1> DEFINE F(s) == SumFunctionOnSet(f, s)
           H(t) == SumFunctionOnSet(g, t)
           G == {s \in SUBSET S : \A t \in SUBSET T : (\A x \in s : b[x] \in t) => F(s) <= H(t)}
<1>1. /\ \A s \in SUBSET S : F(s) \in Nat /\ \A x \in s : F(s) = f[x] + F(s \ {x})
      /\ \A t \in SUBSET T : H(t) \in Nat /\ \A y \in t : H(t) = g[y] + H(t \ {y})
  <2>1. (\A s \in SUBSET S : IsFiniteSet(s)) /\ \A t \in SUBSET T : IsFiniteSet(t)
    BY FS_Subset
  <2> QED
    BY <2>1, SumType, SumTakes
<1>2. F({}) = 0
  BY SumOfNone
<1> HIDE DEF F, H
<1>3. {} \in G
  BY <1>1, <1>2
<1>4. ASSUME NEW s \in SUBSET S, s # {}, \A z \in s : s \ {z} \in G PROVE s \in G
  <2> SUFFICES ASSUME NEW t \in SUBSET T, \A x \in s : b[x] \in t PROVE F(s) <= H(t)
    OBVIOUS
  <2>1. PICK x \in s : TRUE
    BY <1>4
  <2> DEFINE r == s \ {x}
             u == t \ {b[x]}
  <2>2. r \in G /\ u \in SUBSET T /\ \A y \in r : b[y] \in u
    BY <1>4
  <2>3. F(r) <= H(u)
    BY <2>2
  <2>4. F(s) = f[x] + F(r) /\ H(t) = g[b[x]] + H(u)
    BY <1>1
  <2>5. f[x] \in Nat /\ g[b[x]] \in Nat /\ f[x] <= g[b[x]] /\ F(r) \in Nat /\ H(u) \in Nat
    <3>1. b[x] \in T /\ r \in SUBSET S
      OBVIOUS
    <3> QED
      BY <1>1, <2>2, <3>1
  <2> HIDE DEF r, u
  <2> QED
    BY <2>3, <2>4, <2>5
<1>5. S \in G
  <2>1. S \in SUBSET S
    OBVIOUS
  <2> HIDE DEF G
  <2> QED
    BY <1>3, <1>4, <2>1, FromEmpty
<1>6. F(S) <= H(T)
  BY <1>5
<1> QED
  BY <1>6 DEF F, H

(* The sum over a part is no more than the sum over the whole.             *)
LEMMA SumGrows ==
  ASSUME NEW S, NEW T, IsFiniteSet(T), S \subseteq T, NEW f, NEW g, \A x \in T : g[x] \in Nat,
         \A x \in S : f[x] \in Nat /\ f[x] <= g[x]
  PROVE  SumFunctionOnSet(f, S) <= SumFunctionOnSet(g, T)
<1> DEFINE b == [x \in S |-> x]
<1>1. IsFiniteSet(S) /\ b \in [S -> T] /\ (\A x, y \in S : b[x] = b[y] => x = y)
        /\ (\A x \in S : f[x] <= g[b[x]]) /\ \A x \in S : f[x] \in Nat
  BY FS_Subset
<1> HIDE DEF b
<1> QED
  BY <1>1, SumInjects

(* The sum over two sets is at most that over the one and the other.       *)
LEMMA SumJoins ==
  ASSUME NEW S, NEW T, IsFiniteSet(S), IsFiniteSet(T), NEW f, \A x \in S \cup T : f[x] \in Nat
  PROVE  SumFunctionOnSet(f, S \cup T) <= SumFunctionOnSet(f, S) + SumFunctionOnSet(f, T)
<1> DEFINE F(s) == SumFunctionOnSet(f, s)
           G == {t \in SUBSET T : F(S \cup t) <= F(S) + F(t)}
<1>1. \A s \in SUBSET (S \cup T) : F(s) \in Nat /\ \A x \in s : F(s) = f[x] + F(s \ {x})
  <2>1. IsFiniteSet(S \cup T)
    BY FS_Union
  <2>2. \A s \in SUBSET (S \cup T) : IsFiniteSet(s)
    BY <2>1, FS_Subset
  <2> QED
    BY <2>2, SumType, SumTakes
<1>2. F({}) = 0
  BY SumOfNone
<1> HIDE DEF F
<1>3. {} \in G
  <2>1. S \cup {} = S /\ S \in SUBSET (S \cup T)
    OBVIOUS
  <2> QED
    BY <1>1, <1>2, <2>1
<1>4. ASSUME NEW t \in SUBSET T, t # {}, \A x \in t : t \ {x} \in G PROVE t \in G
  <2>1. PICK x \in t : TRUE
    BY <1>4
  <2> DEFINE r == t \ {x}
             all == S \cup t
             less == S \cup r
  <2>2. F(less) <= F(S) + F(r)
    BY <1>4
  <2>3. F(t) = f[x] + F(r) /\ f[x] \in Nat /\ F(r) \in Nat /\ F(t) \in Nat /\ F(S) \in Nat /\ F(less) \in Nat
    <3>1. t \in SUBSET (S \cup T) /\ r \in SUBSET (S \cup T) /\ S \in SUBSET (S \cup T) /\ less \in SUBSET (S \cup T)
      OBVIOUS
    <3> QED
      BY <1>1, <3>1
  <2>4. F(all) <= f[x] + F(less)
    <3>1. CASE x \in S
      <4>1. all = less
        BY <3>1
      <4> HIDE DEF less, all
      <4> QED
        BY <2>3, <4>1
    <3>2. CASE x \notin S
      <4>1. less = all \ {x} /\ x \in all /\ all \in SUBSET (S \cup T)
        BY <3>2
      <4>2. F(all) = f[x] + F(less)
        <5> HIDE DEF all, less
        <5> QED
          BY <1>1, <4>1
      <4>3. f[x] + F(less) \in Nat
        BY <2>3
      <4> HIDE DEF less, all
      <4> QED
        BY <4>2, <4>3
    <3> QED
      BY <3>1, <3>2
  <2>5. F(all) \in Nat
    <3>1. all \in SUBSET (S \cup T)
      OBVIOUS
    <3> QED
      BY <1>1, <3>1
  <2>6. F(all) <= F(S) + F(t)
    <3> HIDE DEF all, less, r
    <3> QED
      BY <2>2, <2>3, <2>4, <2>5
  <2> QED
    BY <2>6
<1>5. T \in G
  <2>1. T \in SUBSET T
    OBVIOUS
  <2> HIDE DEF G
  <2> QED
    BY <1>3, <1>4, <2>1, FromEmpty
<1>6. F(S \cup T) <= F(S) + F(T)
  BY <1>5
<1> QED
  BY <1>6 DEF F

-----------------------------------------------------------------------------
(* Folds over sequences, which take the last element of what is left.      *)

Last1(n) == [s \in SUBSET (1..n) |-> Max(s)]

LEMMA LastOne ==
  ASSUME NEW n \in Nat
  PROVE  /\ \A s \in SUBSET (1..n) : s # {} => Max(s) \in s /\ s \ {Max(s)} \in SUBSET (1..n)
         /\ \A k \in 1..n : Max(1..k) = k /\ (1..k) \ {Max(1..k)} = 1..(k - 1)
                            /\ 1..k \in SUBSET (1..n) /\ 1..(k - 1) \in SUBSET (1..n) /\ 1..k # {}
<1>1. \A s \in SUBSET (1..n) : s # {} => Max(s) \in s
  BY GreatestIs
<1>2. ASSUME NEW k \in 1..n
      PROVE  Max(1..k) = k /\ (1..k) \ {Max(1..k)} = 1..(k - 1)
             /\ 1..k \in SUBSET (1..n) /\ 1..(k - 1) \in SUBSET (1..n) /\ 1..k # {}
  <2>1. k \in 1..k /\ 1..k \in SUBSET (1..n) /\ 1..(k - 1) \in SUBSET (1..n)
    OBVIOUS
  <2>2. Max(1..k) \in 1..k /\ k <= Max(1..k)
    BY <2>1, GreatestIs
  <2>3. Max(1..k) = k
    BY <2>2
  <2>4. (1..k) \ {k} = 1..(k - 1)
    OBVIOUS
  <2> QED
    BY <2>1, <2>3, <2>4
<1> QED
  BY <1>1, <1>2

LEMMA FoldOfSequence ==
  ASSUME NEW n \in Nat, NEW A, NEW base \in A, NEW step \in [1..n -> [A -> A]]
  PROVE  \E g \in [SUBSET (1..n) -> A] : Folds(g, 1..n, base, Last1(n), step)
<1> DEFINE S == 1..n
           c == Last1(n)
<1>1. IsFiniteSet(S)
  BY FS_Interval
<1>2. Chooses(c, S)
  BY LastOne DEF Chooses, Last1
<1> HIDE DEF S, c
<1>3. \E g \in [SUBSET S -> A] : Folds(g, S, base, c, step)
  <2>1. step \in [S -> [A -> A]]
    BY DEF S
  <2> QED
    BY <1>1, <1>2, <2>1, FoldExists
<1> QED
  BY <1>3 DEF S, c

(* How the fold gets from one prefix of the sequence to the next.          *)
Runs(h, n, base, step) == h[0] = base /\ \A k \in 1..n : h[k] = step[k][h[k - 1]]

FoldedTo(g, n) == [k \in 0..n |-> g[1..k]]

LEMMA FoldRuns ==
  ASSUME NEW n \in Nat, NEW A, NEW base \in A, NEW step \in [1..n -> [A -> A]]
  PROVE  \E g \in [SUBSET (1..n) -> A] :
           /\ Folds(g, 1..n, base, Last1(n), step)
           /\ FoldedTo(g, n) \in [0..n -> A]
           /\ Runs(FoldedTo(g, n), n, base, step)
<1>0. PICK g \in [SUBSET (1..n) -> A] : Folds(g, 1..n, base, Last1(n), step)
  BY FoldOfSequence
<1> DEFINE h == FoldedTo(g, n)
<1> USE DEF FoldedTo
<1>1. h \in [0..n -> A]
  <2>1. \A k \in 0..n : 1..k \in SUBSET (1..n)
    OBVIOUS
  <2> QED
    BY <2>1
<1>2. h[0] = base
  <2>1. 1..0 = {} /\ {} \in SUBSET (1..n)
    OBVIOUS
  <2>2. g[{}] = base
    BY <1>0 DEF Folds
  <2> QED
    BY <2>1, <2>2
<1>3. ASSUME NEW k \in 1..n PROVE h[k] = step[k][h[k - 1]]
  <2>1. g[1..k] = step[k][g[1..(k - 1)]]
    BY <1>0, LastOne DEF Folds, Last1
  <2> QED
    BY <2>1
<1> QED
  BY <1>0, <1>1, <1>2, <1>3 DEF Runs

(* Induction over the prefixes of a sequence.                              *)
LEMMA Upwards ==
  ASSUME NEW n \in Nat, NEW G, 0 \in G, \A k \in 1..n : k - 1 \in G => k \in G
  PROVE  n \in G
<1> DEFINE T == {k \in Nat : k <= n => k \in G}
<1>1. 0 \in T
  OBVIOUS
<1>2. ASSUME NEW k \in T PROVE k + 1 \in T
  <2>1. (k + 1) - 1 = k /\ k + 1 \in Nat
    OBVIOUS
  <2>2. CASE k + 1 <= n
    <3>1. k + 1 \in 1..n /\ k \in G
      BY <2>2
    <3> QED
      BY <2>1, <3>1
  <2> QED
    BY <2>1, <2>2
<1>3. T = Nat
  <2>1. T \in SUBSET Nat
    OBVIOUS
  <2> HIDE DEF T
  <2> QED
    BY <1>1, <1>2, <2>1, FromZero
<1> QED
  BY <1>3
=============================================================================
