----------------------------- MODULE FoldTheorems -----------------------------
(***************************************************************************)
(* Induction and recursion in the form the provers can use: with sets and  *)
(* functions for the predicate and the step, because a lemma with an       *)
(* operator parameter cannot be instantiated.  They justify the folds the  *)
(* model is written with: a fold is some solution of a recursive equation  *)
(* (MapThenFoldSet), and Recursion says that the equation has one.         *)
(***************************************************************************)
EXTENDS Integers, SequencesExt, FiniteSetTheorems, WellFoundedInduction, TLAPS

Before == {p \in Nat \X Nat : p[1] < p[2]}

LEMMA BeforeWellFounded == IsWellFoundedOn(Before, Nat)
BY NatLessThanWellFounded DEF OpToRel, Before

\* A set of natural numbers that has a member has a least one.
LEMMA Least ==
    ASSUME NEW T \in SUBSET Nat, T # {}
    PROVE  \E n \in T : \A m \in T : n <= m
<1>1. PICK n \in T : \A m \in T : <<m, n>> \notin Before
  BY BeforeWellFounded, WFMin
<1>2. ASSUME NEW m \in T PROVE n <= m
  <2>1. <<m, n>> \notin Before
    BY <1>1
  <2> QED BY <2>1 DEF Before
<1> QED BY <1>2

\* A set with 0 that has the successor of each of its numbers has them all.
LEMMA Induction ==
    ASSUME NEW S, 0 \in S, \A n \in Nat : n \in S => n + 1 \in S
    PROVE  Nat \subseteq S
<1>1. SUFFICES ASSUME Nat \ S # {} PROVE FALSE
  OBVIOUS
<1>2. PICK n \in Nat \ S : \A m \in Nat \ S : n <= m
  BY <1>1, Least
<1>3. n - 1 \in Nat /\ n - 1 \in S
  BY <1>2
<1> QED BY <1>2, <1>3

\* Likewise for a bounded range.
LEMMA RangeInduction ==
    ASSUME NEW n \in Nat, NEW S, 0 \in S, \A k \in 1..n : k - 1 \in S => k \in S
    PROVE  0..n \subseteq S
<1> DEFINE T == {k \in Nat : k \in 0..n => k \in S}
<1>1. 0 \in T
  OBVIOUS
<1>2. ASSUME NEW k \in Nat, k \in T PROVE k + 1 \in T
  <2> SUFFICES ASSUME k + 1 \in 0..n PROVE k + 1 \in S
    OBVIOUS
  <2>1. k \in S /\ k + 1 \in 1..n /\ (k + 1) - 1 = k
    BY <1>2
  <2> QED BY <2>1
<1>3. Nat \subseteq T
  <2> HIDE DEF T
  <2> QED BY <1>1, <1>2, Induction
<1> QED BY <1>3

\* The subsets of a finite set, and what is left of one without a member.
LEMMA Subsets ==
    ASSUME NEW D, IsFiniteSet(D)
    PROVE  /\ \A s \in SUBSET D : /\ IsFiniteSet(s) /\ Cardinality(s) \in Nat
                                  /\ Cardinality(s) <= Cardinality(D)
                                  /\ Cardinality(s) = 0 <=> s = {}
           /\ \A s \in SUBSET D : \A x \in s : /\ s \ {x} \in SUBSET D
                                    /\ Cardinality(s \ {x}) = Cardinality(s) - 1
BY FS_Subset, FS_CardinalityType, FS_RemoveElement, FS_EmptySet

\* A set of subsets that has one whenever it has all the smaller ones has them all.
LEMMA SubsetInduction ==
    ASSUME NEW D, IsFiniteSet(D), NEW S,
           \A s \in SUBSET D :
              (\A t \in SUBSET D : Cardinality(t) < Cardinality(s) => t \in S) => s \in S
    PROVE  SUBSET D \subseteq S
<1> DEFINE T == {n \in Nat : \A t \in SUBSET D : Cardinality(t) < n => t \in S}
<1>1. 0 \in T
  <2>1. \A t \in SUBSET D : ~(Cardinality(t) < 0)
    BY Subsets
  <2> QED BY <2>1
<1>2. ASSUME NEW n \in Nat, n \in T PROVE n + 1 \in T
  <2>1. ASSUME NEW t \in SUBSET D, Cardinality(t) < n + 1 PROVE t \in S
    <3>1. Cardinality(t) \in Nat /\ \A u \in SUBSET D : Cardinality(u) \in Nat
      BY Subsets
    <3>2. ASSUME NEW u \in SUBSET D, Cardinality(u) < Cardinality(t) PROVE u \in S
      <4>1. Cardinality(u) < n
        BY <2>1, <3>1, <3>2
      <4> QED BY <1>2, <4>1
    <3> QED BY <3>2
  <2> QED BY <2>1
<1>3. Nat \subseteq T
  <2> HIDE DEF T
  <2> QED BY <1>1, <1>2, Induction
<1>4. ASSUME NEW t \in SUBSET D PROVE t \in S
  <2>1. Cardinality(t) \in Nat
    BY Subsets
  <2>2. Cardinality(t) + 1 \in T /\ Cardinality(t) < Cardinality(t) + 1
    BY <1>3, <2>1
  <2> QED BY <2>2
<1> QED BY <1>4

(***************************************************************************)
(* A recursion over the subsets of a finite set that takes one element at  *)
(* a time has a solution, whatever the choice and the step.                *)
(***************************************************************************)
Picks(pick, D) == \A s \in SUBSET D : s # {} => pick[s] \in s
StepsTo(step, D, V) == \A x \in D, v \in V : step[<<x, v>>] \in V
Solution(g, D, base, pick, step) ==
    g = [s \in SUBSET D |-> IF s = {} THEN base ELSE step[<<pick[s], g[s \ {pick[s]}]>>]]

LEMMA Recursion ==
    ASSUME NEW D, IsFiniteSet(D), NEW V, NEW base \in V, NEW pick, Picks(pick, D),
           NEW step, StepsTo(step, D, V)
    PROVE  \E g \in [SUBSET D -> V] : Solution(g, D, base, pick, step)
<1> USE DEF Picks, StepsTo
<1> DEFINE Small(n) == {s \in SUBSET D : Cardinality(s) <= n}
           Solves(g, n) == /\ g \in [SUBSET D -> V]
                           /\ \A s \in Small(n) :
                                 g[s] = IF s = {} THEN base
                                        ELSE step[<<pick[s], g[s \ {pick[s]}]>>]
           Solvable == {n \in Nat : \E g : Solves(g, n)}
<1>1. 0 \in Solvable
  <2> DEFINE g == [s \in SUBSET D |-> base]
  <2>1. \A s \in Small(0) : s = {}
    BY Subsets
  <2>2. Solves(g, 0)
    BY <2>1
  <2> QED BY <2>2
<1>2. ASSUME NEW n \in Nat, n \in Solvable PROVE n + 1 \in Solvable
  <2>1. PICK f : Solves(f, n)
    BY <1>2
  <2> DEFINE g == [s \in SUBSET D |-> IF s = {} THEN base
                                      ELSE step[<<pick[s], f[s \ {pick[s]}]>>]]
  <2>2. g \in [SUBSET D -> V]
    BY <2>1
  <2>3. ASSUME NEW s \in Small(n) PROVE g[s] = f[s]
    BY <2>1
  <2>4. \A s \in Small(n + 1) : s # {} => s \ {pick[s]} \in Small(n)
    BY Subsets
  <2>5. \A s \in Small(n + 1) : s # {} => g[s \ {pick[s]}] = f[s \ {pick[s]}]
    BY <2>3, <2>4
  <2>6. Solves(g, n + 1)
    BY <2>2, <2>5
  <2> HIDE DEF g, Solves
  <2> QED BY <2>6
<1>3. Cardinality(D) \in Solvable
  <2> HIDE DEF Solvable
  <2>1. Nat \subseteq Solvable
    BY <1>1, <1>2, Induction
  <2> QED BY <2>1, Subsets
<1>4. PICK g : Solves(g, Cardinality(D))
  BY <1>3
<1>5. Small(Cardinality(D)) = SUBSET D
  BY Subsets
<1>6. Solution(g, D, base, pick, step)
  BY <1>4, <1>5 DEF Solution
<1> QED BY <1>4, <1>6

-------------------------------------------------------------------------------
\* What a fold from the left chooses next: the greatest index.
LEMMA MaxOfRange ==
    ASSUME NEW k \in Nat, k > 0
    PROVE  Max(1..k) = k /\ (1..k) \ {k} = 1..(k - 1)
BY DEF Max

LEMMA MaxInside ==
    ASSUME NEW n \in Nat, NEW s \in SUBSET (1..n), s # {}
    PROVE  Max(s) \in s
<1> DEFINE T == {n - x : x \in s}
<1>1. T \in SUBSET Nat /\ T # {}
  <2>1. \A x \in s : n - x \in Nat
    OBVIOUS
  <2> QED BY <2>1
<1>2. PICK t \in T : \A u \in T : t <= u
  <2> HIDE DEF T
  <2> QED BY <1>1, Least
<1>3. PICK x \in s : t = n - x
  OBVIOUS
<1>4. ASSUME NEW y \in s PROVE x >= y
  <2>1. n - x <= n - y
    BY <1>2, <1>3
  <2> QED BY <2>1
<1> QED BY <1>4 DEF Max

-------------------------------------------------------------------------------
(***************************************************************************)
(* The sum of the values of a function, in any order.                      *)
(***************************************************************************)
Sums(h, f) == h = [s \in SUBSET DOMAIN f |->
                      IF s = {} THEN 0
                      ELSE f[CHOOSE x \in s : TRUE] + h[s \ {CHOOSE x \in s : TRUE}]]

\* f has integer values on the finite set D, and h are sums of them.
SumsOf(h, f, D) == /\ IsFiniteSet(D) /\ f \in [D -> Int]
                   /\ h \in [SUBSET D -> Int] /\ Sums(h, f)

LEMMA SumIsSome ==
    ASSUME NEW D, IsFiniteSet(D), NEW f \in [D -> Int]
    PROVE  \E h : SumsOf(h, f, D) /\ SumFunction(f) = h[D]
<1> DEFINE V == Int
           pick == [s \in SUBSET D |-> CHOOSE x \in s : TRUE]
           step == [p \in D \X Int |-> f[p[1]] + p[2]]
<1>1. Picks(pick, D)
  BY DEF Picks
<1>2. \A x \in D, v \in Int : step[<<x, v>>] = f[x] + v
  OBVIOUS
<1>3. PICK g \in [SUBSET D -> V] : Solution(g, D, 0, pick, step)
  <2>1. StepsTo(step, D, V) /\ 0 \in V
    BY DEF StepsTo
  <2> HIDE DEF V, pick, step
  <2> QED BY <1>1, <2>1, Recursion
<1>4. Sums(g, f)
  <2>1. ASSUME NEW s \in SUBSET D, s # {}
        PROVE  g[s] = f[CHOOSE x \in s : TRUE] + g[s \ {CHOOSE x \in s : TRUE}]
    <3>1. pick[s] \in D /\ g[s \ {pick[s]}] \in Int
      BY <2>1
    <3>2. g[s] = step[<<pick[s], g[s \ {pick[s]}]>>]
      BY <1>3, <2>1 DEF Solution
    <3>3. g[s] = f[pick[s]] + g[s \ {pick[s]}]
      BY <1>2, <3>1, <3>2
    <3> QED BY <3>3
  <2>2. g[{}] = 0 /\ g = [s \in SUBSET D |-> g[s]]
    BY <1>3 DEF Solution
  <2> QED BY <2>1, <2>2 DEF Sums
<1> DEFINE h == CHOOSE iter : Sums(iter, f)
<1>5. Sums(h, f)
  BY <1>4
<1>6. SumFunction(f) = h[D]
  BY DEF Sums, SumFunction, SumFunctionOnSet, FoldFunctionOnSet, MapThenFoldSet
<1>7. h \in [SUBSET D -> Int]
  <2> DEFINE S == {s \in SUBSET D : h[s] \in Int}
  <2> HIDE DEF h
  <2>1. ASSUME NEW s \in SUBSET D,
               \A t \in SUBSET D : Cardinality(t) < Cardinality(s) => t \in S
        PROVE  s \in S
    <3>1. CASE s = {}
      BY <1>5, <3>1 DEF Sums
    <3>2. CASE s # {}
      <4> DEFINE x == CHOOSE x \in s : TRUE
      <4>1. x \in s /\ h[s] = f[x] + h[s \ {x}]
        BY <1>5, <3>2 DEF Sums
      <4>2. s \ {x} \in S
        BY <2>1, <4>1, Subsets
      <4> QED BY <4>1, <4>2
    <3> QED BY <3>1, <3>2
  <2>2. SUBSET D \subseteq S
    <3> HIDE DEF S
    <3> QED BY <2>1, SubsetInduction
  <2>3. h = [s \in SUBSET D |-> h[s]]
    BY <1>5 DEF Sums
  <2> QED BY <2>2, <2>3
<1> QED BY <1>5, <1>6, <1>7 DEF SumsOf

\* Whichever element is taken last.
TakesAny(h, f, D) == \A s \in SUBSET D : \A y \in s : h[s] = f[y] + h[s \ {y}]

LEMMA SumTakes ==
    ASSUME NEW D, NEW f, NEW h, SumsOf(h, f, D)
    PROVE  TakesAny(h, f, D)
<1> DEFINE S == {s \in SUBSET D : \A y \in s : h[s] = f[y] + h[s \ {y}]}
<1> USE DEF SumsOf, TakesAny
<1>1. ASSUME NEW s \in SUBSET D,
             \A t \in SUBSET D : Cardinality(t) < Cardinality(s) => t \in S
      PROVE  s \in S
  <2> SUFFICES ASSUME NEW y \in s PROVE h[s] = f[y] + h[s \ {y}]
    OBVIOUS
  <2> DEFINE x == CHOOSE x \in s : TRUE
  <2>1. x \in s /\ h[s] = f[x] + h[s \ {x}]
    BY DEF Sums
  <2> HIDE DEF x
  <2>2. CASE x = y
    BY <2>1, <2>2
  <2>3. CASE x # y
    <3>1. s \ {x} \in S /\ s \ {y} \in S
      <4> HIDE DEF S
      <4>1. ASSUME NEW z \in s PROVE s \ {z} \in S
        <5>1. /\ s \ {z} \in SUBSET D /\ Cardinality(s) \in Nat
              /\ Cardinality(s \ {z}) = Cardinality(s) - 1
          BY Subsets
        <5>2. Cardinality(s \ {z}) < Cardinality(s)
          BY <5>1
        <5> QED BY <1>1, <5>1, <5>2
      <4> QED BY <2>1, <4>1
    <3>2. h[s \ {x}] = f[y] + h[(s \ {x}) \ {y}]
      BY <2>3, <3>1
    <3>3. h[s \ {y}] = f[x] + h[(s \ {y}) \ {x}]
      BY <2>1, <2>3, <3>1
    <3>4. (s \ {x}) \ {y} = (s \ {y}) \ {x}
      OBVIOUS
    <3>5. f[x] \in Int /\ f[y] \in Int /\ h[(s \ {x}) \ {y}] \in Int
      BY <2>1
    <3>6. h[s] = f[x] + (f[y] + h[(s \ {x}) \ {y}])
      BY <2>1, <3>2
    <3>7. h[s \ {y}] = f[x] + h[(s \ {x}) \ {y}]
      BY <3>3, <3>4
    <3> QED BY <3>5, <3>6, <3>7
  <2> QED BY <2>2, <2>3
<1>2. SUBSET D \subseteq S
  <2> HIDE DEF S
  <2> QED BY <1>1, SubsetInduction
<1> QED BY <1>2

\* The sum over a set is the sum over a part of it, when the rest is one element.
LEMMA SumAdds ==
    ASSUME NEW D, IsFiniteSet(D), NEW f \in [D -> Int], NEW y \in D
    PROVE  /\ SumFunction(f) \in Int
           /\ SumFunction(f) = f[y] + SumFunction([x \in D \ {y} |-> f[x]])
<1> DEFINE E == D \ {y}
           e == [x \in E |-> f[x]]
<1>1. IsFiniteSet(E) /\ e \in [E -> Int] /\ SUBSET E \subseteq SUBSET D
  BY FS_Subset
<1>2. PICK h : SumsOf(h, f, D) /\ SumFunction(f) = h[D]
  BY SumIsSome
<1>3. PICK g : SumsOf(g, e, E) /\ SumFunction(e) = g[E]
  <2> HIDE DEF E, e
  <2> QED BY <1>1, SumIsSome
<1>4. h[D] = f[y] + h[E]
  <2>1. TakesAny(h, f, D)
    BY <1>2, SumTakes
  <2> QED BY <2>1 DEF TakesAny
<1> USE DEF SumsOf
<1> DEFINE S == {s \in SUBSET E : g[s] = h[s]}
<1>5. ASSUME NEW s \in SUBSET E,
             \A t \in SUBSET E : Cardinality(t) < Cardinality(s) => t \in S
      PROVE  s \in S
  <2>1. CASE s = {}
    BY <1>2, <1>3, <2>1 DEF Sums
  <2>2. CASE s # {}
    <3> DEFINE x == CHOOSE x \in s : TRUE
    <3>1. x \in s
      BY <2>2
    <3>2. g[s] = e[x] + g[s \ {x}] /\ h[s] = f[x] + h[s \ {x}]
      BY <1>1, <1>2, <1>3, <2>2 DEF Sums
    <3>3. e[x] = f[x]
      BY <3>1
    <3>4. s \ {x} \in S
      <4> HIDE DEF x, S, E
      <4> QED BY <1>1, <1>5, <3>1, Subsets
    <3> QED BY <3>2, <3>3, <3>4
  <2> QED BY <2>1, <2>2
<1>6. SUBSET E \subseteq S
  <2> HIDE DEF S, E
  <2> QED BY <1>1, <1>5, SubsetInduction
<1>7. g[E] = h[E]
  BY <1>6
<1> QED BY <1>2, <1>3, <1>4, <1>7

LEMMA SumOfNone == ASSUME NEW f, DOMAIN f = {} PROVE SumFunction(f) = 0
BY DEF SumFunction, SumFunctionOnSet, FoldFunctionOnSet, MapThenFoldSet

-------------------------------------------------------------------------------
(***************************************************************************)
(* Folding a sequence from the left: the value for 1..k is one step from   *)
(* the value for 1..k-1.                                                   *)
(***************************************************************************)
FoldsLeft(h, n, base, step) ==
    h = [s \in SUBSET (1..n) |-> IF s = {} THEN base
                                 ELSE step[<<Max(s), h[s \ {Max(s)}]>>]]

LEMMA LeftRecursion ==
    ASSUME NEW n \in Nat, NEW V, NEW base \in V, NEW step, StepsTo(step, 1..n, V)
    PROVE  \E h \in [SUBSET (1..n) -> V] : FoldsLeft(h, n, base, step)
<1> DEFINE pick == [s \in SUBSET (1..n) |-> Max(s)]
<1>1. Picks(pick, 1..n) /\ IsFiniteSet(1..n)
  <2>1. ASSUME NEW s \in SUBSET (1..n), s # {} PROVE pick[s] \in s
    BY <2>1, MaxInside
  <2>2. IsFiniteSet(1..n)
    BY FS_Interval
  <2> QED BY <2>1, <2>2 DEF Picks
<1>2. PICK h \in [SUBSET (1..n) -> V] : Solution(h, 1..n, base, pick, step)
  <2> HIDE DEF pick
  <2> QED BY <1>1, Recursion
<1> QED BY <1>2 DEF Solution, FoldsLeft

-------------------------------------------------------------------------------
(***************************************************************************)
(* Sums over the first k of n integers.                                    *)
(***************************************************************************)
SumTo(v, k) == SumFunction([i \in 1..k |-> v[i]])
Integers1(v, n) == v \in [1..n -> Int]

LEMMA SumToSteps ==
    ASSUME NEW n \in Nat, NEW v, Integers1(v, n)
    PROVE  /\ SumTo(v, 0) = 0
           /\ \A k \in 0..n : SumTo(v, k) \in Int
           /\ \A k \in 1..n : SumTo(v, k) = SumTo(v, k - 1) + v[k]
<1>1. SumTo(v, 0) = 0
  <2> DEFINE f == [i \in 1..0 |-> v[i]]
  <2>1. DOMAIN f = {}
    OBVIOUS
  <2> HIDE DEF f
  <2>2. SumFunction(f) = 0
    BY <2>1, SumOfNone
  <2> QED BY <2>2 DEF f, SumTo
<1>2. ASSUME NEW k \in 1..n
      PROVE  SumTo(v, k) \in Int /\ SumTo(v, k) = v[k] + SumTo(v, k - 1)
  <2> DEFINE D == 1..k
             f == [i \in D |-> v[i]]
  <2>1. IsFiniteSet(D) /\ f \in [D -> Int] /\ k \in D
    BY FS_Interval DEF Integers1
  <2>2. [i \in D \ {k} |-> f[i]] = [i \in 1..(k - 1) |-> v[i]]
    BY MaxOfRange
  <2>3. f[k] = v[k]
    OBVIOUS
  <2>4. /\ SumFunction(f) \in Int
        /\ SumFunction(f) = f[k] + SumFunction([i \in D \ {k} |-> f[i]])
    <3> HIDE DEF D, f
    <3> QED BY <2>1, SumAdds
  <2>5. SumTo(v, k) = SumFunction(f)
    BY DEF SumTo
  <2>6. SumTo(v, k - 1) = SumFunction([i \in D \ {k} |-> f[i]])
    BY <2>2 DEF SumTo
  <2> HIDE DEF f
  <2> QED BY <2>3, <2>4, <2>5, <2>6
<1>3. ASSUME NEW k \in 0..n PROVE SumTo(v, k) \in Int
  <2>1. k = 0 \/ k \in 1..n
    OBVIOUS
  <2> QED BY <1>1, <1>2, <2>1
<1>4. ASSUME NEW k \in 1..n PROVE SumTo(v, k) = SumTo(v, k - 1) + v[k]
  <2>1. k - 1 \in 0..n /\ v[k] \in Int
    BY DEF Integers1
  <2>2. SumTo(v, k - 1) \in Int
    BY <1>3, <2>1
  <2>3. SumTo(v, k) = v[k] + SumTo(v, k - 1)
    BY <1>2
  <2> QED BY <2>1, <2>2, <2>3
<1> QED BY <1>1, <1>3, <1>4

LEMMA OneMore == \A a, b \in Int : (a - 1) * b + b = a * b
OBVIOUS

\* A sum of n integers lies between n times a lower and n times an upper bound.
LEMMA SumToBounds ==
    ASSUME NEW n \in Nat, NEW v, Integers1(v, n), NEW lo \in Int, NEW hi \in Int,
           \A i \in 1..n : lo <= v[i] /\ v[i] <= hi
    PROVE  n * lo <= SumTo(v, n) /\ SumTo(v, n) <= n * hi
<1> DEFINE S == {k \in 0..n : k * lo <= SumTo(v, k) /\ SumTo(v, k) <= k * hi}
<1>1. 0 \in S
  BY SumToSteps
<1>2. ASSUME NEW k \in 1..n, k - 1 \in S PROVE k \in S
  <2> DEFINE before == SumTo(v, k - 1)
  <2>1. SumTo(v, k) = before + v[k] /\ before \in Int
    <3>1. k - 1 \in 0..n
      OBVIOUS
    <3> QED BY <3>1, SumToSteps
  <2>2. (k - 1) * lo <= before /\ before <= (k - 1) * hi
    BY <1>2
  <2>3. lo <= v[k] /\ v[k] <= hi /\ v[k] \in Int
    BY DEF Integers1
  <2>4. (k - 1) * lo + lo = k * lo /\ (k - 1) * hi + hi = k * hi
    BY OneMore
  <2>5. (k - 1) * lo \in Int /\ (k - 1) * hi \in Int
    OBVIOUS
  <2> HIDE DEF before
  <2>6. k * lo <= before + v[k] /\ before + v[k] <= k * hi
    BY <2>1, <2>2, <2>3, <2>4, <2>5
  <2> QED BY <2>1, <2>6
<1>3. 0..n \subseteq S
  <2> HIDE DEF S
  <2> QED BY <1>1, <1>2, RangeInduction
<1> QED BY <1>3

\* Some integer among n is least, and some is greatest.
LEMMA Extremes ==
    ASSUME NEW n \in Nat, n > 0, NEW v, Integers1(v, n)
    PROVE  \E lo, hi \in 1..n : \A i \in 1..n : v[lo] <= v[i] /\ v[i] <= v[hi]
<1> DEFINE S == {k \in 0..n : k > 0 => \E lo, hi \in 1..k :
                                 \A i \in 1..k : v[lo] <= v[i] /\ v[i] <= v[hi]}
<1>1. 0 \in S
  OBVIOUS
<1>2. ASSUME NEW k \in 1..n, k - 1 \in S PROVE k \in S
  <2>1. \A i \in 1..n : v[i] \in Int
    BY DEF Integers1
  <2>2. \A i \in 1..k : i \in 1..n /\ (i = k \/ i \in 1..(k - 1))
    OBVIOUS
  <2>3. CASE k = 1
    <3>1. \A i \in 1..k : v[k] <= v[i] /\ v[i] <= v[k]
      BY <2>1, <2>3
    <3> QED BY <3>1
  <2>4. CASE k > 1
    <3>1. PICK lo, hi \in 1..(k - 1) :
              \A i \in 1..(k - 1) : v[lo] <= v[i] /\ v[i] <= v[hi]
      BY <1>2, <2>4
    <3> DEFINE low == IF v[k] < v[lo] THEN k ELSE lo
               high == IF v[k] > v[hi] THEN k ELSE hi
    <3>2. lo \in 1..n /\ hi \in 1..n /\ low \in 1..k /\ high \in 1..k
      BY <2>4
    <3>3. v[low] <= v[lo] /\ v[low] <= v[k] /\ v[hi] <= v[high] /\ v[k] <= v[high]
      BY <2>1, <3>2
    <3>4. low \in 1..n /\ high \in 1..n
      BY <3>2
    <3> HIDE DEF low, high
    <3>5. ASSUME NEW i \in 1..k PROVE v[low] <= v[i] /\ v[i] <= v[high]
      <4>1. CASE i = k
        BY <3>3, <4>1
      <4>2. CASE i \in 1..(k - 1)
        BY <2>1, <2>2, <3>1, <3>2, <3>3, <3>4, <4>2
      <4> QED BY <2>2, <4>1, <4>2
    <3> QED BY <3>2, <3>5
  <2> QED BY <2>3, <2>4
<1>3. 0..n \subseteq S
  <2> HIDE DEF S
  <2> QED BY <1>1, <1>2, RangeInduction
<1>4. n \in S
  <2> HIDE DEF S
  <2> QED BY <1>3
<1> QED BY <1>4

\* Changing one of n integers changes their sum by as much.
LEMMA SumToChanges ==
    ASSUME NEW n \in Nat, NEW v, NEW w, Integers1(v, n), Integers1(w, n),
           NEW i \in 1..n, \A j \in (1..n) \ {i} : v[j] = w[j]
    PROVE  SumTo(w, n) - SumTo(v, n) = w[i] - v[i]
<1> DEFINE D == 1..n
           f == [j \in D |-> v[j]]
           g == [j \in D |-> w[j]]
<1>1. IsFiniteSet(D) /\ f \in [D -> Int] /\ g \in [D -> Int] /\ i \in D
  BY FS_Interval DEF Integers1
<1>2. [j \in D \ {i} |-> f[j]] = [j \in D \ {i} |-> g[j]]
  OBVIOUS
<1>3. f[i] = v[i] /\ g[i] = w[i] /\ v[i] \in Int /\ w[i] \in Int
  BY DEF Integers1
<1>4. SumTo(v, n) = SumFunction(f) /\ SumTo(w, n) = SumFunction(g)
  BY DEF SumTo
<1> DEFINE rest == SumFunction([j \in D \ {i} |-> f[j]])
<1> HIDE DEF D, f, g
<1>5. SumFunction(f) \in Int /\ SumFunction(f) = f[i] + rest
  BY <1>1, SumAdds
<1>6. SumFunction(g) \in Int /\ SumFunction(g) = g[i] + rest
  <2>1. /\ SumFunction(g) \in Int
        /\ SumFunction(g) = g[i] + SumFunction([j \in D \ {i} |-> g[j]])
    BY <1>1, SumAdds
  <2>2. SumFunction([j \in D \ {i} |-> g[j]]) = rest
    BY <1>2
  <2> HIDE DEF rest
  <2> QED BY <2>1, <2>2
<1>7. rest \in Int
  <2>1. IsFiniteSet(D \ {i}) /\ [j \in D \ {i} |-> f[j]] \in [D \ {i} -> Int]
    BY <1>1, FS_Subset
  <2> DEFINE E == D \ {i}
             e == [j \in E |-> f[j]]
  <2>2. IsFiniteSet(E) /\ e \in [E -> Int]
    BY <2>1
  <2> HIDE DEF E, e
  <2>3. PICK h : SumsOf(h, e, E) /\ SumFunction(e) = h[E]
    BY <2>2, SumIsSome
  <2>4. h[E] \in Int
    BY <2>3 DEF SumsOf
  <2> QED BY <2>3, <2>4 DEF E, e
<1> HIDE DEF rest
<1> QED BY <1>3, <1>4, <1>5, <1>6, <1>7

-------------------------------------------------------------------------------
(***************************************************************************)
(* Sets of natural numbers, in order.                                      *)
(***************************************************************************)
Increasing(seq) == \A i, j \in DOMAIN seq : i < j => seq[i] < seq[j]

\* A finite set can be enumerated in order ...
LEMMA Enumeration ==
    ASSUME NEW D \in SUBSET Nat, IsFiniteSet(D)
    PROVE  \E seq \in [1..Cardinality(D) -> D] : Increasing(seq)
<1> DEFINE S == {s \in SUBSET D : \E seq \in [1..Cardinality(s) -> s] : Increasing(seq)}
<1>1. ASSUME NEW s \in SUBSET D,
             \A t \in SUBSET D : Cardinality(t) < Cardinality(s) => t \in S
      PROVE  s \in S
  <2>1. CASE s = {}
    <3> DEFINE none == [i \in 1..0 |-> 0]
    <3>1. none \in [1..Cardinality(s) -> s] /\ Increasing(none)
      BY <2>1, FS_EmptySet DEF Increasing
    <3> QED BY <3>1
  <2>2. CASE s # {}
    <3>1. PICK x \in s : \A y \in s : x <= y
      BY <2>2, Least
    <3> DEFINE t == s \ {x}
               n == Cardinality(s)
    <3>2. /\ t \in SUBSET D /\ n \in Nat /\ n > 0 /\ Cardinality(t) = n - 1
          /\ \A y \in t : x < y
      <4>1. t \in SUBSET D /\ Cardinality(t) = n - 1 /\ n \in Nat /\ n # 0
        BY <2>2, <3>1, Subsets
      <4> QED BY <3>1, <4>1
    <3>3. PICK q \in [1..(n - 1) -> t] : Increasing(q)
      <4>1. Cardinality(t) < Cardinality(s)
        BY <3>2
      <4> QED BY <1>1, <3>2, <4>1
    <3> DEFINE seq == [i \in 1..n |-> IF i = 1 THEN x ELSE q[i - 1]]
    <3> HIDE DEF n, t
    <3>4. \A i \in 1..n : i # 1 => i - 1 \in 1..(n - 1) /\ q[i - 1] \in t
      BY <3>2, <3>3
    <3>5. seq \in [1..n -> s]
      BY <3>1, <3>4 DEF t
    <3>6. ASSUME NEW i \in 1..n, NEW j \in 1..n, i < j PROVE seq[i] < seq[j]
      <4>1. j # 1 /\ seq[j] = q[j - 1] /\ q[j - 1] \in t
        BY <3>4, <3>6
      <4>2. CASE i = 1
        BY <3>2, <4>1, <4>2
      <4>3. CASE i # 1
        <5>1. seq[i] = q[i - 1] /\ i - 1 \in 1..(n - 1) /\ j - 1 \in 1..(n - 1)
          BY <3>4, <4>1, <4>3
        <5>2. i - 1 < j - 1
          BY <3>6
        <5> QED BY <3>3, <4>1, <5>1, <5>2 DEF Increasing
      <4> QED BY <4>2, <4>3
    <3>7. Increasing(seq)
      BY <3>6 DEF Increasing
    <3> QED BY <3>5, <3>7 DEF n
  <2> QED BY <2>1, <2>2
<1>2. SUBSET D \subseteq S
  <2> HIDE DEF S
  <2> QED BY <1>1, SubsetInduction
<1> QED BY <1>2

\* ... and such an enumeration leaves nothing out.
LEMMA EnumeratesAll ==
    ASSUME NEW D \in SUBSET Nat, IsFiniteSet(D),
           NEW seq \in [1..Cardinality(D) -> D], Increasing(seq)
    PROVE  Range(seq) = D
<1> DEFINE n == Cardinality(D)
<1>1. n \in Nat
  BY FS_CardinalityType
<1>2. \A i, j \in 1..n : seq[i] = seq[j] => i = j
  <2> SUFFICES ASSUME NEW i \in 1..n, NEW j \in 1..n, i # j PROVE seq[i] # seq[j]
    OBVIOUS
  <2>1. i < j \/ j < i
    BY <1>1
  <2>2. seq[i] \in Nat /\ seq[j] \in Nat
    OBVIOUS
  <2> QED BY <2>1, <2>2 DEF Increasing
<1>3. seq \in Injection(1..n, D)
  BY <1>2 DEF Injection, IsInjective
<1>4. IsFiniteSet(1..n) /\ Cardinality(1..n) = n
  BY <1>1, FS_Interval
<1>5. seq \in Surjection(1..n, D)
  <2> HIDE DEF n
  <2> QED BY <1>3, <1>4, FS_Injection DEF n
<1> QED BY <1>5 DEF Surjection, Range

\* The k-th number of an increasing sequence has k - 1 smaller ones before it.
LEMMA CountsBelow ==
    ASSUME NEW n \in Nat, NEW seq \in [1..n -> Nat], Increasing(seq), NEW k \in 1..n
    PROVE  Cardinality({q \in Range(seq) : q < seq[k]}) = k - 1
<1> DEFINE T == {q \in Range(seq) : q < seq[k]}
           m == k - 1
           f == [j \in 1..m |-> seq[j]]
<1>1. \A i, j \in 1..n : (i < j <=> seq[i] < seq[j]) /\ (seq[i] = seq[j] => i = j)
  <2> SUFFICES ASSUME NEW i \in 1..n, NEW j \in 1..n
               PROVE  (i < j <=> seq[i] < seq[j]) /\ (seq[i] = seq[j] => i = j)
    OBVIOUS
  <2>1. seq[i] \in Nat /\ seq[j] \in Nat
    OBVIOUS
  <2>2. CASE i < j
    BY <2>1, <2>2 DEF Increasing
  <2>3. CASE j < i
    BY <2>1, <2>3 DEF Increasing
  <2>4. CASE i = j
    BY <2>1, <2>4
  <2> QED BY <2>2, <2>3, <2>4
<1>2. \A j \in 1..m : j \in 1..n /\ j < k
  OBVIOUS
<1>3. f \in [1..m -> T]
  BY <1>1, <1>2 DEF Range
<1>4. \A i, j \in 1..m : f[i] = f[j] => i = j
  BY <1>1, <1>2
<1>5. ASSUME NEW q \in T PROVE \E j \in 1..m : f[j] = q
  <2>1. PICK j \in 1..n : q = seq[j]
    BY DEF Range
  <2>2. j < k
    BY <1>1, <2>1
  <2> QED BY <2>1, <2>2
<1>6. f \in Bijection(1..m, T)
  <2> HIDE DEF T
  <2> QED BY <1>3, <1>4, <1>5 DEF Bijection, Injection, IsInjective, Surjection
<1>7. m \in Nat
  OBVIOUS
<1> HIDE DEF T, m, f
<1>8. ExistsBijection(1..m, T)
  BY <1>6 DEF ExistsBijection
<1>9. Cardinality(T) = m
  BY <1>7, <1>8, FS_CountingElements
<1> QED BY <1>9 DEF T, m
===============================================================================
