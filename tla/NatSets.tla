------------------------------ MODULE NatSets ------------------------------
(***************************************************************************)
(* Facts about sets of natural numbers, and about the sums of numbers over *)
(* finite sets, that the proofs of several components cite.  Induction is  *)
(* stated over a set of numbers, so that it takes no operator as a         *)
(* parameter.                                                              *)
(***************************************************************************)
EXTENDS Integers, FiniteSets, Functions, FiniteSetTheorems, WellFoundedInduction, TLAPS

\* A set of numbers that is not empty has a least one.
LEMMA LeastNat ==
  ASSUME NEW S \in SUBSET Nat, S # {}
  PROVE  \E n \in S : \A m \in S : n <= m
<1> DEFINE R == OpToRel(<, Nat)
<1>1. IsWellFoundedOn(R, Nat)
  BY NatLessThanWellFounded, Zenon
<1> HIDE DEF R
<1>2. PICK n \in S : \A m \in S : ~ (<<m, n>> \in R)
  BY <1>1, WFMin
<1>3. \A m \in S : ~ (m < n)
  BY <1>2 DEF R, OpToRel
<1>4. QED
  BY <1>3

\* Induction: a set that has 0, and with a number the next one, has them all.
LEMMA NatSetInduction ==
  ASSUME NEW S, 0 \in S, \A n \in Nat : n \in S => n + 1 \in S
  PROVE  Nat \subseteq S
<1>1. SUFFICES ASSUME Nat \ S # {} PROVE FALSE
  OBVIOUS
<1>2. PICK n \in Nat \ S : \A m \in Nat \ S : n <= m
  BY <1>1, LeastNat
<1>3. n # 0 /\ n - 1 \in Nat
  BY <1>2
<1>4. n - 1 \in S /\ (n - 1) + 1 = n
  BY <1>2, <1>3
<1>5. QED
  BY <1>2, <1>3, <1>4

\* A set of numbers below a bound has a greatest one.
LEMMA GreatestNat ==
  ASSUME NEW S \in SUBSET Nat, S # {}, NEW b \in Nat, \A m \in S : m <= b
  PROVE  \E n \in S : \A m \in S : m <= n
<1> DEFINE Bounds == {n \in Nat : \A m \in S : m <= n}
<1>1. PICK n \in Bounds : \A m \in Bounds : n <= m
  <2>1. Bounds # {} /\ Bounds \in SUBSET Nat
    OBVIOUS
  <2> HIDE DEF Bounds
  <2>2. QED
    BY <2>1, LeastNat
<1>2. n \in S
  <2>1. SUFFICES ASSUME n \notin S PROVE FALSE
    OBVIOUS
  <2>2. \A m \in S : m <= n - 1
    BY <2>1
  <2>3. n - 1 \in Nat
    <3>1. PICK m \in S : m <= n - 1
      BY <2>2
    <3>2. QED
      BY <3>1
  <2>4. n - 1 \in Bounds
    BY <2>2, <2>3
  <2>5. QED
    BY <1>1, <2>3, <2>4
<1>3. QED
  BY <1>2

\* A function on 1..n with values in the numbers is bounded.
LEMMA BoundedFunction ==
  ASSUME NEW n \in Nat, NEW f \in [1..n -> Nat]
  PROVE  \E b \in Nat : \A k \in 1..n : f[k] <= b
<1> DEFINE S == {l \in Nat : l <= n => \E b \in Nat : \A k \in 1..l : f[k] <= b}
<1>1. 0 \in S
  OBVIOUS
<1>2. ASSUME NEW l \in Nat, l \in S
      PROVE  l + 1 \in S
  <2>1. SUFFICES ASSUME l + 1 <= n
                 PROVE  \E b \in Nat : \A k \in 1..(l + 1) : f[k] <= b
    OBVIOUS
  <2>2. PICK b \in Nat : \A k \in 1..l : f[k] <= b
    BY <1>2, <2>1
  <2>3. f[l + 1] \in Nat
    BY <2>1
  <2>4. PICK c \in Nat : b <= c /\ f[l + 1] <= c
    BY <2>2, <2>3
  <2>5. ASSUME NEW k \in 1..(l + 1)
        PROVE  f[k] <= c
    <3>1. CASE k = l + 1
      BY <2>4, <3>1
    <3>2. CASE k \in 1..l
      BY <2>1, <2>2, <2>4, <3>2
    <3>3. QED
      BY <3>1, <3>2
  <2>6. QED
    BY <2>4, <2>5
<1> HIDE DEF S
<1>3. Nat \subseteq S
  BY <1>1, <1>2, NatSetInduction
<1>4. n \in S
  BY <1>3
<1>5. QED
  BY <1>4 DEF S

\* The sets of numbers from 1 to n.
LEMMA Within ==
  ASSUME NEW n \in Nat, NEW S \in SUBSET (1..n)
  PROVE  IsFiniteSet(S) /\ Cardinality(S) \in 0..n
<1>1. IsFiniteSet(1..n) /\ Cardinality(1..n) = n
  BY FS_Interval
<1>2. IsFiniteSet(S) /\ Cardinality(S) <= n
  BY <1>1, FS_Subset
<1>3. QED
  BY <1>2, FS_CardinalityType
---------------------------------------------------------------------------
(* Sums.                                                                   *)

\* The sum of w over the subsets of S, one element after the other.
SumsOf(iter, w, S) ==
  iter = [s \in SUBSET S |-> IF s = {} THEN 0
                             ELSE LET x == CHOOSE x \in s : TRUE IN w[x] + iter[s \ {x}]]

\* The sums of the subsets of at most n elements.
Small(S, n) == {s \in SUBSET S : Cardinality(s) <= n}

SmallSums(iter, w, S, n) ==
  /\ iter \in [Small(S, n) -> Int]
  /\ \A s \in Small(S, n) :
       iter[s] = IF s = {} THEN 0
                 ELSE LET x == CHOOSE x \in s : TRUE IN w[x] + iter[s \ {x}]

\* A set without one of its elements is smaller.
LEMMA OneLess ==
  ASSUME NEW S, IsFiniteSet(S), NEW s \in SUBSET S, NEW x \in s
  PROVE  /\ s \ {x} \in SUBSET S /\ Cardinality(s) \in Nat
         /\ Cardinality(s \ {x}) = Cardinality(s) - 1 /\ Cardinality(s \ {x}) \in Nat
<1>1. IsFiniteSet(s)
  BY FS_Subset
<1>2. IsFiniteSet(s \ {x}) /\ Cardinality(s \ {x}) = Cardinality(s) - 1
  BY <1>1, FS_RemoveElement
<1>3. QED
  BY <1>1, <1>2, FS_CardinalityType

LEMMA MoreSums ==
  ASSUME NEW S, IsFiniteSet(S), NEW w, \A x \in S : w[x] \in Int, NEW n \in Nat,
         NEW g, SmallSums(g, w, S, n)
  PROVE  \E h : SmallSums(h, w, S, n + 1)
<1> DEFINE step(k, s) == IF s = {} THEN 0
                         ELSE LET x == CHOOSE x \in s : TRUE IN w[x] + k[s \ {x}]
           h == [s \in Small(S, n + 1) |-> step(g, s)]
<1>1. ASSUME NEW s \in Small(S, n + 1), s # {}
      PROVE  \E x \in s : x = (CHOOSE y \in s : TRUE) /\ w[x] \in Int /\ s \ {x} \in Small(S, n)
  <2>1. PICK x \in s : x = CHOOSE y \in s : TRUE
    BY <1>1
  <2>2. s \in SUBSET S /\ Cardinality(s) <= n + 1
    BY DEF Small
  <2>3. s \ {x} \in SUBSET S /\ Cardinality(s \ {x}) <= n
    BY <2>2, OneLess
  <2>4. QED
    BY <2>1, <2>2, <2>3 DEF Small
<1>2. ASSUME NEW s \in Small(S, n + 1)
      PROVE  step(g, s) \in Int
  <2>1. CASE s = {}
    BY <2>1
  <2>2. CASE s # {}
    <3>1. PICK x \in s : x = (CHOOSE y \in s : TRUE) /\ w[x] \in Int /\ s \ {x} \in Small(S, n)
      BY <1>1, <2>2
    <3>2. g[s \ {x}] \in Int
      BY <3>1 DEF SmallSums
    <3>3. step(g, s) = w[x] + g[s \ {x}]
      BY <2>2, <3>1
    <3>4. QED
      BY <3>1, <3>2, <3>3
  <2>3. QED
    BY <2>1, <2>2
<1>3. h \in [Small(S, n + 1) -> Int]
  BY <1>2
<1>4. ASSUME NEW s \in Small(S, n)
      PROVE  s \in Small(S, n + 1) /\ h[s] = g[s]
  <2>1. s \in SUBSET S /\ Cardinality(s) <= n
    BY DEF Small
  <2>2. IsFiniteSet(s)
    BY <2>1, FS_Subset
  <2>3. s \in Small(S, n + 1)
    BY <2>1, <2>2, FS_CardinalityType DEF Small
  <2>4. h[s] = step(g, s)
    BY <2>3
  <2>5. g[s] = step(g, s)
    BY DEF SmallSums
  <2>6. QED
    BY <2>3, <2>4, <2>5
<1>5. ASSUME NEW s \in Small(S, n + 1)
      PROVE  h[s] = step(h, s)
  <2>1. CASE s = {}
    BY <2>1
  <2>2. CASE s # {}
    <3>1. PICK x \in s : x = (CHOOSE y \in s : TRUE) /\ w[x] \in Int /\ s \ {x} \in Small(S, n)
      BY <1>1, <2>2
    <3>2. h[s \ {x}] = g[s \ {x}]
      BY <1>4, <3>1
    <3>3. h[s] = step(g, s)
      OBVIOUS
    <3> HIDE DEF h
    <3>4. step(h, s) = w[x] + h[s \ {x}] /\ step(g, s) = w[x] + g[s \ {x}]
      BY <2>2, <3>1
    <3>5. QED
      BY <3>2, <3>3, <3>4
  <2>3. QED
    BY <2>1, <2>2
<1> HIDE DEF h
<1>6. QED
  BY <1>3, <1>5 DEF SmallSums

\* Every finite set of numbers has a sum.
LEMMA SumsExist ==
  ASSUME NEW S, IsFiniteSet(S), NEW w, \A x \in S : w[x] \in Int
  PROVE  \E iter : SumsOf(iter, w, S) /\ iter \in [SUBSET S -> Int]
<1> DEFINE N == {n \in Nat : \E g : SmallSums(g, w, S, n)}
<1>1. 0 \in N
  <2> DEFINE g == [s \in Small(S, 0) |-> 0]
  <2>1. \A s \in Small(S, 0) : s = {}
    <3> SUFFICES ASSUME NEW s \in Small(S, 0) PROVE s = {}
      OBVIOUS
    <3>1. s \in SUBSET S /\ Cardinality(s) <= 0
      BY DEF Small
    <3>2. IsFiniteSet(s)
      BY <3>1, FS_Subset
    <3>3. Cardinality(s) = 0
      BY <3>1, <3>2, FS_CardinalityType
    <3>4. QED
      BY <3>2, <3>3, FS_EmptySet
  <2>2. SmallSums(g, w, S, 0)
    BY <2>1 DEF SmallSums
  <2>3. QED
    BY <2>2
<1>2. \A n \in Nat : n \in N => n + 1 \in N
  BY MoreSums
<1>3. Nat \subseteq N
  <2> HIDE DEF N
  <2>1. QED
    BY <1>1, <1>2, NatSetInduction
<1>4. Cardinality(S) \in Nat /\ Cardinality(S) \in N
  BY <1>3, FS_CardinalityType
<1>5. Small(S, Cardinality(S)) = SUBSET S
  BY FS_Subset DEF Small
<1>6. PICK g : SmallSums(g, w, S, Cardinality(S))
  BY <1>4
<1>7. g \in [SUBSET S -> Int] /\ SumsOf(g, w, S)
  BY <1>5, <1>6 DEF SmallSums, SumsOf
<1>8. QED
  BY <1>7

LEMMA SumIsOfSums ==
  ASSUME NEW S, IsFiniteSet(S), NEW w, \A x \in S : w[x] \in Int
  PROVE  \E iter : SumsOf(iter, w, S) /\ SumFunctionOnSet(w, S) = iter[S]
<1> DEFINE iter == CHOOSE iter : SumsOf(iter, w, S)
<1>1. SumsOf(iter, w, S)
  BY SumsExist
<1>2. SumFunctionOnSet(w, S) = iter[S]
  BY DEF SumsOf, SumFunctionOnSet, FoldFunctionOnSet, MapThenFoldSet
<1>3. QED
  BY <1>1, <1>2

\* Such sums do not depend on the set they are computed over.
LEMMA SumsAgree ==
  ASSUME NEW S, IsFiniteSet(S), NEW T \in SUBSET S, NEW w, \A x \in S : w[x] \in Int,
         NEW g, SumsOf(g, w, S), NEW h, SumsOf(h, w, T)
  PROVE  \A U \in SUBSET T : g[U] = h[U] /\ g[U] \in Int
<1> DEFINE N == {n \in Nat : \A U \in SUBSET T : Cardinality(U) = n => g[U] = h[U] /\ g[U] \in Int}
<1>0. g[{}] = 0 /\ h[{}] = 0
  BY DEF SumsOf
<1>1. 0 \in N
  <2>1. SUFFICES ASSUME NEW U \in SUBSET T, Cardinality(U) = 0 PROVE U = {}
    BY <1>0
  <2>2. IsFiniteSet(U)
    BY FS_Subset
  <2>3. QED
    BY <2>1, <2>2, FS_EmptySet
<1>2. ASSUME NEW n \in Nat, n \in N
      PROVE  n + 1 \in N
  <2>1. SUFFICES ASSUME NEW U \in SUBSET T, Cardinality(U) = n + 1
                 PROVE  g[U] = h[U] /\ g[U] \in Int
    OBVIOUS
  <2>2. U # {}
    BY <2>1, FS_EmptySet
  <2>3. PICK x \in U : x = CHOOSE y \in U : TRUE
    BY <2>2
  <2>4. U \in SUBSET S /\ g[U] = w[x] + g[U \ {x}] /\ h[U] = w[x] + h[U \ {x}] /\ w[x] \in Int
    BY <2>2, <2>3 DEF SumsOf
  <2>5. U \ {x} \in SUBSET T /\ Cardinality(U \ {x}) = n
    BY <2>1, <2>4, OneLess
  <2>6. g[U \ {x}] = h[U \ {x}] /\ g[U \ {x}] \in Int
    BY <1>2, <2>5
  <2>7. QED
    BY <2>4, <2>6
<1>3. Nat \subseteq N
  <2> HIDE DEF N
  <2>1. QED
    BY <1>1, <1>2, NatSetInduction
<1>4. SUFFICES ASSUME NEW U \in SUBSET T
               PROVE  g[U] = h[U] /\ g[U] \in Int
  OBVIOUS
<1>5. Cardinality(U) \in Nat
  BY FS_Subset, FS_CardinalityType
<1>6. QED
  BY <1>3, <1>5

LEMMA SumOfSubset ==
  ASSUME NEW S, IsFiniteSet(S), NEW w, \A x \in S : w[x] \in Int, NEW g, SumsOf(g, w, S),
         NEW T \in SUBSET S
  PROVE  SumFunctionOnSet(w, T) = g[T] /\ g[T] \in Int
<1>1. IsFiniteSet(T)
  BY FS_Subset
<1>2. PICK h : SumsOf(h, w, T) /\ SumFunctionOnSet(w, T) = h[T]
  BY <1>1, SumIsOfSums
<1>3. g[T] = h[T] /\ g[T] \in Int
  BY <1>2, SumsAgree
<1>4. QED
  BY <1>2, <1>3

\* A sum is what one of the elements has and the sum of the others.
LEMMA SumWithout ==
  ASSUME NEW S, IsFiniteSet(S), NEW w, \A x \in S : w[x] \in Int
  PROVE  /\ SumFunctionOnSet(w, {}) = 0 /\ SumFunctionOnSet(w, S) \in Int
         /\ \A a \in S : SumFunctionOnSet(w, S) = w[a] + SumFunctionOnSet(w, S \ {a})
<1>1. PICK g : SumsOf(g, w, S)
  BY SumsExist
<1>2. \A T \in SUBSET S : SumFunctionOnSet(w, T) = g[T] /\ g[T] \in Int
  BY <1>1, SumOfSubset
<1>3. g[{}] = 0
  BY <1>1 DEF SumsOf
<1> DEFINE N == {n \in Nat : \A T \in SUBSET S : Cardinality(T) = n =>
                               \A a \in T : g[T] = w[a] + g[T \ {a}]}
<1>4. 0 \in N
  <2>1. SUFFICES ASSUME NEW T \in SUBSET S, Cardinality(T) = 0 PROVE T = {}
    OBVIOUS
  <2>2. IsFiniteSet(T)
    BY FS_Subset
  <2>3. QED
    BY <2>1, <2>2, FS_EmptySet
<1>5. ASSUME NEW n \in Nat, n \in N
      PROVE  n + 1 \in N
  <2>1. SUFFICES ASSUME NEW T \in SUBSET S, Cardinality(T) = n + 1, NEW a \in T
                 PROVE  g[T] = w[a] + g[T \ {a}]
    OBVIOUS
  <2>2. PICK c \in T : c = CHOOSE y \in T : TRUE
    OBVIOUS
  <2>3. g[T] = w[c] + g[T \ {c}]
    BY <1>1, <2>2 DEF SumsOf
  <2>4. CASE a = c
    BY <2>3, <2>4
  <2>5. CASE a # c
    <3>1. /\ T \ {c} \in SUBSET S /\ Cardinality(T \ {c}) = n /\ a \in T \ {c}
          /\ T \ {a} \in SUBSET S /\ Cardinality(T \ {a}) = n /\ c \in T \ {a}
      BY <2>1, <2>5, OneLess
    <3>2. g[T \ {c}] = w[a] + g[(T \ {c}) \ {a}] /\ g[T \ {a}] = w[c] + g[(T \ {a}) \ {c}]
      BY <1>5, <3>1
    <3> DEFINE rest == (T \ {c}) \ {a}
    <3>3. (T \ {a}) \ {c} = rest /\ rest \in SUBSET S
      OBVIOUS
    <3>4. w[a] \in Int /\ w[c] \in Int /\ g[rest] \in Int
      BY <1>2, <3>3
    <3>5. g[T \ {c}] = w[a] + g[rest] /\ g[T \ {a}] = w[c] + g[rest]
      BY <3>2, <3>3, Zenon
    <3> HIDE DEF rest
    <3>6. QED
      BY <2>3, <3>4, <3>5
  <2>6. QED
    BY <2>4, <2>5
<1>6. Nat \subseteq N
  <2> HIDE DEF N
  <2>1. QED
    BY <1>4, <1>5, NatSetInduction
<1>7. ASSUME NEW a \in S
      PROVE  SumFunctionOnSet(w, S) = w[a] + SumFunctionOnSet(w, S \ {a})
  <2>1. S \in SUBSET S /\ Cardinality(S) \in N
    BY <1>6, FS_CardinalityType
  <2>2. g[S] = w[a] + g[S \ {a}]
    BY <2>1
  <2>3. QED
    BY <1>2, <2>2
<1>8. QED
  BY <1>2, <1>3, <1>7

\* A sum of natural numbers is one.
LEMMA SumIsNat ==
  ASSUME NEW S, IsFiniteSet(S), NEW w, \A x \in S : w[x] \in Nat
  PROVE  SumFunctionOnSet(w, S) \in Nat
<1> DEFINE N == {n \in Nat : \A T \in SUBSET S : Cardinality(T) = n => SumFunctionOnSet(w, T) \in Nat}
<1>1. ASSUME NEW T \in SUBSET S
      PROVE  /\ IsFiniteSet(T) /\ Cardinality(T) \in Nat /\ SumFunctionOnSet(w, {}) = 0
             /\ \A a \in T : SumFunctionOnSet(w, T) = w[a] + SumFunctionOnSet(w, T \ {a})
  <2>1. IsFiniteSet(T) /\ \A x \in T : w[x] \in Int
    BY FS_Subset
  <2>2. QED
    BY <2>1, SumWithout, FS_CardinalityType
<1>2. 0 \in N
  BY <1>1, FS_EmptySet
<1>3. ASSUME NEW n \in Nat, n \in N
      PROVE  n + 1 \in N
  <2>1. SUFFICES ASSUME NEW T \in SUBSET S, Cardinality(T) = n + 1
                 PROVE  SumFunctionOnSet(w, T) \in Nat
    OBVIOUS
  <2>2. PICK a \in T : w[a] \in Nat
    BY <2>1, FS_EmptySet
  <2>3. T \ {a} \in SUBSET S /\ Cardinality(T \ {a}) = n
    BY <2>1, OneLess
  <2>4. SumFunctionOnSet(w, T \ {a}) \in Nat
    BY <1>3, <2>3
  <2>5. SumFunctionOnSet(w, T) = w[a] + SumFunctionOnSet(w, T \ {a})
    BY <1>1
  <2>6. QED
    BY <2>2, <2>4, <2>5
<1>4. Nat \subseteq N
  <2> HIDE DEF N
  <2>1. QED
    BY <1>2, <1>3, NatSetInduction
<1>5. QED
  BY <1>1, <1>4

\* What is counted in S is counted in T too, and as much: its sum is not greater.
LEMMA SumWithin ==
  ASSUME NEW S, IsFiniteSet(S), NEW v, \A x \in S : v[x] \in Int,
         NEW T, IsFiniteSet(T), NEW w, \A y \in T : w[y] \in Nat,
         NEW h, \A x \in S : h[x] \in T /\ v[x] <= w[h[x]],
         \A x, y \in S : h[x] = h[y] => x = y
  PROVE  SumFunctionOnSet(v, S) <= SumFunctionOnSet(w, T)
<1> DEFINE Bounds(U, V) == (\A x \in U : h[x] \in V) =>
                             SumFunctionOnSet(v, U) <= SumFunctionOnSet(w, V)
           N == {n \in Nat : \A U \in SUBSET S, V \in SUBSET T : Cardinality(U) = n => Bounds(U, V)}
<1>1. ASSUME NEW U \in SUBSET S
      PROVE  /\ IsFiniteSet(U) /\ Cardinality(U) \in Nat
             /\ SumFunctionOnSet(v, {}) = 0 /\ SumFunctionOnSet(v, U) \in Int
             /\ \A a \in U : SumFunctionOnSet(v, U) = v[a] + SumFunctionOnSet(v, U \ {a})
  <2>1. IsFiniteSet(U) /\ \A x \in U : v[x] \in Int
    BY FS_Subset
  <2>2. QED
    BY <2>1, SumWithout, FS_CardinalityType
<1>2. ASSUME NEW V \in SUBSET T
      PROVE  /\ SumFunctionOnSet(w, V) \in Nat
             /\ \A b \in V : SumFunctionOnSet(w, V) = w[b] + SumFunctionOnSet(w, V \ {b})
  <2>1. IsFiniteSet(V) /\ (\A x \in V : w[x] \in Nat) /\ \A x \in V : w[x] \in Int
    BY FS_Subset
  <2>2. SumFunctionOnSet(w, V) \in Nat
    BY <2>1, SumIsNat
  <2>3. \A b \in V : SumFunctionOnSet(w, V) = w[b] + SumFunctionOnSet(w, V \ {b})
    BY <2>1, SumWithout
  <2>4. QED
    BY <2>2, <2>3
<1>3. 0 \in N
  <2>1. SUFFICES ASSUME NEW U \in SUBSET S, NEW V \in SUBSET T, Cardinality(U) = 0
                 PROVE  Bounds(U, V)
    OBVIOUS
  <2>2. U = {}
    BY <1>1, <2>1, FS_EmptySet
  <2>3. QED
    BY <1>1, <1>2, <2>2
<1>4. ASSUME NEW n \in Nat, n \in N
      PROVE  n + 1 \in N
  <2>1. SUFFICES ASSUME NEW U \in SUBSET S, NEW V \in SUBSET T, Cardinality(U) = n + 1,
                        \A x \in U : h[x] \in V
                 PROVE  SumFunctionOnSet(v, U) <= SumFunctionOnSet(w, V)
    OBVIOUS
  <2>2. PICK a \in U : TRUE
    BY <2>1, FS_EmptySet
  <2>3. h[a] \in V /\ v[a] <= w[h[a]] /\ v[a] \in Int /\ w[h[a]] \in Nat
    BY <2>1
  <2>4. U \ {a} \in SUBSET S /\ Cardinality(U \ {a}) = n /\ V \ {h[a]} \in SUBSET T
    BY <2>1, OneLess
  <2>5. \A x \in U \ {a} : h[x] \in V \ {h[a]}
    BY <2>1
  <2>6. SumFunctionOnSet(v, U \ {a}) <= SumFunctionOnSet(w, V \ {h[a]})
    BY <1>4, <2>4, <2>5
  <2>7. /\ SumFunctionOnSet(v, U) = v[a] + SumFunctionOnSet(v, U \ {a})
        /\ SumFunctionOnSet(w, V) = w[h[a]] + SumFunctionOnSet(w, V \ {h[a]})
    BY <1>1, <1>2, <2>3
  <2>8. SumFunctionOnSet(v, U \ {a}) \in Int /\ SumFunctionOnSet(w, V \ {h[a]}) \in Int
    BY <1>1, <1>2, <2>4
  <2>9. QED
    BY <2>3, <2>6, <2>7, <2>8
<1>5. Nat \subseteq N
  <2> HIDE DEF N, Bounds
  <2>1. QED
    BY <1>3, <1>4, NatSetInduction
<1>6. S \in SUBSET S /\ T \in SUBSET T /\ Cardinality(S) \in N
  BY <1>1, <1>5
<1>7. QED
  BY <1>6

\* A function summed over all its domain.
LEMMA SumOfAll ==
  ASSUME NEW S, NEW w, DOMAIN w = S
  PROVE  SumFunction(w) = SumFunctionOnSet(w, S)
BY DEF SumFunction

\* One number.
LEMMA SumOfOne ==
  ASSUME NEW a, NEW w, w[a] \in Int
  PROVE  SumFunctionOnSet(w, {a}) = w[a]
<1>1. IsFiniteSet({a}) /\ {a} \ {a} = {}
  BY FS_Singleton
<1>2. SumFunctionOnSet(w, {a}) = w[a] + SumFunctionOnSet(w, {}) /\ SumFunctionOnSet(w, {}) = 0
  BY <1>1, SumWithout
<1>3. QED
  BY <1>2

\* How many there are in disjoint parts of a finite set is the sum of how many each has.
LEMMA PartsCounted ==
  ASSUME NEW S, IsFiniteSet(S), NEW U, IsFiniteSet(U), NEW p, \A x \in S : p[x] \in SUBSET U,
         \A x, y \in S : x # y => p[x] \cap p[y] = {},
         NEW w, \A x \in S : w[x] = Cardinality(p[x])
  PROVE  SumFunctionOnSet(w, S) = Cardinality(UNION {p[x] : x \in S})
<1> DEFINE all(T) == UNION {p[x] : x \in T}
           N == {n \in Nat : \A T \in SUBSET S : Cardinality(T) = n => SumFunctionOnSet(w, T) = Cardinality(all(T))}
<1>1. \A x \in S : IsFiniteSet(p[x]) /\ w[x] \in Nat
  BY FS_Subset, FS_CardinalityType
<1>2. ASSUME NEW T \in SUBSET S
      PROVE  /\ IsFiniteSet(T) /\ Cardinality(T) \in Nat /\ SumFunctionOnSet(w, {}) = 0
             /\ \A a \in T : SumFunctionOnSet(w, T) = w[a] + SumFunctionOnSet(w, T \ {a})
  <2>1. IsFiniteSet(T) /\ Cardinality(T) \in Nat
    BY FS_Subset, FS_CardinalityType
  <2>2. \A x \in T : w[x] \in Int
    BY <1>1
  <2>3. QED
    BY <2>1, <2>2, SumWithout
<1>3. 0 \in N
  <2>1. ASSUME NEW T \in SUBSET S, Cardinality(T) = 0
        PROVE  SumFunctionOnSet(w, T) = Cardinality(all(T))
    <3>1. T = {}
      BY <1>2, <2>1, FS_EmptySet
    <3>2. all(T) = {}
      BY <3>1
    <3>3. QED
      BY <1>2, <3>1, <3>2, FS_EmptySet
  <2>2. QED
    BY <2>1
<1>4. ASSUME NEW n \in Nat, n \in N
      PROVE  n + 1 \in N
  <2>1. ASSUME NEW T \in SUBSET S, Cardinality(T) = n + 1
        PROVE  SumFunctionOnSet(w, T) = Cardinality(all(T))
    <3>1. PICK a \in T : TRUE
      BY <2>1, FS_EmptySet
    <3> DEFINE R == T \ {a}
    <3>2. R \in SUBSET S /\ Cardinality(R) = n
      <4>1. R \in SUBSET S /\ Cardinality(R) = Cardinality(T) - 1
        BY <3>1, OneLess
      <4>2. QED
        BY <2>1, <4>1
    <3>3. SumFunctionOnSet(w, R) = Cardinality(all(R))
      BY <1>4, <3>2
    <3>4. all(T) = p[a] \cup all(R) /\ p[a] \cap all(R) = {} /\ all(R) \in SUBSET U
      <4>1. \A x \in R : p[x] \cap p[a] = {}
        OBVIOUS
      <4>2. T = R \cup {a}
        BY <3>1
      <4> HIDE DEF R
      <4>3. QED
        BY <3>2, <4>1, <4>2
    <3> HIDE DEF R, all
    <3>5. IsFiniteSet(all(R)) /\ Cardinality(all(R)) \in Nat /\ IsFiniteSet(p[a]) /\ Cardinality(p[a]) \in Nat
      BY <1>1, <3>1, <3>4, FS_Subset, FS_CardinalityType
    <3>6. Cardinality(all(T)) = Cardinality(p[a]) + Cardinality(all(R))
      <4> DEFINE A == p[a]
                 B == all(R)
      <4> HIDE DEF A, B
      <4>1. IsFiniteSet(A) /\ IsFiniteSet(B) /\ Cardinality(A) \in Nat /\ Cardinality(B) \in Nat
            /\ A \cap B = {} /\ all(T) = A \cup B
        BY <3>4, <3>5 DEF A, B
      <4>2. Cardinality(A \cup B) = Cardinality(A) + Cardinality(B) - Cardinality(A \cap B)
        BY <4>1, FS_Union
      <4>3. Cardinality(A \cap B) = 0
        BY <4>1, FS_EmptySet
      <4>4. QED
        BY <4>1, <4>2, <4>3 DEF A, B
    <3>7. SumFunctionOnSet(w, T) = w[a] + SumFunctionOnSet(w, R)
      BY <1>2, <3>1 DEF R
    <3>8. QED
      BY <3>1, <3>3, <3>6, <3>7
  <2>2. QED
    BY <2>1
<1> HIDE DEF N
<1>5. Nat \subseteq N
  BY <1>3, <1>4, NatSetInduction
<1>6. Cardinality(S) \in N /\ S \in SUBSET S
  BY <1>5, FS_CardinalityType
<1>7. QED
  BY <1>6 DEF N
=============================================================================
