-------------------------- MODULE OutputStageProofs --------------------------
(***************************************************************************)
(* The output stage of OutputStage, proved for every scale, frame,         *)
(* brightness and supply: it keeps colours and stays within its supply.    *)
(***************************************************************************)
EXTENDS OutputStage, FiniteSetTheorems, NaturalsInduction, TLAPS

-----------------------------------------------------------------------------
(* Sums.                                                                    *)

First(s) == CHOOSE x \in s : TRUE

\* The sets a sum passes through that have at most k members.
UpTo(D, k) == {s \in SUBSET D : Cardinality(s) <= k}

\* g adds up the prices of each of those sets.
AddsUp(g, p, D, k) ==
  /\ g \in [UpTo(D, k) -> Int]
  /\ \A s \in UpTo(D, k) : g[s] = IF s = {} THEN 0 ELSE p[First(s)] + g[s \ {First(s)}]

\* Taking the first member out of a set.
LEMMA WithoutFirst ==
  ASSUME NEW D, IsFiniteSet(D), NEW s \in SUBSET D, s # {}
  PROVE  /\ First(s) \in s /\ First(s) \in D
         /\ IsFiniteSet(s) /\ Cardinality(s) \in Nat /\ Cardinality(s) # 0
         /\ s \ {First(s)} \in SUBSET D
         /\ Cardinality(s \ {First(s)}) = Cardinality(s) - 1
<1>1. First(s) \in s
  BY DEF First
<1>2. IsFiniteSet(s)
  BY FS_Subset
<1>3. Cardinality(s) \in Nat /\ Cardinality(s) # 0
  BY <1>2, FS_CardinalityType, FS_EmptySet
<1>4. Cardinality(s \ {First(s)}) = Cardinality(s) - 1
  BY <1>1, <1>2, FS_RemoveElement
<1> QED
  BY <1>1, <1>2, <1>3, <1>4

\* A non-empty set of natural numbers has a least member.
LEMMA LeastNumber ==
  ASSUME NEW K \in SUBSET Nat, K # {}
  PROVE  \E n \in K : \A m \in K : n <= m
<1>1. PICK n \in K : \A m \in K : ~(<<m, n>> \in OpToRel(<, Nat))
  BY NatLessThanWellFounded, WFMin
<1>2. \A m \in K : ~(m < n)
  BY <1>1 DEF OpToRel
<1> QED
  BY <1>2

\* A sum can be built up set by set.
LEMMA SumsExist ==
  ASSUME NEW D, IsFiniteSet(D), NEW p \in [D -> Int], NEW k \in Nat
  PROVE  \E g : AddsUp(g, p, D, k)
<1> DEFINE Fails == {n \in Nat : ~(\E g : AddsUp(g, p, D, n))}
<1> SUFFICES ASSUME Fails # {} PROVE FALSE
  OBVIOUS
<1>1. PICK n \in Fails : \A m \in Fails : n <= m
  <2>1. Fails \in SUBSET Nat
    OBVIOUS
  <2> HIDE DEF Fails
  <2> QED
    BY <2>1, LeastNumber
<1>2. \A m \in Nat : m < n => \E g : AddsUp(g, p, D, m)
  BY <1>1
<1>3. n \in Nat /\ ~(\E g : AddsUp(g, p, D, n))
  BY <1>1
<1> HIDE DEF Fails
<1>4. n # 0
  <2> SUFFICES ASSUME n = 0 PROVE FALSE
    OBVIOUS
  <2> DEFINE g == [s \in UpTo(D, 0) |-> 0]
  <2>1. \A s \in UpTo(D, 0) : s = {}
    <3> SUFFICES ASSUME NEW s \in UpTo(D, 0), s # {} PROVE FALSE
      OBVIOUS
    <3>1. s \in SUBSET D /\ Cardinality(s) <= 0
      BY DEF UpTo
    <3>2. Cardinality(s) \in Nat /\ Cardinality(s) # 0
      BY <3>1, WithoutFirst
    <3> QED
      BY <3>1, <3>2
  <2>2. AddsUp(g, p, D, 0)
    BY <2>1 DEF AddsUp
  <2> QED
    BY <1>3, <2>2
<1>5. n - 1 \in Nat /\ n - 1 < n
  BY <1>3, <1>4
<1>6. PICK g : AddsUp(g, p, D, n - 1)
  BY <1>2, <1>5
<1> DEFINE h == [s \in UpTo(D, n) |-> IF s = {} THEN 0 ELSE p[First(s)] + g[s \ {First(s)}]]
<1>7. \A s \in UpTo(D, n) : s # {} => s \ {First(s)} \in UpTo(D, n - 1) /\ First(s) \in D
  <2> SUFFICES ASSUME NEW s \in UpTo(D, n), s # {}
               PROVE  s \ {First(s)} \in UpTo(D, n - 1) /\ First(s) \in D
    OBVIOUS
  <2>1. s \in SUBSET D /\ Cardinality(s) <= n
    BY DEF UpTo
  <2>2. s \ {First(s)} \in SUBSET D /\ First(s) \in D
    BY <2>1, WithoutFirst
  <2>3. Cardinality(s) \in Nat /\ Cardinality(s \ {First(s)}) = Cardinality(s) - 1
    BY <2>1, WithoutFirst
  <2>4. Cardinality(s \ {First(s)}) <= n - 1
    BY <1>3, <2>1, <2>3
  <2> QED
    BY <2>2, <2>4 DEF UpTo
<1>8. \A s \in UpTo(D, n - 1) : s \in UpTo(D, n)
  <2> SUFFICES ASSUME NEW s \in UpTo(D, n - 1) PROVE s \in UpTo(D, n)
    OBVIOUS
  <2>1. s \in SUBSET D /\ Cardinality(s) <= n - 1
    BY DEF UpTo
  <2>2. Cardinality(s) \in Nat
    BY <2>1, FS_Subset, FS_CardinalityType
  <2>3. Cardinality(s) <= n
    BY <1>3, <2>1, <2>2
  <2> QED
    BY <2>1, <2>3 DEF UpTo
<1>9. \A s \in UpTo(D, n - 1) : h[s] = g[s]
  BY <1>6, <1>8 DEF AddsUp
<1>10. \A s \in UpTo(D, n) : h[s] = IF s = {} THEN 0 ELSE p[First(s)] + h[s \ {First(s)}]
  <2>1. \A s \in UpTo(D, n) : h[s] = IF s = {} THEN 0 ELSE p[First(s)] + g[s \ {First(s)}]
    OBVIOUS
  <2> HIDE DEF h
  <2> QED
    BY <1>7, <1>9, <2>1
<1>11. h \in [UpTo(D, n) -> Int]
  <2>1. \A s \in UpTo(D, n) : s # {} => p[First(s)] \in Int /\ g[s \ {First(s)}] \in Int
    BY <1>6, <1>7 DEF AddsUp
  <2>2. ASSUME NEW s \in UpTo(D, n)
        PROVE  (IF s = {} THEN 0 ELSE p[First(s)] + g[s \ {First(s)}]) \in Int
    <3>1. CASE s = {}
      BY <3>1
    <3>2. CASE s # {}
      <4>1. PICK x \in Int, y \in Int : x = p[First(s)] /\ y = g[s \ {First(s)}]
        BY <2>1, <3>2
      <4>2. x + y \in Int
        OBVIOUS
      <4> QED
        BY <3>2, <4>1, <4>2
    <3> QED
      BY <3>1, <3>2
  <2> QED
    BY <2>2
<1>12. AddsUp(h, p, D, n)
  <2> HIDE DEF h
  <2> QED
    BY <1>10, <1>11 DEF AddsUp
<1> QED
  BY <1>3, <1>12

\* g is the running sum of p over the subsets of D.
Runs(g, p, D) ==
  /\ g \in [SUBSET D -> Int]
  /\ \A s \in SUBSET D : g[s] = IF s = {} THEN 0 ELSE p[First(s)] + g[s \ {First(s)}]

\* There is one running sum, and SumOf is its last value.
LEMMA SumRuns ==
  ASSUME NEW D, IsFiniteSet(D), NEW p \in [D -> Int]
  PROVE  \E g : Runs(g, p, D) /\ SumOf(p) = g[D]
<1>1. PICK k \in Nat : k = Cardinality(D)
  BY FS_CardinalityType
<1>2. PICK g : AddsUp(g, p, D, k)
  BY SumsExist
<1>3. UpTo(D, k) = SUBSET D
  <2>1. \A s \in SUBSET D : Cardinality(s) <= k
    BY <1>1, FS_Subset
  <2> QED
    BY <2>1 DEF UpTo
<1>4. Runs(g, p, D)
  BY <1>2, <1>3 DEF AddsUp, Runs
<1> DEFINE Step(f) == [s \in SUBSET D |-> IF s = {} THEN 0 ELSE p[First(s)] + f[s \ {First(s)}]]
           it == CHOOSE f : f = Step(f)
<1>5. SumOf(p) = it[D]
  BY DEF SumOf, MapThenSumSet, MapThenFoldSet, First
<1>6. g = Step(g)
  BY <1>4 DEF Runs
<1>7. it = Step(it)
  BY <1>6
<1>8. \A s \in SUBSET D : it[s] = IF s = {} THEN 0 ELSE p[First(s)] + it[s \ {First(s)}]
  <2> HIDE DEF it
  <2> QED
    BY <1>7
<1> HIDE DEF it
<1> DEFINE Differs == {n \in Nat : \E s \in SUBSET D : Cardinality(s) = n /\ it[s] # g[s]}
<1>9. ASSUME Differs # {} PROVE FALSE
  <2>1. PICK n \in Differs : \A m \in Differs : n <= m
    <3>1. Differs \in SUBSET Nat
      OBVIOUS
    <3> HIDE DEF Differs
    <3> QED
      BY <1>9, <3>1, LeastNumber
  <2>2. PICK s \in SUBSET D : Cardinality(s) = n /\ it[s] # g[s]
    BY <2>1
  <2>3. \A t \in SUBSET D : (Cardinality(t) \in Nat /\ Cardinality(t) < n) => it[t] = g[t]
    BY <2>1
  <2> HIDE DEF Differs
  <2>4. s # {}
    BY <1>4, <1>8, <2>2 DEF Runs
  <2> DEFINE t == s \ {First(s)}
  <2>5. t \in SUBSET D /\ Cardinality(s) \in Nat /\ Cardinality(s) # 0
          /\ Cardinality(t) = Cardinality(s) - 1
    BY <2>4, WithoutFirst
  <2> HIDE DEF t
  <2>6. Cardinality(t) \in Nat /\ Cardinality(t) < n
    BY <2>2, <2>5
  <2>7. it[t] = g[t]
    BY <2>3, <2>5, <2>6
  <2>8. it[s] = p[First(s)] + it[t] /\ g[s] = p[First(s)] + g[t]
    BY <1>4, <1>8, <2>4 DEF Runs, t
  <2> QED
    BY <2>2, <2>7, <2>8
<1>10. it[D] = g[D]
  <2>1. D \in SUBSET D /\ Cardinality(D) \in Nat
    BY <1>1
  <2> QED
    BY <1>9, <2>1
<1> QED
  BY <1>4, <1>5, <1>10

\* A sum of integers is one.
LEMMA SumType ==
  ASSUME NEW D, IsFiniteSet(D), NEW p \in [D -> Int]
  PROVE  SumOf(p) \in Int
<1>1. PICK g : Runs(g, p, D) /\ SumOf(p) = g[D]
  BY SumRuns
<1> QED
  BY <1>1 DEF Runs

\* A running sum takes its members in any order.
LEMMA SumTakes ==
  ASSUME NEW D, IsFiniteSet(D), NEW p \in [D -> Int], NEW g, Runs(g, p, D)
  PROVE  \A s \in SUBSET D : \A x \in s : g[s] = p[x] + g[s \ {x}]
<1> DEFINE Holds(s) == \A x \in s : g[s] = p[x] + g[s \ {x}]
           Fails == {n \in Nat : \E s \in SUBSET D : Cardinality(s) = n /\ ~Holds(s)}
<1>1. ASSUME Fails # {} PROVE FALSE
  <2>1. PICK n \in Fails : \A m \in Fails : n <= m
    <3>1. Fails \in SUBSET Nat
      OBVIOUS
    <3> HIDE DEF Fails
    <3> QED
      BY <1>1, <3>1, LeastNumber
  <2> HIDE DEF Holds
  <2>2. PICK s \in SUBSET D : Cardinality(s) = n /\ ~Holds(s)
    BY <2>1
  <2>3. PICK x \in s : g[s] # p[x] + g[s \ {x}]
    BY <2>2 DEF Holds
  <2>4. \A t \in SUBSET D : (Cardinality(t) \in Nat /\ Cardinality(t) < n) => Holds(t)
    BY <2>1
  <2> HIDE DEF Fails
  <2>5. PICK y : y = First(s)
    OBVIOUS
  <2>6. s # {} /\ y \in s /\ x \in D /\ y \in D
    BY <2>3, <2>5, WithoutFirst
  <2>7. g[s] = p[y] + g[s \ {y}]
    BY <2>5, <2>6 DEF Runs
  <2>8. x # y
    BY <2>3, <2>7
  <2> DEFINE t == s \ {x}
             u == s \ {y}
             v == s \ {x, y}
  <2>9. t \in SUBSET D /\ u \in SUBSET D /\ v \in SUBSET D /\ y \in t /\ x \in u
        /\ t \ {y} = v /\ u \ {x} = v
    BY <2>3, <2>6, <2>8
  <2>10. Cardinality(t) \in Nat /\ Cardinality(t) < n /\ Cardinality(u) \in Nat /\ Cardinality(u) < n
    <3>1. IsFiniteSet(s)
      BY FS_Subset
    <3>2. Cardinality(s) \in Nat
      BY <3>1, FS_CardinalityType
    <3>3. Cardinality(s \ {x}) = Cardinality(s) - 1 /\ Cardinality(s \ {y}) = Cardinality(s) - 1
      BY <2>3, <2>6, <3>1, FS_RemoveElement
    <3>4. IsFiniteSet(t) /\ IsFiniteSet(u)
      BY <2>9, FS_Subset
    <3>5. Cardinality(t) \in Nat /\ Cardinality(u) \in Nat
      BY <3>4, FS_CardinalityType
    <3> QED
      BY <2>2, <3>2, <3>3, <3>5
  <2> HIDE DEF t, u, v
  <2>11. Holds(t) /\ Holds(u)
    BY <2>4, <2>9, <2>10
  <2>12. g[t] = p[y] + g[v] /\ g[u] = p[x] + g[v]
    BY <2>9, <2>11 DEF Holds
  <2>13. PICK a \in Int, b \in Int, c \in Int : a = p[x] /\ b = p[y] /\ c = g[v]
    BY <2>6, <2>9 DEF Runs
  <2>14. g[s] = b + (a + c) /\ g[t] = b + c
    BY <2>7, <2>12, <2>13 DEF u
  <2>15. g[s] = a + g[t]
    BY <2>14
  <2> QED
    BY <2>3, <2>13, <2>15 DEF t
<1>2. ASSUME NEW s \in SUBSET D
      PROVE  Holds(s)
  <2>1. IsFiniteSet(s)
    BY FS_Subset
  <2>2. Cardinality(s) \in Nat
    BY <2>1, FS_CardinalityType
  <2> HIDE DEF Holds
  <2> QED
    BY <1>1, <2>2
<1> QED
  BY <1>2

\* A sum over renamed places is the same sum.
LEMMA SumRenamed ==
  ASSUME NEW D, IsFiniteSet(D), NEW E, IsFiniteSet(E), NEW p \in [D -> Int], NEW q \in [E -> Int],
         NEW f \in [D -> E], \A i \in D : p[i] = q[f[i]],
         \A i, j \in D : f[i] = f[j] => i = j, \A k \in E : \E i \in D : f[i] = k
  PROVE  SumOf(p) = SumOf(q)
<1>1. PICK g : Runs(g, p, D) /\ SumOf(p) = g[D]
  BY SumRuns
<1>2. PICK h : Runs(h, q, E) /\ SumOf(q) = h[E]
  BY SumRuns
<1> DEFINE Image(s) == {f[i] : i \in s}
           Fails == {n \in Nat : \E s \in SUBSET D : Cardinality(s) = n /\ g[s] # h[Image(s)]}
<1>3. ASSUME Fails # {} PROVE FALSE
  <2>1. PICK n \in Fails : \A m \in Fails : n <= m
    <3>1. Fails \in SUBSET Nat
      OBVIOUS
    <3> HIDE DEF Fails
    <3> QED
      BY <1>3, <3>1, LeastNumber
  <2> HIDE DEF Image
  <2>2. PICK s \in SUBSET D : Cardinality(s) = n /\ g[s] # h[Image(s)]
    BY <2>1
  <2>3. \A t \in SUBSET D : (Cardinality(t) \in Nat /\ Cardinality(t) < n) => g[t] = h[Image(t)]
    BY <2>1
  <2> HIDE DEF Fails
  <2>4. s # {}
    <3>1. ASSUME s = {}
          PROVE  g[s] = h[Image(s)]
      <4>1. Image(s) = {}
        BY <3>1 DEF Image
      <4>2. g[s] = 0 /\ h[{}] = 0
        BY <1>1, <1>2, <3>1 DEF Runs
      <4> QED
        BY <4>1, <4>2
    <3> QED
      BY <2>2, <3>1
  <2>5. PICK x : x = First(s) /\ x \in s /\ x \in D
    BY <2>4, WithoutFirst
  <2> DEFINE t == s \ {x}
  <2>6. t \in SUBSET D /\ Cardinality(t) \in Nat /\ Cardinality(t) < n
    <3>1. Cardinality(s) \in Nat /\ Cardinality(s) # 0 /\ Cardinality(t) = Cardinality(s) - 1
      BY <2>4, <2>5, WithoutFirst
    <3> QED
      BY <2>2, <3>1
  <2>7. g[t] = h[Image(t)]
    BY <2>3, <2>6
  <2>8. g[s] = p[x] + g[t]
    BY <1>1, <2>4, <2>5 DEF Runs
  <2>9. Image(s) \in SUBSET E /\ f[x] \in Image(s) /\ Image(t) = Image(s) \ {f[x]}
    BY <2>5 DEF Image
  <2> HIDE DEF t
  <2>10. h[Image(s)] = q[f[x]] + h[Image(s) \ {f[x]}]
    BY <1>2, <2>9, SumTakes
  <2>11. p[x] = q[f[x]]
    BY <2>5
  <2> QED
    BY <2>2, <2>7, <2>8, <2>9, <2>10, <2>11
<1>4. g[D] = h[Image(D)]
  <2>1. D \in SUBSET D /\ Cardinality(D) \in Nat
    BY FS_CardinalityType
  <2> QED
    BY <1>3, <2>1
<1>5. Image(D) = E
  OBVIOUS
<1> QED
  BY <1>1, <1>2, <1>4, <1>5

\* A bound for each price is one for the sum.
LEMMA SumBound ==
  ASSUME NEW D, IsFiniteSet(D), NEW p \in [D -> Int], NEW q \in [D -> Int],
         NEW a \in Int, NEW b \in Int, NEW c \in Int,
         \A i \in D : a * p[i] <= (b * q[i]) + c
  PROVE  a * SumOf(p) <= (b * SumOf(q)) + (c * Cardinality(D))
<1>1. PICK g : Runs(g, p, D) /\ SumOf(p) = g[D]
  BY SumRuns
<1>2. PICK h : Runs(h, q, D) /\ SumOf(q) = h[D]
  BY SumRuns
<1> DEFINE Holds(s) == a * g[s] <= (b * h[s]) + (c * Cardinality(s))
           Fails == {n \in Nat : \E s \in SUBSET D : Cardinality(s) = n /\ ~Holds(s)}
<1>3. ASSUME Fails # {} PROVE FALSE
  <2>1. PICK n \in Fails : \A m \in Fails : n <= m
    <3>1. Fails \in SUBSET Nat
      OBVIOUS
    <3> HIDE DEF Fails
    <3> QED
      BY <1>3, <3>1, LeastNumber
  <2> HIDE DEF Holds
  <2>2. PICK s \in SUBSET D : Cardinality(s) = n /\ ~Holds(s)
    BY <2>1
  <2>3. \A t \in SUBSET D : (Cardinality(t) \in Nat /\ Cardinality(t) < n) => Holds(t)
    BY <2>1
  <2> HIDE DEF Fails
  <2>4. ASSUME s = {} PROVE FALSE
    <3>1. g[{}] = 0 /\ h[{}] = 0
      BY <1>1, <1>2 DEF Runs
    <3>2. Cardinality({}) = 0
      BY FS_EmptySet
    <3>3. a * 0 <= (b * 0) + (c * 0)
      OBVIOUS
    <3>4. Holds({})
      BY <3>1, <3>2, <3>3 DEF Holds
    <3> QED
      BY <2>2, <2>4, <3>4
  <2> DEFINE t == s \ {First(s)}
  <2>5. t \in SUBSET D /\ Cardinality(s) \in Nat /\ Cardinality(s) # 0 /\ First(s) \in D
          /\ Cardinality(t) = Cardinality(s) - 1
    BY <2>4, WithoutFirst
  <2>6. g[s] = p[First(s)] + g[t] /\ h[s] = q[First(s)] + h[t]
    BY <1>1, <1>2, <2>4 DEF Runs
  <2>7. g[t] \in Int /\ h[t] \in Int
    BY <1>1, <1>2, <2>5 DEF Runs
  <2> HIDE DEF t
  <2>8. Cardinality(t) \in Nat /\ Cardinality(t) < n
    <3>1. PICK m \in Nat : m = Cardinality(s) /\ m # 0
      BY <2>5
    <3>2. m - 1 \in Nat /\ m - 1 < m
      <4>1. m # 0
        BY <3>1
      <4> QED
        BY <4>1
    <3>3. Cardinality(t) = m - 1 /\ n = m
      BY <2>2, <2>5, <3>1
    <3> QED
      BY <3>2, <3>3
  <2>9. Holds(t)
    BY <2>3, <2>5, <2>8
  <2>10. PICK x \in Int, y \in Int, u \in Int, v \in Int, k \in Int :
           x = p[First(s)] /\ y = q[First(s)] /\ u = g[t] /\ v = h[t] /\ k = Cardinality(t)
    <3>1. p[First(s)] \in Int /\ q[First(s)] \in Int
      BY <2>5
    <3>2. Cardinality(t) \in Int
      BY <2>8
    <3> QED
      BY <2>7, <3>1, <3>2
  <2>11. a * x <= (b * y) + c
    BY <2>5, <2>10
  <2>12. a * u <= (b * v) + (c * k)
    BY <2>9, <2>10 DEF Holds
  <2>13. a * (x + u) <= (b * (y + v)) + (c * (k + 1))
    BY <2>11, <2>12
  <2>14. Cardinality(s) = k + 1
    BY <2>5, <2>10
  <2>15. Holds(s)
    BY <2>6, <2>10, <2>13, <2>14 DEF Holds
  <2> QED
    BY <2>2, <2>15
<1>4. D \in SUBSET D /\ Cardinality(D) \in Nat
  BY FS_CardinalityType
<1>5. Holds(D)
  <2> HIDE DEF Holds
  <2> QED
    BY <1>3, <1>4
<1> QED
  BY <1>1, <1>2, <1>5

-----------------------------------------------------------------------------
(* Products, quotients and bounds.                                          *)

\* An inequality may be multiplied, and what it was multiplied by cancelled.
LEMMA Times ==
  ASSUME NEW a \in Int, NEW b \in Int, NEW k \in Nat
  PROVE  /\ a <= b => a * k <= b * k
         /\ (k # 0 /\ a * k <= b * k) => a <= b
<1>1. ASSUME NEW x \in Int, NEW y \in Int, NEW n \in Nat, x <= y PROVE x * n <= y * n
  <2>1. PICK d \in Nat : y = x + d
    <3>1. y - x \in Nat /\ y = x + (y - x)
      BY <1>1
    <3> QED
      BY <3>1
  <2>2. y * n = (x * n) + (d * n) /\ d * n \in Nat /\ x * n \in Int
    BY <2>1
  <2>3. PICK u \in Int, v \in Nat : u = x * n /\ v = d * n
    BY <2>2
  <2> QED
    BY <2>2, <2>3
<1>2. ASSUME k # 0, a * k <= b * k, b < a PROVE FALSE
  <2>1. b + 1 <= a
    BY <1>2
  <2>2. (b + 1) * k <= a * k
    BY <1>1, <2>1
  <2>3. (b + 1) * k = (b * k) + k
    OBVIOUS
  <2>4. PICK x \in Int, y \in Int : x = a * k /\ y = b * k
    OBVIOUS
  <2>5. y + k <= x /\ x <= y /\ k # 0
    BY <1>2, <2>2, <2>3, <2>4
  <2> QED
    BY <2>5
<1> QED
  BY <1>1, <1>2

\* A quotient is the largest number whose product stays below.
LEMMA Quotients ==
  ASSUME NEW n \in Int, NEW d \in Nat \ {0}
  PROVE  /\ n \div d \in Int
         /\ (n \div d) * d <= n /\ n <= ((n \div d) * d) + d - 1
         /\ n >= 0 => n \div d \in Nat
<1>1. n = (d * (n \div d)) + (n % d) /\ n % d \in 0..(d - 1) /\ n \div d \in Int
  OBVIOUS
<1>2. PICK q \in Int, r \in 0..(d - 1) : q = n \div d /\ r = n % d
  BY <1>1
<1>3. n = (d * q) + r
  BY <1>1, <1>2
<1>4. q * d = d * q
  OBVIOUS
<1>5. q * d <= n /\ n <= (q * d) + d - 1
  BY <1>3, <1>4
<1>6. ASSUME n >= 0, q < 0 PROVE FALSE
  <2>1. q <= -1 /\ d \in Nat
    BY <1>6
  <2>2. q * d <= (-1) * d
    BY <2>1, Times
  <2>3. (-1) * d = -d
    OBVIOUS
  <2>4. PICK x \in Int : x = q * d
    OBVIOUS
  <2>5. x <= -d /\ n <= x + d - 1
    BY <1>5, <2>2, <2>3, <2>4
  <2> QED
    BY <1>6, <2>5
<1>7. n >= 0 => q \in Nat
  BY <1>6
<1> QED
  BY <1>2, <1>5, <1>7

\* The larger and the smaller of two numbers.
LEMMA MaxMin ==
  ASSUME NEW a \in Int, NEW b \in Int
  PROVE  /\ Max({a, b}) = IF a >= b THEN a ELSE b
         /\ Min({a, b}) = IF a <= b THEN a ELSE b
<1>1. Max({a, b}) \in {a, b} /\ Max({a, b}) >= a /\ Max({a, b}) >= b
  <2>1. \E x \in {a, b} : \A y \in {a, b} : x >= y
    OBVIOUS
  <2> QED
    BY <2>1 DEF Max
<1>2. Min({a, b}) \in {a, b} /\ Min({a, b}) <= a /\ Min({a, b}) <= b
  <2>1. \E x \in {a, b} : \A y \in {a, b} : x <= y
    OBVIOUS
  <2> QED
    BY <2>1 DEF Min
<1> QED
  BY <1>1, <1>2

\* A value is clamped to the range and, within it, left alone.
LEMMA ClampedValue ==
  ASSUME NEW v \in Int, NEW top \in Nat
  PROVE  /\ Clamped(v, top) = IF v < 0 THEN 0 ELSE IF v > top THEN top ELSE v
         /\ Clamped(v, top) \in 0..top
<1>1. Max({v, 0}) = IF v >= 0 THEN v ELSE 0
  BY MaxMin
<1>2. PICK m \in Nat : m = Max({v, 0})
  BY <1>1
<1>3. Min({m, top}) = IF m <= top THEN m ELSE top
  BY MaxMin
<1>4. Clamped(v, top) = Min({m, top})
  BY <1>2 DEF Clamped
<1>5. m = IF v >= 0 THEN v ELSE 0
  BY <1>1, <1>2
<1> QED
  BY <1>3, <1>4, <1>5

\* One channel's roundings: how far down each value may lie from what it is the
\* rounding of, and how far up.
RoundedDown(o, u, h, a, w, f, ch, s, y, p, x, c, d) ==
  /\ 2 * h = o /\ a <= o
  /\ w * f <= (s * o) + o - 1 /\ y * o <= a * w /\ p * o <= y * ch
  /\ a * s <= (x * o) + o - 1 /\ (x * u) + h <= (c * o) + o - 1 /\ c * ch <= (d * u) + u - 1

RoundedUp(o, u, h, a, w, f, ch, s, y, p, x, c, d) ==
  /\ 2 * h = o
  /\ s * o <= w * f /\ a * w <= (y * o) + o - 1 /\ y * ch <= (p * o) + o - 1
  /\ x * o <= a * s /\ c * o <= (x * u) + h /\ d * u <= c * ch

\* What one channel draws is at most its price before derating, derated, and what
\* the roundings of it can add.  s is the scale of the derated frame; y and p are
\* the light and the price of the channel before, x, c and d the light, the code
\* and the draw after.
LEMMA DrawBelowPrice ==
  ASSUME NEW o \in Nat \ {0}, NEW u \in Nat \ {0}, NEW h \in Nat,
         NEW a \in Nat, NEW w \in Nat, NEW f \in Nat, NEW ch \in Nat,
         NEW s \in Nat, NEW y \in Nat, NEW p \in Nat, NEW x \in Nat, NEW c \in Nat, NEW d \in Nat,
         RoundedUp(o, u, h, a, w, f, ch, s, y, p, x, c, d)
  PROVE  (2 * u * o * o) * d <= ((2 * u * f) * o) * p + ((2 * u) * (((o - 1) + ch) * f)) + (ch * o * o)
<1> USE DEF RoundedUp
<1>1. x * o <= (y + 1) * f
  <2>1. (x * o) * o <= (a * s) * o
    BY Times
  <2>2. (s * o) * a <= (w * f) * a
    BY Times
  <2>3. (a * w) * f <= ((y * o) + o - 1) * f
    BY Times
  <2>4. (x * o) * o <= ((y + 1) * f) * o
    <3>1. (a * s) * o = (s * o) * a /\ (w * f) * a = (a * w) * f
      OBVIOUS
    <3>2. ((y * o) + o - 1) * f = (((y + 1) * f) * o) - f
      OBVIOUS
    <3>3. PICK A \in Int, B \in Int, C \in Int, E \in Int :
            A = (x * o) * o /\ B = (a * s) * o /\ C = (a * w) * f /\ E = ((y + 1) * f) * o
      OBVIOUS
    <3>4. A <= B /\ B <= C /\ C <= E - f
      BY <2>1, <2>2, <2>3, <3>1, <3>2, <3>3
    <3> QED
      BY <3>3, <3>4
  <2>5. x * o \in Int /\ (y + 1) * f \in Int /\ o # 0
    OBVIOUS
  <2> QED
    BY <2>4, <2>5, Times
<1>2. (x * o) * ch <= ((p * o) + ((o - 1) + ch)) * f
  <2>1. (x * o) * ch <= ((y + 1) * f) * ch
    BY <1>1, Times
  <2>2. ((y + 1) * f) * ch = ((y * ch) + ch) * f
    OBVIOUS
  <2>3. (y * ch) + ch <= (p * o) + ((o - 1) + ch)
    OBVIOUS
  <2>4. ((y * ch) + ch) * f <= ((p * o) + ((o - 1) + ch)) * f
    BY <2>3, Times
  <2>5. PICK A \in Int, B \in Int, C \in Int :
          A = (x * o) * ch /\ B = ((y * ch) + ch) * f /\ C = ((p * o) + ((o - 1) + ch)) * f
    OBVIOUS
  <2> QED
    BY <2>1, <2>2, <2>4, <2>5
<1>3. (2 * u * o) * d <= (2 * u) * (x * ch) + (ch * o)
  <2>1. (d * u) * (2 * o) <= (c * ch) * (2 * o)
    BY Times
  <2>2. (c * o) * (2 * ch) <= ((x * u) + h) * (2 * ch)
    BY Times
  <2>3. (c * ch) * (2 * o) = (c * o) * (2 * ch) /\ (d * u) * (2 * o) = (2 * u * o) * d
    OBVIOUS
  <2>4. ((x * u) + h) * (2 * ch) = (2 * u) * (x * ch) + ((2 * h) * ch)
    OBVIOUS
  <2>5. (2 * h) * ch = ch * o
    OBVIOUS
  <2>6. PICK A \in Int, B \in Int, C \in Int :
          A = (2 * u * o) * d /\ B = (c * o) * (2 * ch) /\ C = (2 * u) * (x * ch) + (ch * o)
    OBVIOUS
  <2> QED
    BY <2>1, <2>2, <2>3, <2>4, <2>5, <2>6
<1>4. (2 * u * o * o) * d <= (2 * u) * ((x * o) * ch) + (ch * o * o)
  <2>1. ((2 * u * o) * d) * o <= ((2 * u) * (x * ch) + (ch * o)) * o
    BY <1>3, Times
  <2>2. ((2 * u * o) * d) * o = (2 * u * o * o) * d
    OBVIOUS
  <2>3. ((2 * u) * (x * ch) + (ch * o)) * o = (2 * u) * ((x * o) * ch) + (ch * o * o)
    OBVIOUS
  <2> QED
    BY <2>1, <2>2, <2>3
<1>5. (2 * u) * ((x * o) * ch) <= ((2 * u * f) * o) * p + ((2 * u) * (((o - 1) + ch) * f))
  <2>1. ((x * o) * ch) * (2 * u) <= (((p * o) + ((o - 1) + ch)) * f) * (2 * u)
    BY <1>2, Times
  <2>2. ((x * o) * ch) * (2 * u) = (2 * u) * ((x * o) * ch)
    OBVIOUS
  <2>3. (((p * o) + ((o - 1) + ch)) * f) * (2 * u)
          = ((2 * u * f) * o) * p + ((2 * u) * (((o - 1) + ch) * f))
    OBVIOUS
  <2> QED
    BY <2>1, <2>2, <2>3
<1>6. PICK A \in Int, B \in Int, C \in Int, E \in Int :
        /\ A = (2 * u * o * o) * d /\ B = (2 * u) * ((x * o) * ch)
        /\ C = ((2 * u * f) * o) * p + ((2 * u) * (((o - 1) + ch) * f)) /\ E = ch * o * o
  OBVIOUS
<1>7. A <= B + E /\ B <= C
  BY <1>4, <1>5, <1>6
<1> QED
  BY <1>6, <1>7

\* What one channel draws is not less than that either, but for the roundings.
LEMMA DrawAbovePrice ==
  ASSUME NEW o \in Nat \ {0}, NEW u \in Nat \ {0}, NEW h \in Nat,
         NEW a \in Nat, NEW w \in Nat, NEW f \in Nat, NEW ch \in Nat,
         NEW s \in Nat, NEW y \in Nat, NEW p \in Nat, NEW x \in Nat, NEW c \in Nat, NEW d \in Nat,
         RoundedDown(o, u, h, a, w, f, ch, s, y, p, x, c, d)
  PROVE  ((2 * u * f) * o) * p
           <= (2 * u * o * o) * d + ((4 * u * ch) * o) + (ch * o * o) + (2 * u * o * o)
<1> USE DEF RoundedDown
<1>1. y * f <= (x * o) + (2 * o)
  <2>1. (a * s) * o <= ((x * o) + o - 1) * o
    BY Times
  <2>2. (w * f) * a <= ((s * o) + o - 1) * a
    BY Times
  <2>3. (y * o) * f <= (a * w) * f
    BY Times
  <2>4. (o - 1) * a <= o * o
    <3>1. (o - 1) * a <= o * a
      BY Times
    <3>2. a * o <= o * o
      BY Times
    <3>3. a * o = o * a
      OBVIOUS
    <3>4. PICK A \in Int, B \in Int, C \in Int : A = (o - 1) * a /\ B = o * a /\ C = o * o
      OBVIOUS
    <3>5. A <= B /\ B <= C
      BY <3>1, <3>2, <3>3, <3>4
    <3> QED
      BY <3>4, <3>5
  <2>5. (y * f) * o <= ((x * o) + (2 * o)) * o
    <3>1. (y * o) * f = (y * f) * o /\ (a * w) * f = (w * f) * a
      OBVIOUS
    <3>2. ((s * o) + o - 1) * a = (a * s) * o + (o - 1) * a
      OBVIOUS
    <3>3. ((x * o) + o - 1) * o = (x * o) * o + (o * o) - o
      OBVIOUS
    <3>4. ((x * o) + (2 * o)) * o = (x * o) * o + 2 * (o * o)
      OBVIOUS
    <3>5. PICK A \in Int, B \in Int, C \in Int, E \in Int, F \in Int, G \in Int :
            /\ A = (y * f) * o /\ B = (w * f) * a /\ C = (a * s) * o
            /\ E = (o - 1) * a /\ F = o * o /\ G = (x * o) * o
      OBVIOUS
    <3>6. A <= B /\ B <= C + E /\ C <= G + F - o /\ E <= F
      BY <2>1, <2>2, <2>3, <2>4, <3>1, <3>2, <3>3, <3>5
    <3>7. A <= G + 2 * F
      BY <3>6
    <3> QED
      BY <3>4, <3>5, <3>7
  <2>6. y * f \in Int /\ (x * o) + (2 * o) \in Int /\ o # 0
    OBVIOUS
  <2> QED
    BY <2>5, <2>6, Times
<1>2. (p * o) * f <= (x * o) * ch + (2 * o) * ch
  <2>1. (p * o) * f <= (y * ch) * f
    BY Times
  <2>2. (y * f) * ch <= ((x * o) + (2 * o)) * ch
    BY <1>1, Times
  <2>3. (y * ch) * f = (y * f) * ch /\ ((x * o) + (2 * o)) * ch = (x * o) * ch + (2 * o) * ch
    OBVIOUS
  <2>4. PICK A \in Int, B \in Int, C \in Int :
          A = (p * o) * f /\ B = (y * f) * ch /\ C = (x * o) * ch + (2 * o) * ch
    OBVIOUS
  <2> QED
    BY <2>1, <2>2, <2>3, <2>4
<1>3. (2 * u) * (x * ch) <= (2 * u * o) * d + (ch * o) + (2 * u * o)
  <2>1. (c * ch) * (2 * o) <= ((d * u) + u - 1) * (2 * o)
    BY Times
  <2>2. ((x * u) + h) * (2 * ch) <= ((c * o) + o - 1) * (2 * ch)
    BY Times
  <2>3. ((d * u) + u - 1) * (2 * o) = (2 * u * o) * d + (2 * u * o) - (2 * o)
    OBVIOUS
  <2>4. ((x * u) + h) * (2 * ch) = (2 * u) * (x * ch) + ((2 * h) * ch)
    OBVIOUS
  <2>5. (2 * h) * ch = ch * o
    OBVIOUS
  <2>6. ((c * o) + o - 1) * (2 * ch) = (c * ch) * (2 * o) + 2 * (ch * o) - (2 * ch)
    OBVIOUS
  <2>7. PICK A \in Int, B \in Int, C \in Int, E \in Int, F \in Int :
          /\ A = (2 * u) * (x * ch) /\ B = (c * ch) * (2 * o) /\ C = ch * o
          /\ E = (2 * u * o) * d /\ F = 2 * u * o
    OBVIOUS
  <2>8. A + C <= B + 2 * C - (2 * ch) /\ B <= E + F - (2 * o)
    BY <2>1, <2>2, <2>3, <2>4, <2>5, <2>6, <2>7
  <2>9. A <= E + C + F
    BY <2>8
  <2> QED
    BY <2>7, <2>9
<1>4. (2 * u) * ((x * o) * ch) <= (2 * u * o * o) * d + (ch * o * o) + (2 * u * o * o)
  <2>1. ((2 * u) * (x * ch)) * o <= ((2 * u * o) * d + (ch * o) + (2 * u * o)) * o
    BY <1>3, Times
  <2>2. ((2 * u) * (x * ch)) * o = (2 * u) * ((x * o) * ch)
    OBVIOUS
  <2>3. ((2 * u * o) * d + (ch * o) + (2 * u * o)) * o
          = (2 * u * o * o) * d + (ch * o * o) + (2 * u * o * o)
    OBVIOUS
  <2> QED
    BY <2>1, <2>2, <2>3
<1>5. ((2 * u * f) * o) * p <= (2 * u) * ((x * o) * ch) + ((4 * u * ch) * o)
  <2>1. ((p * o) * f) * (2 * u) <= ((x * o) * ch + (2 * o) * ch) * (2 * u)
    BY <1>2, Times
  <2>2. ((p * o) * f) * (2 * u) = ((2 * u * f) * o) * p
    OBVIOUS
  <2>3. ((x * o) * ch + (2 * o) * ch) * (2 * u) = (2 * u) * ((x * o) * ch) + ((4 * u * ch) * o)
    OBVIOUS
  <2> QED
    BY <2>1, <2>2, <2>3
<1>6. PICK A \in Int, B \in Int, C \in Int, E \in Int, F \in Int, G \in Int :
        /\ A = ((2 * u * f) * o) * p /\ B = (2 * u) * ((x * o) * ch) /\ C = (4 * u * ch) * o
        /\ E = (2 * u * o * o) * d /\ F = ch * o * o /\ G = 2 * u * o * o
  OBVIOUS
<1>7. A <= B + C /\ B <= E + F + G
  BY <1>4, <1>5, <1>6
<1>8. A <= E + C + F + G
  BY <1>7
<1> QED
  BY <1>6, <1>8

\* The roundings of a whole frame: r is the reserve for its n channels, l the whole
\* parts of a channel's full draw.  If the derated price fits what is left of the
\* budget, so does the draw, but for these.
LEMMA FrameBelowBudget ==
  ASSUME NEW o \in Nat \ {0}, NEW u \in Nat \ {0}, NEW ch \in Nat, NEW f \in Nat, NEW n \in Nat,
         NEW drawn \in Int, NEW price \in Int, NEW left \in Nat, NEW r \in Int, NEW l \in Int,
         (2 * u * o * o) * drawn
           <= ((2 * u * f) * o) * price + ((2 * u) * (((o - 1) + ch) * f) + (ch * o * o)) * n,
         f <= o, f * price <= left * o,
         n * ch <= (r * (2 * u)) + (2 * u) - 1, ch <= (l * o) + o - 1
  PROVE  drawn <= left + r + n * (l + 2)
<1> DEFINE k == 2 * u * o * o
           bound == left + r + n * (l + 2)
<1>1. ((2 * u * f) * o) * price <= left * k
  <2>1. (f * price) * (2 * u * o) <= (left * o) * (2 * u * o)
    BY Times
  <2>2. (f * price) * (2 * u * o) = ((2 * u * f) * o) * price
          /\ (left * o) * (2 * u * o) = left * k
    OBVIOUS
  <2> QED
    BY <2>1, <2>2
<1>2. ((2 * u) * (((o - 1) + ch) * f)) * n <= (n * (l + 2)) * k
  <2>1. f * ((o - 1) + ch) <= o * ((o - 1) + ch)
    <3>1. (o - 1) + ch \in Nat
      OBVIOUS
    <3> QED
      BY <3>1, Times
  <2>2. (f * ((o - 1) + ch)) * (2 * u * n) <= (o * ((o - 1) + ch)) * (2 * u * n)
    BY <2>1, Times
  <2>3. (o - 1) + ch <= (l + 2) * o
    <3>1. (l + 2) * o = (l * o) + 2 * o
      OBVIOUS
    <3> QED
      BY <3>1
  <2>4. ((o - 1) + ch) * (2 * u * n * o) <= ((l + 2) * o) * (2 * u * n * o)
    BY <2>3, Times
  <2>5. /\ (f * ((o - 1) + ch)) * (2 * u * n) = ((2 * u) * (((o - 1) + ch) * f)) * n
        /\ (o * ((o - 1) + ch)) * (2 * u * n) = ((o - 1) + ch) * (2 * u * n * o)
        /\ ((l + 2) * o) * (2 * u * n * o) = (n * (l + 2)) * k
    OBVIOUS
  <2>6. PICK A \in Int, B \in Int, C \in Int :
          /\ A = ((2 * u) * (((o - 1) + ch) * f)) * n /\ B = ((o - 1) + ch) * (2 * u * n * o)
          /\ C = (n * (l + 2)) * k
    OBVIOUS
  <2>7. A <= B /\ B <= C
    BY <2>2, <2>4, <2>5, <2>6
  <2> QED
    BY <2>6, <2>7
<1>3. (ch * o * o) * n <= (r * k) + k - (o * o)
  <2>1. (n * ch) * (o * o) <= ((r * (2 * u)) + (2 * u) - 1) * (o * o)
    BY Times
  <2>2. (n * ch) * (o * o) = (ch * o * o) * n
          /\ ((r * (2 * u)) + (2 * u) - 1) * (o * o) = (r * k) + k - (o * o)
    OBVIOUS
  <2> QED
    BY <2>1, <2>2
<1>4. ((2 * u) * (((o - 1) + ch) * f) + (ch * o * o)) * n
        = ((2 * u) * (((o - 1) + ch) * f)) * n + (ch * o * o) * n
  OBVIOUS
<1>5. drawn * k = (2 * u * o * o) * drawn /\ (bound + 1) * k = (left * k) + (r * k) + (n * (l + 2)) * k + k
  OBVIOUS
<1>6. k \in Nat /\ o * o \in Nat /\ o * o # 0
  OBVIOUS
<1>7. drawn * k < (bound + 1) * k
  <2>1. PICK A \in Int, B \in Int, C \in Int, E \in Int, F \in Int, G \in Int, H \in Int, I \in Int :
          /\ A = ((2 * u * f) * o) * price /\ B = ((2 * u) * (((o - 1) + ch) * f)) * n
          /\ C = (ch * o * o) * n /\ E = left * k /\ F = r * k /\ G = (n * (l + 2)) * k
          /\ H = o * o /\ I = k
    BY <1>6
  <2>2. drawn * k <= A + (B + C)
    BY <1>4, <1>5, <2>1
  <2>3. A <= E /\ B <= G /\ C <= F + I - H /\ H > 0
    BY <1>1, <1>2, <1>3, <1>6, <2>1
  <2>4. (bound + 1) * k = E + F + G + I
    BY <1>5, <2>1
  <2>5. PICK x \in Int, y \in Int : x = drawn * k /\ y = (bound + 1) * k
    OBVIOUS
  <2>6. x <= A + (B + C) /\ y = E + F + G + I
    BY <2>2, <2>4, <2>5
  <2>7. x < y
    BY <2>3, <2>6
  <2> QED
    BY <2>5, <2>7
<1>8. ASSUME bound < drawn PROVE FALSE
  <2>1. bound + 1 <= drawn /\ bound + 1 \in Int
    BY <1>8
  <2> HIDE DEF bound, k
  <2>2. (bound + 1) * k <= drawn * k
    BY <1>6, <2>1, Times
  <2>3. PICK x \in Int, y \in Int : x = drawn * k /\ y = (bound + 1) * k
    BY <1>6, <2>1
  <2>4. x < y /\ y <= x
    BY <1>7, <2>2, <2>3
  <2> QED
    BY <2>4
<1> QED
  BY <1>8

\* If the factor was the largest that fits, the draw is not far below what was left.
LEMMA FrameAboveBudget ==
  ASSUME NEW o \in Nat \ {0}, NEW u \in Nat \ {0}, NEW ch \in Nat, NEW f \in Nat, NEW n \in Nat,
         NEW drawn \in Int, NEW price \in Int, NEW left \in Nat, NEW r \in Int, NEW l \in Int,
         ((2 * u * f) * o) * price
           <= (2 * u * o * o) * drawn + (((4 * u * ch) * o) + (ch * o * o) + (2 * u * o * o)) * n,
         (left * o) + 1 <= (f * price) + price, price <= n * ch,
         n * ch <= (r * (2 * u)) + (2 * u) - 1, ch <= (l * o) + o - 1
  PROVE  left <= drawn + r + 3 * (n * (l + 2))
<1> DEFINE k == 2 * u * o * o
           bound == drawn + r + 3 * (n * (l + 1)) + n
<1>1. left * k <= ((2 * u * f) * o) * price + (n * ch) * (2 * u * o) - (2 * u * o)
  <2>1. ((left * o) + 1) * (2 * u * o) <= ((f * price) + price) * (2 * u * o)
    BY Times
  <2>2. price * (2 * u * o) <= (n * ch) * (2 * u * o)
    BY Times
  <2>3. /\ ((left * o) + 1) * (2 * u * o) = left * k + (2 * u * o)
        /\ ((f * price) + price) * (2 * u * o) = ((2 * u * f) * o) * price + price * (2 * u * o)
    OBVIOUS
  <2>4. PICK A \in Int, B \in Int, C \in Int, E \in Int, F \in Int :
          /\ A = left * k /\ B = 2 * u * o /\ C = ((2 * u * f) * o) * price
          /\ E = price * (2 * u * o) /\ F = (n * ch) * (2 * u * o)
    OBVIOUS
  <2>5. A + B <= C + E /\ E <= F
    BY <2>1, <2>2, <2>3, <2>4
  <2>6. A <= C + F - B
    BY <2>5
  <2> QED
    BY <2>4, <2>6
<1>2. (n * ch) * (6 * u * o) <= (3 * (n * (l + 1))) * k
  <2>1. ch <= (l + 1) * o
    <3>1. (l + 1) * o = (l * o) + o
      OBVIOUS
    <3> QED
      BY <3>1
  <2>2. ch * (6 * u * o * n) <= ((l + 1) * o) * (6 * u * o * n)
    BY <2>1, Times
  <2>3. ch * (6 * u * o * n) = (n * ch) * (6 * u * o)
          /\ ((l + 1) * o) * (6 * u * o * n) = (3 * (n * (l + 1))) * k
    OBVIOUS
  <2> QED
    BY <2>2, <2>3
<1>3. (ch * o * o) * n <= (r * k) + k - (o * o)
  <2>1. (n * ch) * (o * o) <= ((r * (2 * u)) + (2 * u) - 1) * (o * o)
    BY Times
  <2>2. (n * ch) * (o * o) = (ch * o * o) * n
          /\ ((r * (2 * u)) + (2 * u) - 1) * (o * o) = (r * k) + k - (o * o)
    OBVIOUS
  <2> QED
    BY <2>1, <2>2
<1>4. (((4 * u * ch) * o) + (ch * o * o) + (2 * u * o * o)) * n
        = (n * ch) * (4 * u * o) + (ch * o * o) * n + n * k
  OBVIOUS
<1>5. (n * ch) * (4 * u * o) + (n * ch) * (2 * u * o) = (n * ch) * (6 * u * o)
  OBVIOUS
<1>6. (2 * u * o * o) * drawn = drawn * k
        /\ (bound + 1) * k = (drawn * k) + (r * k) + (3 * (n * (l + 1))) * k + n * k + k
  OBVIOUS
<1>7. k \in Nat /\ o * o \in Nat /\ o * o # 0 /\ 2 * u * o \in Nat
  OBVIOUS
<1>8. left * k < (bound + 1) * k
  <2>1. PICK A \in Int, B \in Int, C \in Int, E \in Int, F \in Int, G \in Int, H \in Int, I \in Int,
              J \in Int, K \in Int, M \in Int, N \in Int :
          /\ A = ((2 * u * f) * o) * price /\ B = (n * ch) * (2 * u * o)
          /\ C = (n * ch) * (4 * u * o) /\ E = (n * ch) * (6 * u * o)
          /\ F = (3 * (n * (l + 1))) * k /\ G = (ch * o * o) * n /\ H = r * k /\ I = k
          /\ J = o * o /\ K = drawn * k /\ M = n * k /\ N = 2 * u * o
    BY <1>7
  <2>2. PICK x \in Int, y \in Int : x = left * k /\ y = (bound + 1) * k
    OBVIOUS
  <2>3. x <= A + B - N /\ E <= F /\ G <= H + I - J /\ C + B = E /\ J > 0 /\ N >= 0
    BY <1>1, <1>2, <1>3, <1>5, <1>7, <2>1, <2>2
  <2>4. A <= K + (C + G + M)
    BY <1>4, <1>6, <2>1
  <2>5. y = K + H + F + M + I
    BY <1>6, <2>1, <2>2
  <2>6. x < y
    BY <2>3, <2>4, <2>5
  <2> QED
    BY <2>2, <2>6
<1>9. ASSUME bound < left PROVE FALSE
  <2>1. bound + 1 <= left /\ bound + 1 \in Int
    BY <1>9
  <2> HIDE DEF bound, k
  <2>2. (bound + 1) * k <= left * k
    BY <1>7, <2>1, Times
  <2>3. PICK x \in Int, y \in Int : x = left * k /\ y = (bound + 1) * k
    BY <1>7, <2>1
  <2>4. x < y /\ y <= x
    BY <1>8, <2>2, <2>3
  <2> QED
    BY <2>4
<1>10. left <= bound
  BY <1>9
<1>11. bound <= drawn + r + 3 * (n * (l + 2))
  <2>1. 3 * (n * (l + 2)) = 3 * (n * (l + 1)) + 3 * n
    OBVIOUS
  <2> QED
    BY <2>1
<1>12. PICK x \in Int : x = bound
  OBVIOUS
<1>13. PICK y \in Int : y = drawn + r + 3 * (n * (l + 2))
  OBVIOUS
<1>14. left <= x /\ x <= y
  BY <1>10, <1>11, <1>12, <1>13
<1> QED
  BY <1>13, <1>14

-----------------------------------------------------------------------------
(* Light to code.                                                           *)

\* Numbers less than so many steps apart have quotients that are no further apart.
LEMMA QuotientsNear ==
  ASSUME NEW n \in Int, NEW m \in Int, NEW k \in Int, NEW d \in Nat \ {0}, m <= n + (k * d)
  PROVE  m \div d <= (n \div d) + k
<1>1. PICK q \in Int : q = m \div d /\ q * d <= m
  BY Quotients
<1>2. PICK r \in Int : r = n \div d /\ n <= (r * d) + d - 1
  BY Quotients
<1>3. q * d <= (r * d) + d - 1 + (k * d)
  BY <1>1, <1>2
<1>4. ASSUME r + k < q PROVE FALSE
  <2>1. r + k + 1 <= q
    BY <1>4
  <2>2. (r + k + 1) * d <= q * d
    BY <2>1, Times
  <2>3. (r + k + 1) * d = (r * d) + (k * d) + d
    OBVIOUS
  <2>4. PICK x \in Int, y \in Int, z \in Int : x = q * d /\ y = r * d /\ z = k * d
    OBVIOUS
  <2>5. y + z + d <= x /\ x <= y + d - 1 + z
    BY <1>3, <2>2, <2>3, <2>4
  <2> QED
    BY <2>5
<1>5. q <= r + k
  BY <1>4
<1> QED
  BY <1>1, <1>2, <1>5

\* Dimming light that is within the range leaves it there, keeps the order and
\* does not spread it.
LEMMA Dimmed ==
  ASSUME NEW a \in 0..One, NEW b \in 0..One, NEW s \in 0..One, a <= b
  PROVE  /\ (a * s) \div One \in 0..One
         /\ (a * s) \div One <= (b * s) \div One
         /\ (b * s) \div One <= ((a * s) \div One) + (b - a)
<1>1. One \in Nat \ {0} /\ a \in Nat /\ b \in Nat /\ s \in Nat /\ s <= One /\ a <= One
  BY ScaleAssumption
<1>2. a * s \in Nat /\ b * s \in Nat
  BY <1>1
<1>3. a * s <= b * s
  BY <1>1, Times
<1>4. b * s <= (a * s) + ((b - a) * One)
  <2>1. PICK e \in Nat : e = b - a
    BY <1>1
  <2>2. s * e <= One * e
    BY <1>1, <2>1, Times
  <2>3. b = a + e
    BY <1>1, <2>1
  <2>4. b * s = (a * s) + (s * e)
    BY <1>1, <2>3
  <2>5. PICK x \in Int, y \in Int, z \in Int : x = a * s /\ y = s * e /\ z = One * e
    BY <1>1
  <2>6. x + y <= x + z
    BY <2>2, <2>5
  <2>7. (b - a) * One = One * e
    BY <1>1, <2>1
  <2> QED
    BY <2>4, <2>5, <2>6, <2>7
<1>5. (a * s) \div One <= (b * s) \div One
  <2>1. a * s <= (b * s) + (0 * One)
    BY <1>1, <1>2, <1>3
  <2>2. (a * s) \div One <= ((b * s) \div One) + 0
    BY <1>1, <1>2, <2>1, QuotientsNear
  <2>3. (b * s) \div One \in Int
    BY <1>1, <1>2, Quotients
  <2> QED
    BY <2>2, <2>3
<1>6. (b * s) \div One <= ((a * s) \div One) + (b - a)
  <2>1. PICK n \in Int, m \in Int, k \in Int : n = a * s /\ m = b * s /\ k = b - a
    BY <1>1, <1>2
  <2>2. m <= n + (k * One)
    BY <1>4, <2>1
  <2>3. m \div One <= (n \div One) + k
    BY <1>1, <2>2, QuotientsNear
  <2> QED
    BY <2>1, <2>3
<1>7. (a * s) \div One \in Nat
  BY <1>1, <1>2, Quotients
<1>8. (a * s) \div One <= One
  <2>1. a * s <= One * s
    BY <1>1, Times
  <2>2. s * One <= One * One
    BY <1>1, Times
  <2>3. a * s <= 0 + (One * One)
    <3>1. PICK x \in Int, y \in Int, z \in Int : x = a * s /\ y = One * s /\ z = One * One
      BY <1>1
    <3>2. x <= y /\ y <= z
      BY <1>1, <2>1, <2>2, <3>1
    <3> QED
      BY <3>1, <3>2
  <2>4. (a * s) \div One <= (0 \div One) + One
    BY <1>1, <1>2, <2>3, QuotientsNear
  <2>5. 0 \div One = 0
    BY <1>1
  <2> QED
    BY <1>1, <2>4, <2>5
<1> QED
  BY <1>1, <1>5, <1>6, <1>7, <1>8

\* Light within the range has a code within the range, so that nothing is clamped.
LEMMA Code ==
  ASSUME NEW x \in 0..One, NEW r \in 0..(One - 1)
  PROVE  /\ CodeOf(x, r) = ((x * FullCode) + r) \div One
         /\ CodeOf(x, r) \in 0..FullCode
<1>1. One \in Nat \ {0} /\ FullCode \in Nat \ {0} /\ x \in Nat /\ r \in Nat /\ x <= One /\ r <= One - 1
  BY ScaleAssumption
<1>2. (x * FullCode) + r \in Nat
  BY <1>1
<1>3. PICK n \in Nat : n = (x * FullCode) + r
  BY <1>2
<1>4. n \div One \in Nat
  BY <1>1, <1>3, Quotients
<1>5. n \div One <= FullCode
  <2>1. x * FullCode <= One * FullCode
    BY <1>1, Times
  <2>2. n <= (One - 1) + (FullCode * One)
    <3>1. PICK y \in Int, z \in Int : y = x * FullCode /\ z = One * FullCode
      BY <1>1
    <3>2. n = y + r /\ y <= z /\ FullCode * One = z
      BY <1>1, <1>3, <2>1, <3>1
    <3> QED
      BY <1>1, <3>2
  <2>3. n \div One <= ((One - 1) \div One) + FullCode
    BY <1>1, <2>2, QuotientsNear
  <2>4. (One - 1) \div One = 0
    BY <1>1
  <2> QED
    BY <1>1, <2>3, <2>4
<1>6. Clamped(n \div One, FullCode) = n \div One
  <2>1. PICK q \in Nat : q = n \div One
    BY <1>4
  <2>2. ~(q < 0) /\ ~(q > FullCode)
    BY <1>1, <1>5, <2>1
  <2>3. Clamped(q, FullCode) = q
    BY <1>1, <2>2, ClampedValue
  <2> QED
    BY <2>1, <2>3
<1> QED
  BY <1>1, <1>3, <1>4, <1>5, <1>6 DEF CodeOf

\* Codes keep the order of light, and light less than a code apart stays within a
\* code.
LEMMA CodesNear ==
  ASSUME NEW x \in 0..One, NEW y \in 0..One, NEW r \in 0..(One - 1)
  PROVE  /\ x <= y => CodeOf(x, r) <= CodeOf(y, r)
         /\ (y - x) * FullCode < One => CodeOf(y, r) <= CodeOf(x, r) + 1
<1>1. One \in Nat \ {0} /\ FullCode \in Nat \ {0} /\ x \in Nat /\ y \in Nat /\ r \in Nat
  BY ScaleAssumption
<1>2. PICK n \in Nat, m \in Nat : n = (x * FullCode) + r /\ m = (y * FullCode) + r
  BY <1>1
<1>3. CodeOf(x, r) = n \div One /\ CodeOf(y, r) = m \div One
  BY <1>2, Code
<1>4. n \div One \in Int /\ m \div One \in Int
  BY <1>1, <1>2, Quotients
<1>5. ASSUME x <= y PROVE CodeOf(x, r) <= CodeOf(y, r)
  <2>1. x * FullCode <= y * FullCode
    BY <1>1, <1>5, Times
  <2>2. n <= m + (0 * One)
    <3>1. PICK u \in Int, v \in Int : u = x * FullCode /\ v = y * FullCode
      BY <1>1
    <3>2. n = u + r /\ m = v + r /\ u <= v /\ 0 * One = 0
      BY <1>1, <1>2, <2>1, <3>1
    <3> QED
      BY <1>1, <3>2
  <2>3. n \div One <= (m \div One) + 0
    BY <1>1, <2>2, QuotientsNear
  <2> QED
    BY <1>3, <1>4, <2>3
<1>6. ASSUME (y - x) * FullCode < One PROVE CodeOf(y, r) <= CodeOf(x, r) + 1
  <2>1. m <= n + (1 * One)
    <3>1. (y - x) * FullCode = (y * FullCode) - (x * FullCode)
      BY <1>1
    <3>2. PICK u \in Int, v \in Int : u = x * FullCode /\ v = y * FullCode
      BY <1>1
    <3>3. n = u + r /\ m = v + r /\ v - u < One /\ 1 * One = One
      BY <1>1, <1>2, <1>6, <3>1, <3>2
    <3> QED
      BY <1>1, <3>3
  <2>2. m \div One <= (n \div One) + 1
    BY <1>1, <2>1, QuotientsNear
  <2> QED
    BY <1>3, <2>2
<1> QED
  BY <1>5, <1>6

\* a is dimmed to x and rounded to c, and b to y and e.
RoundedAlike(o, u, h, a, b, s, x, y, c, e) ==
  /\ 2 * h = o
  /\ x * o <= a * s /\ b * s <= (y * o) + o - 1
  /\ c * o <= (x * u) + h /\ (y * u) + h <= (e * o) + o - 1

\* Two channels that are dimmed and rounded alike keep their ratio.
LEMMA RatioBound ==
  ASSUME NEW o \in Nat \ {0}, NEW u \in Nat \ {0}, NEW h \in Nat,
         NEW a \in Nat, NEW b \in Nat, NEW s \in Nat,
         NEW x \in Nat, NEW y \in Nat, NEW c \in Nat, NEW e \in Nat,
         RoundedAlike(o, u, h, a, b, s, x, y, c, e)
  PROVE  2 * o * ((c * b) - (e * a)) <= (a + b) * (o + (2 * u))
<1> USE DEF RoundedAlike
<1>1. (x * b) - (y * a) <= a
  <2>1. (x * o) * b <= (a * s) * b
    BY Times
  <2>2. (b * s) * a <= ((y * o) + o - 1) * a
    BY Times
  <2>3. ((x * b) - (y * a)) * o <= a * o
    <3>1. (a * s) * b = (b * s) * a
      OBVIOUS
    <3>2. ((y * o) + o - 1) * a = (y * a) * o + (a * o) - a
      OBVIOUS
    <3>3. ((x * b) - (y * a)) * o = (x * o) * b - (y * a) * o
      OBVIOUS
    <3>4. PICK A \in Int, B \in Int, C \in Int, E \in Int :
            A = (x * o) * b /\ B = (b * s) * a /\ C = (y * a) * o /\ E = a * o
      OBVIOUS
    <3>5. A <= B /\ B <= C + E - a
      BY <2>1, <2>2, <3>1, <3>2, <3>4
    <3>6. A - C <= E
      BY <3>5
    <3> QED
      BY <3>3, <3>4, <3>6
  <2>4. (x * b) - (y * a) \in Int /\ o # 0
    OBVIOUS
  <2> QED
    BY <2>3, <2>4, Times
<1>2. (c * o) * (2 * b) <= ((x * u) + h) * (2 * b)
  BY Times
<1>3. ((y * u) + h) * (2 * a) <= ((e * o) + o - 1) * (2 * a)
  BY Times
<1>4. ((x * b) - (y * a)) * (2 * u) <= a * (2 * u)
  BY <1>1, Times
<1>5. ((x * u) + h) * (2 * b) = (2 * u) * (x * b) + (2 * h) * b
        /\ ((y * u) + h) * (2 * a) = (2 * u) * (y * a) + (2 * h) * a
  OBVIOUS
<1>6. (2 * h) * b = o * b /\ (2 * h) * a = o * a
  OBVIOUS
<1>7. ((e * o) + o - 1) * (2 * a) = (e * o) * (2 * a) + 2 * (o * a) - 2 * a
  OBVIOUS
<1>8. ((x * b) - (y * a)) * (2 * u) = (2 * u) * (x * b) - (2 * u) * (y * a)
  OBVIOUS
<1>9. 2 * o * ((c * b) - (e * a)) = (c * o) * (2 * b) - (e * o) * (2 * a)
  OBVIOUS
<1>10. (a + b) * (o + (2 * u)) = (o * a) + (o * b) + a * (2 * u) + b * (2 * u)
  OBVIOUS
<1>11. PICK A \in Int, B \in Int, C \in Int, E \in Int, F \in Int, G \in Int, H \in Int, I \in Int :
         /\ A = (c * o) * (2 * b) /\ B = (e * o) * (2 * a) /\ C = (2 * u) * (x * b)
         /\ E = (2 * u) * (y * a) /\ F = o * a /\ G = o * b /\ H = a * (2 * u) /\ I = b * (2 * u)
  OBVIOUS
<1>12. A <= C + G
  BY <1>2, <1>5, <1>6, <1>11
<1>13. E + F <= B + 2 * F - 2 * a
  BY <1>3, <1>5, <1>6, <1>7, <1>11
<1>14. C - E <= H
  BY <1>4, <1>8, <1>11
<1>15. I >= 0
  BY <1>11
<1>16. A - B <= F + G + H + I
  BY <1>12, <1>13, <1>14, <1>15
<1> QED
  BY <1>9, <1>10, <1>11, <1>16

\* The thresholds of the dither, and the rounding without it, are less than a step;
\* the latter is half of one.
LEMMA Roundings ==
  ASSUME NEW d \in BOOLEAN, NEW i \in Nat \ {0}, NEW at \in Nat
  PROVE  /\ Rounding(d, i, at) \in 0..(One - 1)
         /\ ~d => Rounding(d, i, at) = One \div 2
         /\ One \div 2 \in Nat /\ 2 * (One \div 2) = One
<1>1. One \in Nat \ {0} /\ Phases \in Nat \ {0} /\ Period = 16
  BY ScaleAssumption, PeriodAssumption
<1>2. One % 32 = 0
  <2>1. 2 * Period = 32
    BY <1>1
  <2> QED
    BY <2>1, PeriodAssumption
<1>3. PICK t \in Nat \ {0} : t = One \div 32 /\ One = 32 * t
  <2>1. One \div 32 \in Nat /\ One = 32 * (One \div 32) /\ One \div 32 # 0
    BY <1>1, <1>2
  <2> QED
    BY <2>1
<1>4. One \div 2 = 16 * t
  BY <1>3
<1>5. Pixel(i) \in Int
  BY DEF Pixel, CHANNELS
<1>6. ThresholdFor(Pixel(i), at) \in 0..(One - 1)
  <2> DEFINE k == ((at + (Pixel(i) * 7)) % Phases) % Period
  <2>1. k \in 0..15
    <3>1. PICK n \in Int : n = at + (Pixel(i) * 7)
      BY <1>5
    <3>2. PICK m \in Int : m = n % Phases
      BY <1>1
    <3>3. m % 16 \in 0..15
      OBVIOUS
    <3> QED
      BY <1>1, <3>1, <3>2, <3>3
  <2>2. ThresholdFor(Pixel(i), at) = ((Reversed(k) * 2) + 1) * t
    BY <1>1, <1>3 DEF ThresholdFor
  <2> HIDE DEF k
  <2>3. Reversed(k) \in 0..15
    <3>1. \A b \in {1, 2, 4, 8} : Bit(k, b) \in 0..1
      BY <2>1 DEF Bit
    <3>2. PICK p \in 0..1, q \in 0..1, r \in 0..1, s \in 0..1 :
            p = Bit(k, 1) /\ q = Bit(k, 2) /\ r = Bit(k, 4) /\ s = Bit(k, 8)
      BY <3>1
    <3>3. (p * 8) + (q * 4) + (r * 2) + s \in 0..15
      OBVIOUS
    <3> QED
      BY <3>2, <3>3 DEF Reversed
  <2>4. PICK v \in 0..15 : v = Reversed(k)
    BY <2>3
  <2>5. (v * 2) + 1 <= 31 /\ (v * 2) + 1 \in Nat
    OBVIOUS
  <2>6. ((v * 2) + 1) * t <= 31 * t
    BY <2>5, Times
  <2>7. ((v * 2) + 1) * t \in Nat
    BY <2>5
  <2>8. ((v * 2) + 1) * t \in 0..(One - 1)
    <3>1. PICK x \in Nat : x = ((v * 2) + 1) * t
      BY <2>7
    <3>2. x <= 31 * t
      BY <2>6, <3>1
    <3> QED
      BY <1>3, <3>1, <3>2
  <2> QED
    BY <2>2, <2>4, <2>8
<1>7. One \div 2 \in 0..(One - 1)
  BY <1>3, <1>4
<1> QED
  BY <1>3, <1>4, <1>6, <1>7 DEF Rounding

-----------------------------------------------------------------------------
(* A frame.                                                                 *)

\* encode and its parts, for any supply.
DeratedBy(p, frame, scale) == IF p = NoSupply THEN One ELSE FactorFor(frame, scale, p)

ScaleOf(p, frame, level) ==
  (Clamped(level, One) * DeratedBy(p, frame, Clamped(level, One))) \div One

Coded(p, d, frame, level, at) ==
  [i \in DOMAIN frame |->
     CodeOf(Scaled(frame[i], ScaleOf(p, frame, level)), Rounding(d, i, at))]

DrawsOf(written, p) == [i \in DOMAIN written |-> (written[i] * p.channel) \div FullCode]

DrawnBy(p, written) ==
  IF p = NoSupply THEN 0 ELSE SumOf(DrawsOf(written, p)) + IdleDraw(written, p)

PricesOf(frame, scale, p) == [i \in DOMAIN frame |-> (Scaled(frame[i], scale) * p.channel) \div One]

\* Light within the range stays within it.
LEMMA ScaledLight ==
  ASSUME NEW v \in Int, NEW s \in 0..One
  PROVE  Scaled(v, s) \in 0..One
<1>1. Clamped(v, One) \in 0..One
  BY ScaleAssumption, ClampedValue
<1>2. (Clamped(v, One) * s) \div One \in 0..One
  <2>1. PICK a \in 0..One : a = Clamped(v, One)
    BY <1>1
  <2>2. a <= a
    BY ScaleAssumption
  <2>3. (a * s) \div One \in 0..One
    BY <2>2, Dimmed
  <2> QED
    BY <2>1, <2>3
<1> QED
  BY <1>2 DEF Scaled

\* The prices of a frame are natural numbers, and none is above a channel's full draw.
LEMMA Prices ==
  ASSUME NEW frame \in Seq(Int), NEW w \in 0..One, NEW p \in Supplies
  PROVE  /\ IsFiniteSet(DOMAIN frame) /\ Cardinality(DOMAIN frame) = Len(frame)
         /\ Len(frame) \in Nat /\ p.channel \in Nat /\ p.idle \in Nat /\ p.budget \in Nat
         /\ PricesOf(frame, w, p) \in [DOMAIN frame -> Nat]
         /\ ColourDraw(frame, w, p) = SumOf(PricesOf(frame, w, p))
         /\ ColourDraw(frame, w, p) \in Nat
         /\ ColourDraw(frame, w, p) <= Len(frame) * p.channel
<1> DEFINE D == DOMAIN frame
           q == PricesOf(frame, w, p)
<1>1. D = 1..Len(frame) /\ Len(frame) \in Nat
  OBVIOUS
<1>2. IsFiniteSet(D) /\ Cardinality(D) = Len(frame)
  <2>1. PICK n \in Nat : n = Len(frame)
    BY <1>1
  <2>2. IsFiniteSet(1..n) /\ Cardinality(1..n) = n
    BY FS_Interval
  <2> QED
    BY <1>1, <2>1, <2>2
<1>3. p.channel \in Nat /\ p.idle \in Nat /\ p.budget \in Nat
  BY InputsAssumption
<1>4. One \in Nat \ {0}
  BY ScaleAssumption
<1>5. PICK ch \in Nat : ch = p.channel
  BY <1>3
<1>6. ASSUME NEW i \in D
      PROVE  (Scaled(frame[i], w) * ch) \div One \in Nat /\ (Scaled(frame[i], w) * ch) \div One <= ch
  <2>1. frame[i] \in Int
    OBVIOUS
  <2>2. Scaled(frame[i], w) \in 0..One
    BY <2>1, ScaledLight
  <2>3. PICK y \in Nat : y = Scaled(frame[i], w) /\ y <= One
    BY <1>4, <2>2
  <2>4. y * ch <= One * ch
    BY <1>4, <2>3, Times
  <2>5. PICK n \in Nat : n = y * ch
    OBVIOUS
  <2>5a. n \in Int /\ n >= 0 /\ ch \in Int
    OBVIOUS
  <2>6. n \div One \in Nat
    BY <1>4, <2>5a, Quotients
  <2>7. PICK z \in Int : z = 0
    OBVIOUS
  <2>8. n <= z + (ch * One)
    BY <1>4, <2>4, <2>5, <2>7
  <2>9. n \div One <= (z \div One) + ch
    BY <1>4, <2>5a, <2>8, QuotientsNear
  <2>10. z \div One = 0
    BY <1>4, <2>7
  <2> QED
    BY <2>3, <2>5, <2>6, <2>9, <2>10
<1>7. q = [i \in D |-> (Scaled(frame[i], w) * ch) \div One]
  BY <1>5 DEF PricesOf
<1> HIDE DEF D
<1>8. q \in [D -> Nat] /\ \A i \in D : q[i] <= ch
  BY <1>6, <1>7
<1>9. ColourDraw(frame, w, p) = SumOf(q)
  BY DEF ColourDraw, PricesOf
<1> HIDE DEF q
<1>10. q \in [D -> Int] /\ SumOf(q) \in Int
  BY <1>2, <1>8, SumType
<1>11. PICK z \in Int, e \in Int : z = 0 /\ e = 1
  OBVIOUS
<1>12. z * SumOf(q) <= (e * SumOf(q)) + (z * Cardinality(D))
  <2>1. \A i \in D : z * q[i] <= (e * q[i]) + z
    BY <1>8, <1>11
  <2> QED
    BY <1>2, <1>10, <2>1, SumBound
<1>13. e * SumOf(q) <= (z * SumOf(q)) + (ch * Cardinality(D))
  <2>1. \A i \in D : e * q[i] <= (z * q[i]) + ch
    BY <1>8, <1>11
  <2>2. ch \in Int
    OBVIOUS
  <2> QED
    BY <1>2, <1>10, <2>1, <2>2, SumBound
<1>14. SumOf(q) >= 0 /\ SumOf(q) <= Len(frame) * ch
  <2>1. PICK n \in Nat, t \in Int : n = Cardinality(D) /\ t = SumOf(q)
    BY <1>1, <1>2, <1>10
  <2>2. z * t <= (e * t) + (z * n) /\ e * t <= (z * t) + (ch * n)
    BY <1>12, <1>13, <2>1
  <2>3. t >= 0 /\ t <= n * ch
    BY <1>11, <2>2
  <2> QED
    BY <1>2, <2>1, <2>3
<1>15. SumOf(q) \in Nat
  BY <1>10, <1>14
<1> QED
  BY <1>1, <1>2, <1>3, <1>5, <1>8, <1>9, <1>14, <1>15 DEF D, q

\* What is left for colour once the idle draw and the reserve are paid.
LeftFor(budget, idle, r) == NonNegative(NonNegative(budget - idle) - r)

\* The factor, from the figures it depends on.
FactorValue(colour, idle, budget, r) ==
  IF colour + idle <= budget THEN One
  ELSE Min({(LeftFor(budget, idle, r) * One) \div Max({colour, 1}), One})

\* f scales the colour down to what is left of the budget.
Fits(o, f, colour, idle, budget, r) ==
  \E left \in Nat :
    /\ f \in 0..o
    /\ f * colour <= left * o
    /\ f # 0 => left + idle + (IF f = o THEN 0 ELSE r) <= budget
    /\ f \in 1..(o - 1) =>
         left + idle + r = budget /\ (left * o) + 1 <= (f * colour) + colour

\* The factor scales the colour down to what is left, by no more than a step too
\* much, and it is below full scale only where the reserve was paid as well.
LEMMA FactorFits ==
  ASSUME NEW colour \in Nat, NEW idle \in Nat, NEW budget \in Nat, NEW r \in Nat, NEW f,
         f = FactorValue(colour, idle, budget, r)
  PROVE  Fits(One, f, colour, idle, budget, r)
<1> USE DEF FactorValue, Fits
<1>1. One \in Nat \ {0}
  BY ScaleAssumption
<1>2. CASE colour + idle <= budget
  BY <1>1, <1>2
<1>3. CASE ~(colour + idle <= budget)
  <2>1. /\ LeftFor(budget, idle, r) \in Nat
        /\ LeftFor(budget, idle, r) # 0 =>
             LeftFor(budget, idle, r) + idle + r = budget
    <3>1. \A n \in Int : NonNegative(n) = IF n >= 0 THEN n ELSE 0
      BY MaxMin DEF NonNegative
    <3>2. PICK m \in Nat : m = NonNegative(budget - idle) /\ m = IF budget - idle >= 0 THEN budget - idle ELSE 0
      BY <3>1
    <3>3. NonNegative(m - r) = IF m - r >= 0 THEN m - r ELSE 0
      BY <3>1
    <3> QED
      BY <3>2, <3>3 DEF LeftFor
  <2>2. PICK left \in Nat : left = LeftFor(budget, idle, r) /\ (left # 0 => left + idle + r = budget)
    BY <2>1
  <2>3. PICK k \in Nat \ {0} : k = Max({colour, 1}) /\ colour <= k /\ (colour # 0 => k = colour)
    BY MaxMin
  <2>4. PICK n \in Nat : n = left * One
    BY <1>1
  <2>5. n \in Int /\ n >= 0
    OBVIOUS
  <2>6. n \div k \in Nat /\ (n \div k) * k <= n /\ n <= ((n \div k) * k) + k - 1
    BY <2>3, <2>5, Quotients
  <2>7. PICK q \in Nat : q = n \div k /\ q * k <= n /\ n <= (q * k) + k - 1
    BY <2>6
  <2>8. f = IF q <= One THEN q ELSE One
    <3>1. f = Min({q, One})
      BY <1>3, <2>2, <2>3, <2>4, <2>7
    <3>2. q \in Int /\ One \in Int
      BY <1>1
    <3> QED
      BY <3>1, <3>2, MaxMin
  <2>9. f \in Nat /\ f \in 0..One /\ f <= q
    BY <1>1, <2>8
  <2>10. PICK g \in Nat : g = f
    BY <2>9
  <2>11. g * colour <= n
    <3>1. colour * g <= k * g
      BY <2>3, Times
    <3>2. g * k <= q * k
      BY <2>9, <2>10, Times
    <3>3. PICK x \in Nat, y \in Nat : x = g * colour /\ y = g * k
      OBVIOUS
    <3>4. x <= y
      BY <3>1, <3>3
    <3> QED
      BY <2>7, <3>2, <3>3, <3>4
  <2>12. left # 0 \/ q = 0
    <3>1. ASSUME left = 0
          PROVE  q = 0
      <4>1. n = 0
        BY <1>1, <2>4, <3>1
      <4>2. q * k <= 0
        BY <2>7, <4>1
      <4>3. q # 0 => q * k >= k
        OBVIOUS
      <4> QED
        BY <2>3, <4>2, <4>3
    <3> QED
      BY <3>1
  <2>13. f # 0 => left + idle + r = budget
    BY <2>2, <2>8, <2>9, <2>12
  <2>14. f # 0 => left + idle + (IF f = One THEN 0 ELSE r) <= budget
    BY <2>2, <2>13
  <2>15. ASSUME f \in 1..(One - 1)
         PROVE  n + 1 <= (g * colour) + colour
    <3>1. f = q /\ f # 0
      BY <1>1, <2>8, <2>15
    <3>2. left + idle + r = budget /\ left # 0
      BY <2>12, <2>13, <3>1
    <3>3. colour # 0
      BY <1>3, <3>2
    <3>4. k = colour
      BY <2>3, <3>3
    <3> QED
      BY <2>7, <2>10, <3>1, <3>4
  <2>16. f * colour <= left * One
    BY <2>4, <2>10, <2>11
  <2>17. f \in 1..(One - 1) => left + idle + r = budget
    BY <1>1, <2>13
  <2>18. f \in 1..(One - 1) => (left * One) + 1 <= (f * colour) + colour
    BY <2>4, <2>10, <2>15
  <2> QED
    BY <2>9, <2>14, <2>16, <2>17, <2>18
<1> QED
  BY <1>2, <1>3

\* One channel, from its light a to the current d its code draws: s is the scale
\* of the derated frame, y and p the light and the price without derating, x and c
\* the light and the code that are sent.
ChannelOf(a, w, f, ch, h, s, x, y, p, c, d) ==
  /\ s = (w * f) \div One /\ x = (a * s) \div One /\ y = (a * w) \div One
  /\ p = (y * ch) \div One /\ c = CodeOf(x, h) /\ d = (c * ch) \div FullCode

\* The draw of a channel lies near its price, derated.
LEMMA Channel ==
  ASSUME NEW a \in 0..One, NEW w \in 0..One, NEW f \in 0..One, NEW ch \in Nat,
         NEW h \in Nat, 2 * h = One, NEW s, NEW x, NEW y, NEW p, NEW c, NEW d,
         ChannelOf(a, w, f, ch, h, s, x, y, p, c, d)
  PROVE  /\ s \in 0..One /\ c \in 0..FullCode /\ d \in Nat
         /\ (2 * FullCode * One * One) * d
              <= ((2 * FullCode * f) * One) * p
                   + ((2 * FullCode) * (((One - 1) + ch) * f) + (ch * One * One))
         /\ ((2 * FullCode * f) * One) * p
              <= (2 * FullCode * One * One) * d
                   + ((4 * FullCode * ch) * One + (ch * One * One) + (2 * FullCode * One * One))
<1> USE DEF ChannelOf
<1>1. One \in Nat \ {0} /\ FullCode \in Nat \ {0}
  BY ScaleAssumption
<1>2. PICK o \in Nat \ {0}, u \in Nat \ {0} : o = One /\ u = FullCode
  BY <1>1
<1>3. w <= w /\ a <= a /\ a \in Nat /\ w \in Nat /\ f \in Nat /\ a <= o
  BY <1>1, <1>2
<1>4. s \in 0..One
  BY <1>3, Dimmed
<1>5. x \in 0..One /\ y \in 0..One
  BY <1>3, <1>4, Dimmed
<1>6. h \in 0..(One - 1)
  BY <1>1
<1>7. c \in 0..FullCode /\ c = ((x * FullCode) + h) \div One
  BY <1>5, <1>6, Code
<1>8. s \in Nat /\ x \in Nat /\ y \in Nat /\ c \in Nat
  BY <1>1, <1>4, <1>5, <1>7
<1>9. s * o <= w * f /\ w * f <= (s * o) + o - 1
  <2>1. PICK n \in Int : n = w * f
    BY <1>3
  <2> QED
    BY <1>2, <2>1, Quotients
<1>10. x * o <= a * s /\ a * s <= (x * o) + o - 1
  <2>1. PICK n \in Int : n = a * s
    BY <1>3, <1>8
  <2> QED
    BY <1>2, <2>1, Quotients
<1>11. y * o <= a * w /\ a * w <= (y * o) + o - 1
  <2>1. PICK n \in Int : n = a * w
    BY <1>3
  <2> QED
    BY <1>2, <2>1, Quotients
<1>12. p \in Nat /\ p * o <= y * ch /\ y * ch <= (p * o) + o - 1
  <2>1. PICK n \in Int : n = y * ch /\ n >= 0
    BY <1>8
  <2> QED
    BY <1>2, <2>1, Quotients
<1>13. c * o <= (x * u) + h /\ (x * u) + h <= (c * o) + o - 1
  <2>1. PICK n \in Int : n = (x * u) + h
    BY <1>8
  <2> QED
    BY <1>2, <1>7, <2>1, Quotients
<1>14. d \in Nat /\ d * u <= c * ch /\ c * ch <= (d * u) + u - 1
  <2>1. PICK n \in Int : n = c * ch /\ n >= 0
    BY <1>8
  <2> QED
    BY <1>2, <2>1, Quotients
<1>15. 2 * h = o
  BY <1>2
<1>16. (2 * u * o * o) * d
         <= ((2 * u * f) * o) * p + ((2 * u) * (((o - 1) + ch) * f)) + (ch * o * o)
  <2>1. RoundedUp(o, u, h, a, w, f, ch, s, y, p, x, c, d)
    BY <1>9, <1>10, <1>11, <1>12, <1>13, <1>14, <1>15 DEF RoundedUp
  <2> QED
    BY <1>3, <1>8, <1>12, <1>14, <2>1, DrawBelowPrice
<1>17. ((2 * u * f) * o) * p
         <= (2 * u * o * o) * d + ((4 * u * ch) * o) + (ch * o * o) + (2 * u * o * o)
  <2>1. RoundedDown(o, u, h, a, w, f, ch, s, y, p, x, c, d)
    BY <1>3, <1>9, <1>10, <1>11, <1>12, <1>13, <1>14, <1>15 DEF RoundedDown
  <2> QED
    BY <1>3, <1>8, <1>12, <1>14, <2>1, DrawAbovePrice
<1>18. (2 * u * o * o) * d
         <= ((2 * u * f) * o) * p + ((2 * u) * (((o - 1) + ch) * f) + (ch * o * o))
  <2>1. PICK k \in Int, l \in Int, m \in Int, n \in Int :
          /\ k = (2 * u * o * o) * d /\ l = ((2 * u * f) * o) * p
          /\ m = (2 * u) * (((o - 1) + ch) * f) /\ n = ch * o * o
    BY <1>3, <1>12, <1>14
  <2>2. k <= l + m + n
    BY <1>16, <2>1
  <2>3. k <= l + (m + n)
    BY <2>2
  <2> QED
    BY <2>1, <2>3, Zenon
<1>19. ((2 * u * f) * o) * p
         <= (2 * u * o * o) * d + ((4 * u * ch) * o + (ch * o * o) + (2 * u * o * o))
  <2>1. PICK k \in Int, l \in Int, m \in Int, n \in Int, q \in Int :
          /\ k = (2 * u * o * o) * d /\ l = ((2 * u * f) * o) * p
          /\ m = (4 * u * ch) * o /\ n = ch * o * o /\ q = 2 * u * o * o
    BY <1>3, <1>12, <1>14
  <2>2. l <= k + m + n + q
    BY <1>17, <2>1
  <2>3. l <= k + (m + n + q)
    BY <2>2
  <2> QED
    BY <2>1, <2>3, Zenon
<1> QED
  BY <1>2, <1>4, <1>7, <1>14, <1>18, <1>19, Zenon

\* What a frame's idle draw, its reserve and its factor come to.
LEMMA FrameFactor ==
  ASSUME NEW frame \in Seq(Int), NEW w \in 0..One, NEW p \in Supplies, NEW f,
         f = FactorFor(frame, w, p)
  PROVE  /\ IdleDraw(frame, p) \in Nat /\ Reserve(frame, p) \in Nat /\ p.channel \div One \in Nat
         /\ Len(frame) * p.channel
              <= (Reserve(frame, p) * (2 * FullCode)) + (2 * FullCode) - 1
         /\ p.channel <= ((p.channel \div One) * One) + One - 1
         /\ f \in 0..One
         /\ Fits(One, f, ColourDraw(frame, w, p), IdleDraw(frame, p), p.budget, Reserve(frame, p))
<1>1. PICK n \in Nat, ch \in Nat, idle \in Nat, budget \in Nat :
        n = Len(frame) /\ ch = p.channel /\ idle = p.idle /\ budget = p.budget
  BY Prices
<1>2. One \in Nat \ {0} /\ FullCode \in Nat \ {0}
  BY ScaleAssumption
<1>3. IdleDraw(frame, p) \in Nat
  <2>1. n \in Int /\ n >= 0 /\ 3 \in Nat \ {0}
    OBVIOUS
  <2>2. PICK leds \in Nat : leds = n \div 3
    BY <2>1, Quotients
  <2>3. leds * idle \in Nat
    OBVIOUS
  <2>4. IdleDraw(frame, p) = leds * idle
    BY <1>1, <2>2 DEF IdleDraw, LedsOf, CHANNELS
  <2> QED
    BY <2>3, <2>4
<1>4. /\ Reserve(frame, p) \in Nat
      /\ n * ch <= (Reserve(frame, p) * (2 * FullCode)) + (2 * FullCode) - 1
  <2>1. PICK m \in Int : m = n * ch /\ m >= 0
    OBVIOUS
  <2>2. PICK d \in Nat \ {0} : d = 2 * FullCode
    BY <1>2
  <2>3. m \div d \in Nat /\ m <= ((m \div d) * d) + d - 1
    BY <2>1, Quotients
  <2>4. Reserve(frame, p) = m \div d
    BY <1>1, <2>1, <2>2 DEF Reserve
  <2> QED
    BY <2>1, <2>2, <2>3, <2>4
<1>5. ch \div One \in Nat /\ ch <= ((ch \div One) * One) + One - 1
  <2>1. ch \in Int /\ ch >= 0
    OBVIOUS
  <2> QED
    BY <1>2, <2>1, Quotients
<1>6. PICK colour \in Nat, i \in Nat, r \in Nat :
        colour = ColourDraw(frame, w, p) /\ i = IdleDraw(frame, p) /\ r = Reserve(frame, p)
  BY <1>3, <1>4, Prices
<1>7. f = FactorValue(colour, i, budget, r)
  BY <1>1, <1>6 DEF FactorFor, LeftFor, FactorValue
<1>8. Fits(One, f, colour, i, budget, r)
  BY <1>7, FactorFits
<1>9. f \in 0..One
  BY <1>8 DEF Fits
<1> QED
  BY <1>1, <1>3, <1>4, <1>5, <1>6, <1>8, <1>9

\* Whatever the supply, the derated frame and its scale stay within the range.
LEMMA ScaleType ==
  ASSUME NEW frame \in Seq(Int), NEW level \in Int, NEW p \in Supplies \cup {NoSupply}
  PROVE  /\ Clamped(level, One) \in 0..One
         /\ DeratedBy(p, frame, Clamped(level, One)) \in 0..One
         /\ ScaleOf(p, frame, level) \in 0..One
<1>1. One \in Nat \ {0}
  BY ScaleAssumption
<1>2. PICK w \in 0..One : w = Clamped(level, One)
  BY <1>1, ClampedValue
<1>3. DeratedBy(p, frame, w) \in 0..One
  <2>1. CASE p = NoSupply
    BY <1>1, <2>1 DEF DeratedBy
  <2>2. CASE p # NoSupply
    <3>1. PICK f : f = FactorFor(frame, w, p)
      OBVIOUS
    <3>2. f \in 0..One
      BY <2>2, <3>1, FrameFactor
    <3> QED
      BY <2>2, <3>1, <3>2 DEF DeratedBy
  <2> QED
    BY <2>1, <2>2
<1>4. PICK f \in 0..One : f = DeratedBy(p, frame, w)
  BY <1>3
<1>5. (w * f) \div One \in 0..One
  BY <1>1, Dimmed
<1> QED
  BY <1>2, <1>3, <1>4, <1>5 DEF ScaleOf

\* The codes of a frame, and what they draw.
LEMMA CodedType ==
  ASSUME NEW frame \in Seq(Int), NEW level \in Int, NEW p \in Supplies \cup {NoSupply},
         NEW d \in BOOLEAN, NEW at \in Nat
  PROVE  /\ Coded(p, d, frame, level, at) \in [DOMAIN frame -> 0..FullCode]
         /\ DrawnBy(p, Coded(p, d, frame, level, at)) \in Nat
<1> DEFINE D == DOMAIN frame
           written == Coded(p, d, frame, level, at)
<1>1. PICK s \in 0..One : s = ScaleOf(p, frame, level)
  BY ScaleType
<1>2. ASSUME NEW i \in D
      PROVE  CodeOf(Scaled(frame[i], s), Rounding(d, i, at)) \in 0..FullCode
  <2>1. frame[i] \in Int /\ i \in Nat \ {0}
    OBVIOUS
  <2>2. Scaled(frame[i], s) \in 0..One
    BY <2>1, ScaledLight
  <2>3. Rounding(d, i, at) \in 0..(One - 1)
    BY <2>1, Roundings
  <2> QED
    BY <2>2, <2>3, Code
<1>3. written = [i \in D |-> CodeOf(Scaled(frame[i], s), Rounding(d, i, at))]
  BY <1>1 DEF Coded
<1> HIDE DEF D
<1>4. written \in [D -> 0..FullCode]
  BY <1>2, <1>3
<1>5. ASSUME p # NoSupply
      PROVE  DrawnBy(p, written) \in Nat
  <2>1. p \in Supplies
    BY <1>5
  <2>2. PICK ch \in Nat, idle \in Nat : ch = p.channel /\ idle = p.idle
    BY <2>1, InputsAssumption
  <2>3. IsFiniteSet(D) /\ Cardinality(D) \in Nat
    BY <2>1, ScaleType, Prices DEF D
  <2>4. \A i \in D : written[i] \in 0..FullCode
    BY <1>4
  <2>5. ASSUME NEW c \in 0..FullCode
        PROVE  (c * ch) \div FullCode \in Nat
    <3>1. FullCode \in Nat \ {0}
      BY ScaleAssumption
    <3>2. PICK n \in Int : n = c * ch /\ n >= 0
      BY <3>1
    <3> QED
      BY <3>1, <3>2, Quotients
  <2> DEFINE q == DrawsOf(written, p)
  <2>6. q = [i \in D |-> (written[i] * ch) \div FullCode]
    BY <1>4, <2>2 DEF DrawsOf
  <2> HIDE DEF q, written
  <2>7. q \in [D -> Int] /\ \A i \in D : q[i] >= 0
    BY <2>4, <2>5, <2>6
  <2>8. SumOf(q) \in Nat
    <3>1. SumOf(q) \in Int
      BY <2>3, <2>7, SumType
    <3>2. PICK z \in Int, e \in Int : z = 0 /\ e = 1
      OBVIOUS
    <3>3. \A i \in D : z * q[i] <= (e * q[i]) + z
      BY <2>7, <3>2
    <3>4. z * SumOf(q) <= (e * SumOf(q)) + (z * Cardinality(D))
      BY <2>3, <2>7, <3>3, SumBound
    <3>5. PICK n \in Nat, t \in Int : n = Cardinality(D) /\ t = SumOf(q)
      BY <2>3, <3>1
    <3>6. t >= 0
      BY <3>2, <3>4, <3>5
    <3> QED
      BY <3>5, <3>6
  <2>9. IdleDraw(written, p) = IdleDraw(frame, p)
    <3>1. Len(written) = Len(frame)
      BY <1>3 DEF D, written
    <3> QED
      BY <3>1 DEF IdleDraw, LedsOf
  <2>10. IdleDraw(frame, p) \in Nat
    BY <2>1, ScaleType, FrameFactor
  <2>11. DrawnBy(p, written) = SumOf(q) + IdleDraw(frame, p)
    BY <1>5, <2>9 DEF DrawnBy, q
  <2> QED
    BY <2>8, <2>10, <2>11
<1>6. p = NoSupply => DrawnBy(p, written) = 0
  BY DEF DrawnBy
<1> QED
  BY <1>4, <1>5, <1>6 DEF D

\* What n channels draw and their price, derated, bound each other.
SumsNear(o, u, ch, f, n, drawn, price) ==
  /\ (2 * u * o * o) * drawn
       <= ((2 * u * f) * o) * price + ((2 * u) * (((o - 1) + ch) * f) + (ch * o * o)) * n
  /\ ((2 * u * f) * o) * price
       <= (2 * u * o * o) * drawn + (((4 * u * ch) * o) + (ch * o * o) + (2 * u * o * o)) * n

\* A frame's brightness, factor, channel draw, price, and what its codes draw.
FiguresOf(frame, level, p, at, w, f, ch, price, drawn) ==
  /\ w = Clamped(level, One) /\ f = FactorFor(frame, w, p) /\ ch = p.channel
  /\ price = ColourDraw(frame, w, p)
  /\ drawn = SumOf(DrawsOf(Coded(p, FALSE, frame, level, at), p))

\* What the codes of an undithered frame draw lies near its price, derated.
LEMMA FrameDraw ==
  ASSUME NEW frame \in Seq(Int), NEW level \in Int, NEW p \in Supplies, NEW at \in Nat,
         NEW w, NEW f, NEW ch, NEW price, NEW drawn,
         FiguresOf(frame, level, p, at, w, f, ch, price, drawn)
  PROVE  /\ drawn \in Int
         /\ SumsNear(One, FullCode, ch, f, Len(frame), drawn, price)
         /\ f = 0 => drawn = 0
<1> USE DEF FiguresOf
<1> DEFINE D == DOMAIN frame
           q == PricesOf(frame, w, p)
           written == Coded(p, FALSE, frame, level, at)
           e == DrawsOf(written, p)
<1>1. One \in Nat \ {0} /\ FullCode \in Nat \ {0}
  BY ScaleAssumption
<1>2. w \in 0..One /\ p \in Supplies \cup {NoSupply}
  BY ScaleType
<1>3. f \in 0..One
  BY <1>2, FrameFactor
<1>4. f = DeratedBy(p, frame, w)
  BY NoSupplyAssumption DEF DeratedBy
<1>5. ch \in Nat /\ IsFiniteSet(D) /\ Cardinality(D) = Len(frame) /\ Len(frame) \in Nat
      /\ q \in [D -> Nat] /\ price = SumOf(q)
  BY <1>2, Prices
<1>6. PICK h \in Nat : h = One \div 2 /\ 2 * h = One
  <2>1. FALSE \in BOOLEAN /\ 1 \in Nat \ {0}
    OBVIOUS
  <2> QED
    BY <2>1, Roundings
<1>7. PICK s : s = ScaleOf(p, frame, level) /\ s = (w * f) \div One
  BY <1>4 DEF ScaleOf
<1>8. \A i \in D : frame[i] \in Int /\ i \in Nat \ {0}
  OBVIOUS
<1>9. q = [i \in D |-> (Scaled(frame[i], w) * ch) \div One]
  BY DEF PricesOf
<1>10. written = [i \in D |-> CodeOf(Scaled(frame[i], s), Rounding(FALSE, i, at))]
  BY <1>7 DEF Coded
<1>11. e = [i \in DOMAIN written |-> (written[i] * ch) \div FullCode]
  BY DEF DrawsOf
<1> HIDE DEF D, q, written, e
<1>12. DOMAIN written = D
  BY <1>10
<1> DEFINE A == 2 * FullCode * One * One
           B == (2 * FullCode * f) * One
           C == (2 * FullCode) * (((One - 1) + ch) * f) + (ch * One * One)
           E == (4 * FullCode * ch) * One + (ch * One * One) + (2 * FullCode * One * One)
<1>13. A \in Nat /\ B \in Nat /\ C \in Int /\ E \in Int
  <2>1. PICK o \in Nat, u \in Nat, g \in Nat : o = One /\ u = FullCode /\ g = f
    BY <1>1, <1>3
  <2>2. /\ 2 * u * o * o \in Nat /\ (2 * u * g) * o \in Nat
        /\ (2 * u) * (((o - 1) + ch) * g) + (ch * o * o) \in Int
        /\ (4 * u * ch) * o + (ch * o * o) + (2 * u * o * o) \in Int
    <3>1. PICK k \in Int : k = (o - 1) + ch
      BY <1>5
    <3>2. (2 * u) * (k * g) \in Int /\ ch * o * o \in Int
      BY <1>5
    <3>3. 2 * u * o * o \in Nat /\ (2 * u * g) * o \in Nat /\ (4 * u * ch) * o \in Int
      BY <1>5
    <3>4. PICK m \in Int, n \in Int, l \in Int, j \in Int :
            m = (2 * u) * (k * g) /\ n = ch * o * o /\ l = (4 * u * ch) * o /\ j = 2 * u * o * o
      BY <3>2, <3>3
    <3>5. m + n \in Int /\ l + n + j \in Int
      OBVIOUS
    <3> QED
      BY <3>1, <3>3, <3>4, <3>5, Zenon
  <2> QED
    BY <2>1, <2>2, Zenon
<1>14. ASSUME NEW i \in D
       PROVE  /\ e[i] \in Nat
              /\ A * e[i] <= B * q[i] + C
              /\ B * q[i] <= A * e[i] + E
              /\ f = 0 => e[i] = 0
  <2> HIDE DEF A, B, C, E
  <2>1. frame[i] \in Int /\ i \in Nat \ {0}
    BY <1>8
  <2>2. PICK a \in 0..One : a = Clamped(frame[i], One)
    BY <1>1, <2>1, ClampedValue
  <2>3. PICK x, y : x = (a * s) \div One /\ y = (a * w) \div One
    OBVIOUS
  <2>4. x = Scaled(frame[i], s) /\ y = Scaled(frame[i], w)
    BY <2>2, <2>3 DEF Scaled
  <2>5. Rounding(FALSE, i, at) = h
    BY <1>6, <2>1, Roundings
  <2>6. PICK c : c = CodeOf(x, h)
    OBVIOUS
  <2>7. written[i] = c
    BY <1>10, <2>4, <2>5, <2>6
  <2>8. e[i] = (c * ch) \div FullCode
    BY <1>11, <1>12, <2>7
  <2>9. q[i] = (y * ch) \div One
    BY <1>9, <2>4
  <2>10. /\ c \in 0..FullCode /\ e[i] \in Nat
         /\ A * e[i] <= B * q[i] + C
         /\ B * q[i] <= A * e[i] + E
    <3>1. PICK r, d : r = q[i] /\ d = e[i]
      OBVIOUS
    <3>2. ChannelOf(a, w, f, ch, h, s, x, y, r, c, d)
      BY <1>7, <2>3, <2>6, <2>8, <2>9, <3>1 DEF ChannelOf
    <3>3. /\ c \in 0..FullCode /\ d \in Nat
          /\ (2 * FullCode * One * One) * d
               <= ((2 * FullCode * f) * One) * r
                    + ((2 * FullCode) * (((One - 1) + ch) * f) + (ch * One * One))
          /\ ((2 * FullCode * f) * One) * r
               <= (2 * FullCode * One * One) * d
                    + ((4 * FullCode * ch) * One + (ch * One * One) + (2 * FullCode * One * One))
      BY <1>2, <1>3, <1>5, <1>6, <3>2, Channel
    <3> QED
      BY <3>1, <3>3, Zenon DEF A, B, C, E
  <2>11. ASSUME f = 0
         PROVE  e[i] = 0
    <3>1. s = 0
      BY <1>1, <1>2, <1>7, <2>11
    <3>2. x = 0
      BY <1>1, <2>3, <3>1
    <3>3. x \in 0..One /\ h \in 0..(One - 1)
      BY <1>1, <1>6, <3>2
    <3>4. c = ((x * FullCode) + h) \div One
      BY <2>6, <3>3, Code
    <3>5. (x * FullCode) + h = h
      BY <1>1, <3>2
    <3>6. c = h \div One
      BY <3>4, <3>5
    <3>7. c = 0
      BY <1>1, <3>3, <3>6
    <3>8. c * ch = 0
      BY <1>5, <3>7
    <3> QED
      BY <1>1, <2>8, <3>8
  <2> QED
    BY <2>10, <2>11
<1> HIDE DEF A, B, C, E
<1>15. e \in [D -> Int] /\ q \in [D -> Int]
  BY <1>5, <1>11, <1>12, <1>14
<1>16. drawn = SumOf(e) /\ drawn \in Int
  BY <1>5, <1>15, SumType DEF e, written
<1>17. A * SumOf(e) <= (B * SumOf(q)) + (C * Cardinality(D))
  <2>1. \A i \in D : A * e[i] <= (B * q[i]) + C
    BY <1>14
  <2>2. A \in Int /\ B \in Int
    BY <1>13
  <2> QED
    BY <1>5, <1>13, <1>15, <2>1, <2>2, SumBound
<1>18. B * SumOf(q) <= (A * SumOf(e)) + (E * Cardinality(D))
  <2>1. \A i \in D : B * q[i] <= (A * e[i]) + E
    BY <1>14
  <2>2. A \in Int /\ B \in Int
    BY <1>13
  <2> QED
    BY <1>5, <1>13, <1>15, <2>1, <2>2, SumBound
<1>19. ASSUME f = 0
       PROVE  drawn = 0
  <2>1. \A i \in D : e[i] = 0
    BY <1>14, <1>19
  <2>2. PICK z \in Int, k \in Int, m \in Int : z = 0 /\ k = 1 /\ m = -1
    OBVIOUS
  <2>3. (\A i \in D : k * e[i] <= (z * e[i]) + z) /\ (\A i \in D : m * e[i] <= (z * e[i]) + z)
    BY <2>1, <2>2
  <2>4. k * SumOf(e) <= (z * SumOf(e)) + (z * Cardinality(D))
    BY <1>5, <1>15, <2>3, SumBound
  <2>5. m * SumOf(e) <= (z * SumOf(e)) + (z * Cardinality(D))
    BY <1>5, <1>15, <2>3, SumBound
  <2>6. PICK n \in Nat, t \in Int : n = Cardinality(D) /\ t = SumOf(e)
    BY <1>5, <1>16
  <2>7. t = 0
    BY <2>2, <2>4, <2>5, <2>6
  <2> QED
    BY <1>16, <2>6, <2>7
<1>20. A * drawn <= B * price + C * Len(frame) /\ B * price <= A * drawn + E * Len(frame)
  BY <1>5, <1>16, <1>17, <1>18
<1>21. SumsNear(One, FullCode, ch, f, Len(frame), drawn, price)
  BY <1>20, Zenon DEF A, B, C, E, SumsNear
<1> QED
  BY <1>16, <1>19, <1>21

\* What is kept back for n channels, and what their pricing can lose.
ReservedFor(o, u, ch, n, price, r, l, loss) ==
  /\ price <= n * ch /\ n * ch <= (r * (2 * u)) + (2 * u) - 1
  /\ ch <= (l * o) + o - 1 /\ loss = n * (l + 2)

\* The sums and the factor together keep a frame near its budget.
LEMMA BudgetKept ==
  ASSUME NEW o \in Nat \ {0}, NEW u \in Nat \ {0}, NEW ch \in Nat, NEW f \in Nat, NEW n \in Nat,
         NEW drawn \in Int, NEW price \in Nat, NEW idle \in Nat, NEW budget \in Nat,
         NEW r \in Nat, NEW l \in Nat, NEW loss \in Nat,
         f = 0 => drawn = 0, ReservedFor(o, u, ch, n, price, r, l, loss),
         SumsNear(o, u, ch, f, n, drawn, price), Fits(o, f, price, idle, budget, r)
  PROVE  /\ drawn + idle <= Max({budget, idle}) + loss + (IF f = o THEN r ELSE 0)
         /\ f \in 1..(o - 1) => drawn + idle + (2 * r) + (3 * loss) >= budget
<1> USE DEF ReservedFor
<1>1. PICK left \in Nat :
        /\ f \in 0..o
        /\ f * price <= left * o
        /\ f # 0 => left + idle + (IF f = o THEN 0 ELSE r) <= budget
        /\ f \in 1..(o - 1) => left + idle + r = budget /\ (left * o) + 1 <= (f * price) + price
  BY Zenon DEF Fits
<1>2. /\ (2 * u * o * o) * drawn
           <= ((2 * u * f) * o) * price + ((2 * u) * (((o - 1) + ch) * f) + (ch * o * o)) * n
      /\ ((2 * u * f) * o) * price
           <= (2 * u * o * o) * drawn + (((4 * u * ch) * o) + (ch * o * o) + (2 * u * o * o)) * n
  BY Zenon DEF SumsNear
<1>3. f <= o /\ r \in Int /\ l \in Int /\ price \in Int
  BY <1>1
<1>4. drawn <= left + r + loss
  <2>1. drawn <= left + r + n * (l + 2)
    BY <1>1, <1>2, <1>3, FrameBelowBudget
  <2> QED
    BY <2>1
<1>5. PICK m \in Nat : m = Max({budget, idle}) /\ m >= budget /\ m >= idle
  BY MaxMin
<1>6. drawn + idle <= m + loss + (IF f = o THEN r ELSE 0)
  <2>1. CASE f = 0
    BY <1>5, <2>1
  <2>2. CASE f # 0
    <3>1. left + idle + (IF f = o THEN 0 ELSE r) <= budget
      BY <1>1, <2>2
    <3> QED
      BY <1>4, <1>5, <3>1
  <2> QED
    BY <2>1, <2>2
<1>7. ASSUME f \in 1..(o - 1)
      PROVE  drawn + idle + (2 * r) + (3 * loss) >= budget
  <2>1. left + idle + r = budget /\ (left * o) + 1 <= (f * price) + price
    BY <1>1, <1>7
  <2>2. left <= drawn + r + 3 * (n * (l + 2))
    BY <1>2, <1>3, <2>1, FrameAboveBudget
  <2>3. left <= drawn + r + 3 * loss
    BY <2>2
  <2> QED
    BY <2>1, <2>3
<1> QED
  BY <1>5, <1>6, <1>7

\* An undithered frame is within its supply, but for the losses of pricing and,
\* where it was not derated, the reserve.  One that was derated to more than
\* nothing is not below its supply by more than the losses and twice the reserve.
LEMMA FrameBudget ==
  ASSUME NEW frame \in Seq(Int), NEW level \in Int, NEW p \in Supplies, NEW at \in Nat,
         NEW f, f = DeratedBy(p, frame, Clamped(level, One)),
         NEW draw, draw = DrawnBy(p, Coded(p, FALSE, frame, level, at)),
         NEW idle, idle = IdleDraw(frame, p), NEW r, r = Reserve(frame, p),
         NEW loss, loss = Len(frame) * ((p.channel \div One) + 2)
  PROVE  /\ draw <= Max({p.budget, idle}) + loss + (IF f = One THEN r ELSE 0)
         /\ f \in 1..(One - 1) => draw + (2 * r) + (3 * loss) >= p.budget
<1>1. PICK w : w = Clamped(level, One)
  OBVIOUS
<1>2. w \in 0..One
  BY <1>1, ScaleType
<1>3. PICK price \in Nat, ch \in Nat, n \in Nat, budget \in Nat :
        /\ price = ColourDraw(frame, w, p) /\ ch = p.channel /\ n = Len(frame)
        /\ budget = p.budget /\ price <= n * ch
  BY <1>2, Prices
<1>4. PICK o \in Nat \ {0}, u \in Nat \ {0} : o = One /\ u = FullCode
  BY ScaleAssumption
<1>5. p # NoSupply /\ f = FactorFor(frame, w, p)
  BY <1>1, NoSupplyAssumption DEF DeratedBy
<1>6. /\ idle \in Nat /\ r \in Nat /\ ch \div o \in Nat /\ f \in 0..o
      /\ n * ch <= (r * (2 * u)) + (2 * u) - 1
      /\ ch <= ((ch \div o) * o) + o - 1
      /\ Fits(o, f, price, idle, budget, r)
  BY <1>2, <1>3, <1>4, <1>5, FrameFactor
<1>7. PICK l \in Nat : l = ch \div o /\ ch <= (l * o) + o - 1
  BY <1>6
<1>8. PICK drawn : drawn = SumOf(DrawsOf(Coded(p, FALSE, frame, level, at), p))
  OBVIOUS
<1>9. drawn \in Int /\ SumsNear(o, u, ch, f, n, drawn, price) /\ (f = 0 => drawn = 0)
  <2>1. FiguresOf(frame, level, p, at, w, f, ch, price, drawn)
    BY <1>1, <1>3, <1>5, <1>8 DEF FiguresOf
  <2> QED
    BY <1>3, <1>4, <2>1, FrameDraw
<1>10. PICK k \in Nat : k = loss /\ k = n * (l + 2)
  BY <1>3, <1>4, <1>7
<1>11. draw = drawn + idle
  <2>1. PICK written : written = Coded(p, FALSE, frame, level, at)
    OBVIOUS
  <2>2. written = [i \in DOMAIN frame |-> written[i]]
    BY <2>1 DEF Coded
  <2>3. written = [i \in 1..Len(frame) |-> written[i]] /\ Len(frame) \in Nat
    BY <2>2
  <2>4. Len(written) = Len(frame)
    BY <2>3
  <2>5. IdleDraw(written, p) = idle
    BY <2>4 DEF IdleDraw, LedsOf
  <2> QED
    BY <1>5, <1>8, <2>1, <2>5 DEF DrawnBy
<1>12. f \in Nat
  BY <1>6
<1>13. /\ drawn + idle <= Max({budget, idle}) + k + (IF f = o THEN r ELSE 0)
       /\ f \in 1..(o - 1) => drawn + idle + (2 * r) + (3 * k) >= budget
  <2>1. ReservedFor(o, u, ch, n, price, r, l, k)
    BY <1>3, <1>6, <1>7, <1>10 DEF ReservedFor
  <2>2. PICK e \in Int, i \in Nat, s \in Nat, g \in Nat : e = drawn /\ i = idle /\ s = r /\ g = f
    BY <1>6, <1>9, <1>12
  <2>3. /\ ReservedFor(o, u, ch, n, price, s, l, k) /\ SumsNear(o, u, ch, g, n, e, price)
        /\ Fits(o, g, price, i, budget, s) /\ (g = 0 => e = 0)
    BY <1>6, <1>9, <2>1, <2>2
  <2>4. /\ e + i <= Max({budget, i}) + k + (IF g = o THEN s ELSE 0)
        /\ g \in 1..(o - 1) => e + i + (2 * s) + (3 * k) >= budget
    BY <2>3, BudgetKept
  <2> QED
    BY <2>2, <2>4
<1> QED
  BY <1>3, <1>4, <1>10, <1>11, <1>13

\* Light, dimmed and rounded by half a code.
LEMMA RoundedCode ==
  ASSUME NEW a \in 0..One, NEW s \in 0..One, NEW h \in Nat, 2 * h = One,
         NEW x, x = (a * s) \div One, NEW c, c = CodeOf(x, h)
  PROVE  /\ x \in 0..One /\ c \in 0..FullCode
         /\ x * One <= a * s /\ a * s <= (x * One) + One - 1
         /\ c * One <= (x * FullCode) + h /\ (x * FullCode) + h <= (c * One) + One - 1
<1>1. One \in Nat \ {0} /\ FullCode \in Nat \ {0}
  BY ScaleAssumption
<1>2. x \in 0..One
  <2>1. a <= a
    BY <1>1
  <2> QED
    BY <2>1, Dimmed
<1>3. h \in 0..(One - 1)
  BY <1>1
<1>4. c \in 0..FullCode /\ c = ((x * FullCode) + h) \div One
  BY <1>2, <1>3, Code
<1>5. x * One <= a * s /\ a * s <= (x * One) + One - 1
  <2>1. PICK n \in Int : n = a * s
    BY <1>1
  <2> QED
    BY <1>1, <2>1, Quotients
<1>6. c * One <= (x * FullCode) + h /\ (x * FullCode) + h <= (c * One) + One - 1
  <2>1. PICK n \in Int : n = (x * FullCode) + h
    BY <1>1, <1>2
  <2> QED
    BY <1>1, <1>4, <2>1, Quotients
<1> QED
  BY <1>2, <1>4, <1>5, <1>6

\* The codes of two channels of an undithered frame stand in the ratio of their
\* light, to within a rounding of each.
LEMMA FrameRatio ==
  ASSUME NEW frame \in Seq(Int), NEW level \in Int, NEW p \in Supplies \cup {NoSupply},
         NEW at \in Nat, NEW i \in DOMAIN frame, NEW j \in DOMAIN frame,
         NEW a, a = Clamped(frame[i], One), NEW b, b = Clamped(frame[j], One),
         NEW c, c = Coded(p, FALSE, frame, level, at)[i],
         NEW e, e = Coded(p, FALSE, frame, level, at)[j]
  PROVE  2 * One * ((c * b) - (e * a)) <= (a + b) * (One + (2 * FullCode))
<1>1. PICK o \in Nat \ {0}, u \in Nat \ {0} : o = One /\ u = FullCode
  BY ScaleAssumption
<1>2. frame[i] \in Int /\ frame[j] \in Int /\ i \in Nat \ {0} /\ j \in Nat \ {0}
  OBVIOUS
<1>3. a \in 0..One /\ b \in 0..One
  BY <1>1, <1>2, ClampedValue
<1>4. PICK s \in 0..One : s = ScaleOf(p, frame, level)
  BY ScaleType
<1>5. PICK h \in Nat : /\ h = One \div 2 /\ 2 * h = One
                       /\ Rounding(FALSE, i, at) = h /\ Rounding(FALSE, j, at) = h
  <2>1. FALSE \in BOOLEAN
    OBVIOUS
  <2> QED
    BY <1>2, <2>1, Roundings
<1>6. PICK x, y : x = (a * s) \div One /\ y = (b * s) \div One
  OBVIOUS
<1>7. x = Scaled(frame[i], s) /\ y = Scaled(frame[j], s)
  BY <1>6 DEF Scaled
<1>8. c = CodeOf(x, h) /\ e = CodeOf(y, h)
  BY <1>4, <1>5, <1>7 DEF Coded
<1>9. /\ x \in 0..One /\ c \in 0..FullCode
      /\ x * One <= a * s /\ c * One <= (x * FullCode) + h
  BY <1>3, <1>5, <1>6, <1>8, RoundedCode
<1>10. /\ y \in 0..One /\ e \in 0..FullCode
       /\ b * s <= (y * One) + One - 1 /\ (y * FullCode) + h <= (e * One) + One - 1
  BY <1>3, <1>5, <1>6, <1>8, RoundedCode
<1>11. RoundedAlike(o, u, h, a, b, s, x, y, c, e)
  BY <1>1, <1>5, <1>9, <1>10 DEF RoundedAlike
<1>12. a \in Nat /\ b \in Nat /\ s \in Nat /\ x \in Nat /\ y \in Nat /\ c \in Nat /\ e \in Nat
  <2>1. x \in 0..One /\ y \in 0..One /\ c \in 0..FullCode /\ e \in 0..FullCode
    BY <1>9, <1>10, Zenon
  <2>2. 0..One \subseteq Nat /\ 0..FullCode \subseteq Nat
    BY ScaleAssumption
  <2> QED
    BY <1>3, <2>1, <2>2
<1>13. 2 * o * ((c * b) - (e * a)) <= (a + b) * (o + (2 * u))
  BY <1>11, <1>12, RatioBound
<1> QED
  BY <1>1, <1>13, Zenon

\* The channels of a pixel keep their order, and near ones stay near.
LEMMA FrameHue ==
  ASSUME NEW frame \in Seq(Int), NEW level \in Int, NEW p \in Supplies \cup {NoSupply},
         NEW d \in BOOLEAN, NEW at \in Nat, NEW i \in DOMAIN frame, NEW j \in DOMAIN frame,
         Pixel(i) = Pixel(j), frame[i] <= frame[j],
         NEW c, c = Coded(p, d, frame, level, at)[i],
         NEW e, e = Coded(p, d, frame, level, at)[j]
  PROVE  /\ c <= e
         /\ (frame[j] - frame[i]) * FullCode < One => e <= c + 1
<1>1. One \in Nat \ {0} /\ FullCode \in Nat \ {0}
  BY ScaleAssumption
<1>2. PICK v \in Int, t \in Int : v = frame[i] /\ t = frame[j] /\ v <= t
  OBVIOUS
<1>3. i \in Nat \ {0} /\ j \in Nat \ {0}
  OBVIOUS
<1>4. PICK a \in 0..One, b \in 0..One :
        /\ a = Clamped(v, One) /\ b = Clamped(t, One) /\ a <= b /\ b - a <= t - v
  <2>1. /\ Clamped(v, One) = IF v < 0 THEN 0 ELSE IF v > One THEN One ELSE v
        /\ Clamped(t, One) = IF t < 0 THEN 0 ELSE IF t > One THEN One ELSE t
    BY <1>1, ClampedValue
  <2> QED
    BY <1>1, <1>2, <2>1
<1>5. PICK s \in 0..One : s = ScaleOf(p, frame, level)
  BY ScaleType
<1>6. PICK r \in 0..(One - 1) : r = Rounding(d, i, at) /\ r = Rounding(d, j, at)
  <2>1. Rounding(d, i, at) = Rounding(d, j, at)
    BY DEF Rounding
  <2> QED
    BY <1>3, <2>1, Roundings
<1>7. PICK x \in 0..One, y \in 0..One :
        /\ x = (a * s) \div One /\ y = (b * s) \div One /\ x <= y /\ y <= x + (b - a)
  <2>1. /\ (a * s) \div One \in 0..One /\ (a * s) \div One <= (b * s) \div One
        /\ (b * s) \div One <= ((a * s) \div One) + (b - a)
    BY <1>4, Dimmed
  <2>2. b <= b
    BY <1>1
  <2>3. (b * s) \div One \in 0..One
    BY <2>2, Dimmed
  <2> QED
    BY <2>1, <2>3
<1>8. x = Scaled(frame[i], s) /\ y = Scaled(frame[j], s)
  BY <1>2, <1>4, <1>7 DEF Scaled
<1>9. c = CodeOf(x, r) /\ e = CodeOf(y, r)
  BY <1>5, <1>6, <1>8 DEF Coded
<1>10. c <= e /\ ((y - x) * FullCode < One => e <= c + 1)
  BY <1>7, <1>9, CodesNear
<1>11. ASSUME (t - v) * FullCode < One
       PROVE  (y - x) * FullCode < One
  <2>0. y - x \in Int /\ t - v \in Int /\ y - x <= t - v /\ FullCode \in Nat
    <3>1. b - a <= t - v /\ y <= x + (b - a)
      BY <1>4, <1>7, Zenon
    <3>2. x \in Int /\ y \in Int /\ a \in Int /\ b \in Int
      BY <1>1
    <3> QED
      BY <1>1, <3>1, <3>2
  <2>1. PICK k \in Int, m \in Int, u \in Nat : k = y - x /\ m = t - v /\ u = FullCode /\ k <= m
    BY <2>0
  <2>2. k * u <= m * u
    BY <2>1, Times
  <2>3. PICK n \in Int, q \in Int : n = k * u /\ q = m * u
    OBVIOUS
  <2>4. q < One /\ n <= q
    BY <1>11, <2>1, <2>2, <2>3
  <2> QED
    BY <1>1, <2>1, <2>3, <2>4
<1> QED
  BY <1>2, <1>10, <1>11

-----------------------------------------------------------------------------
(* A period of the dither.                                                  *)

\* A sum of sixteen, written out.
Sixteen(q) ==
  q[0] + q[1] + q[2] + q[3] + q[4] + q[5] + q[6] + q[7]
    + q[8] + q[9] + q[10] + q[11] + q[12] + q[13] + q[14] + q[15]

\* Adding up from zero to fifteen.
LEMMA SumOfSixteen ==
  ASSUME NEW q \in [0..15 -> Int]
  PROVE  SumOf(q) = Sixteen(q)
<1> DEFINE D == 0..15
<1>1. IsFiniteSet(D)
  <2>1. PICK m \in Int, n \in Int : m = 0 /\ n = 15
    OBVIOUS
  <2> QED
    BY <2>1, FS_Interval
<1>2. q \in [D -> Int]
  OBVIOUS
<1> HIDE DEF D
<1>3. PICK g : Runs(g, q, D) /\ SumOf(q) = g[D]
  BY <1>1, <1>2, SumRuns
<1>4. \A s \in SUBSET D : \A x \in s : g[s] = q[x] + g[s \ {x}]
  <2>1. PICK E, p : E = D /\ p = q
    OBVIOUS
  <2>2. IsFiniteSet(E) /\ p \in [E -> Int] /\ Runs(g, p, E)
    BY <1>1, <1>2, <1>3, <2>1
  <2>3. ASSUME NEW s \in SUBSET E, NEW x \in s
        PROVE  g[s] = p[x] + g[s \ {x}]
    BY <2>2, SumTakes
  <2> QED
    BY <2>1, <2>3
<1> DEFINE G(n) == g[0..n]
<1>5. ASSUME NEW n \in 0..15
      PROVE  G(n) = q[n] + G(n - 1)
  <2>1. 0..n \in SUBSET D /\ n \in 0..n /\ (0..n) \ {n} = 0..(n - 1)
    BY DEF D
  <2> QED
    BY <1>4, <2>1
<1>6. G(-1) = 0
  <2>1. 0..(-1) = {}
    OBVIOUS
  <2>2. g[{}] = 0
    BY <1>3 DEF Runs
  <2> QED
    BY <2>1, <2>2
<1>7. SumOf(q) = G(15)
  BY <1>3 DEF D
<1> HIDE DEF G
<1>8. \A n \in 0..15 : q[n] \in Int
  OBVIOUS
<1>9. G(0) = q[0] /\ G(0) \in Int
  <2>1. G(0) = q[0] + G(0 - 1)
    BY <1>5
  <2> QED
    BY <1>6, <1>8, <2>1
<1>10. G(1) = q[1] + G(0) /\ G(1) \in Int
  BY <1>5, <1>8, <1>9
<1>11. G(2) = q[2] + G(1) /\ G(2) \in Int
  BY <1>5, <1>8, <1>10
<1>12. G(3) = q[3] + G(2) /\ G(3) \in Int
  BY <1>5, <1>8, <1>11
<1>13. G(4) = q[4] + G(3) /\ G(4) \in Int
  BY <1>5, <1>8, <1>12
<1>14. G(5) = q[5] + G(4) /\ G(5) \in Int
  BY <1>5, <1>8, <1>13
<1>15. G(6) = q[6] + G(5) /\ G(6) \in Int
  BY <1>5, <1>8, <1>14
<1>16. G(7) = q[7] + G(6) /\ G(7) \in Int
  BY <1>5, <1>8, <1>15
<1>17. G(8) = q[8] + G(7) /\ G(8) \in Int
  BY <1>5, <1>8, <1>16
<1>18. G(9) = q[9] + G(8) /\ G(9) \in Int
  BY <1>5, <1>8, <1>17
<1>19. G(10) = q[10] + G(9) /\ G(10) \in Int
  BY <1>5, <1>8, <1>18
<1>20. G(11) = q[11] + G(10) /\ G(11) \in Int
  BY <1>5, <1>8, <1>19
<1>21. G(12) = q[12] + G(11) /\ G(12) \in Int
  BY <1>5, <1>8, <1>20
<1>22. G(13) = q[13] + G(12) /\ G(13) \in Int
  BY <1>5, <1>8, <1>21
<1>23. G(14) = q[14] + G(13) /\ G(14) \in Int
  BY <1>5, <1>8, <1>22
<1>24. G(15) = q[15] + G(14) /\ G(15) \in Int
  BY <1>5, <1>8, <1>23
<1> QED
  BY <1>7, <1>8, <1>9, <1>10, <1>11, <1>12, <1>13, <1>14, <1>15, <1>16, <1>17, <1>18, <1>19, <1>20, <1>21, <1>22, <1>23, <1>24 DEF Sixteen

\* The thresholds of a period, in the order they come from frame b on.
Turned(b) == [k \in 0..15 |-> Reversed((b + k) % 16)]

\* Bits read backwards.
LEMMA ReversedTable ==
  /\ Reversed(0) = 0 /\ Reversed(1) = 8 /\ Reversed(2) = 4 /\ Reversed(3) = 12
  /\ Reversed(4) = 2 /\ Reversed(5) = 10 /\ Reversed(6) = 6 /\ Reversed(7) = 14
  /\ Reversed(8) = 1 /\ Reversed(9) = 9 /\ Reversed(10) = 5 /\ Reversed(11) = 13
  /\ Reversed(12) = 3 /\ Reversed(13) = 11 /\ Reversed(14) = 7 /\ Reversed(15) = 15
BY DEF Reversed, Bit

\* Each of sixteen comes once.
OnceEach(f) ==
  /\ f \in [0..15 -> 0..15]
  /\ \A i, j \in 0..15 : f[i] = f[j] => i = j
  /\ \A r \in 0..15 : \E k \in 0..15 : f[k] = r

\* Wherever a period begins, each threshold comes in it once.
LEMMA EachThresholdOnce ==
  ASSUME NEW b \in 0..15
  PROVE  OnceEach(Turned(b))
<1>1. \A m \in 0..15 : Reversed(m) \in 0..15
  BY ReversedTable
<1>2. \A m, n \in 0..15 : Reversed(m) = Reversed(n) => m = n
  BY ReversedTable
<1>3. \A r \in 0..15 : \E m \in 0..15 : Reversed(m) = r
  BY ReversedTable
<1>4. \A k \in 0..15 : /\ (b + k) % 16 \in 0..15
                       /\ (b + k) % 16 = IF b + k < 16 THEN b + k ELSE b + k - 16
  OBVIOUS
<1>5. \A m \in 0..15 : \E k \in 0..15 : (b + k) % 16 = m
  <2> SUFFICES ASSUME NEW m \in 0..15
               PROVE  \E k \in 0..15 : (b + k) % 16 = m
    OBVIOUS
  <2> DEFINE k == IF m >= b THEN m - b ELSE m - b + 16
  <2>1. k \in 0..15 /\ (b + k = m \/ b + k = m + 16)
    OBVIOUS
  <2>2. (b + k) % 16 = m
    BY <2>1
  <2> QED
    BY <2>1, <2>2
<1>6. \A i, j \in 0..15 : (b + i) % 16 = (b + j) % 16 => i = j
  BY <1>4
<1>7. \A k \in 0..15 : Turned(b)[k] = Reversed((b + k) % 16)
  BY DEF Turned
<1>8. Turned(b) \in [0..15 -> 0..15]
  BY <1>1, <1>4 DEF Turned
<1>9. ASSUME NEW i \in 0..15, NEW j \in 0..15, Turned(b)[i] = Turned(b)[j]
      PROVE  i = j
  <2>1. PICK m \in 0..15, n \in 0..15 : m = (b + i) % 16 /\ n = (b + j) % 16
    BY <1>4
  <2>2. Reversed(m) = Reversed(n)
    BY <1>7, <1>9, <2>1
  <2>3. m = n
    BY <1>2, <2>2
  <2> QED
    BY <1>6, <2>1, <2>3
<1>10. ASSUME NEW r \in 0..15
       PROVE  \E k \in 0..15 : Turned(b)[k] = r
  <2>1. PICK m \in 0..15 : Reversed(m) = r
    BY <1>3
  <2>2. PICK k \in 0..15 : (b + k) % 16 = m
    BY <1>5
  <2>3. Turned(b)[k] = r
    BY <1>7, <2>1, <2>2
  <2> QED
    BY <2>3
<1> QED
  BY <1>8, <1>9, <1>10 DEF OnceEach

\* The frame number wraps at a multiple of the period.
LEMMA NumberWraps ==
  ASSUME NEW n \in Int
  PROVE  /\ (n % Phases) % 16 = n % 16
         /\ \E a \in Int : n = (16 * a) + (n % Phases)
<1>1. PICK m \in Nat \ {0} : m = Phases /\ m % 16 = 0
  BY PeriodAssumption
<1>2. PICK c \in Int : m = 16 * c
  <2>1. m \div 16 \in Int /\ m = 16 * (m \div 16) + (m % 16)
    OBVIOUS
  <2> QED
    BY <1>1, <2>1
<1>3. PICK y \in Int, z \in Int : y = n \div m /\ z = n % m /\ n = (m * y) + z
  OBVIOUS
<1>4. PICK a \in Int : a = c * y
  OBVIOUS
<1>5. m * y = 16 * a
  BY <1>2, <1>4
<1>6. n = (16 * a) + z
  BY <1>3, <1>5
<1>7. z % 16 = n % 16
  BY <1>6
<1> QED
  BY <1>1, <1>3, <1>6, <1>7

\* What the remainder r of a value and the k-th threshold add to its code, in light.
Carry(o, t, r, k) == IF r + (((k * 2) + 1) * t) >= o THEN o ELSE 0

\* The light of the whole codes of n.
WholeOf(o, t, n, whole) == o = 32 * t /\ whole = (n \div o) * o

\* n rounded by the k-th threshold.
RoundsTo(o, t, n, k, whole, q) ==
  WholeOf(o, t, n, whole) /\ q = (n + (((k * 2) + 1) * t)) \div o

\* A value rounded by a threshold is its whole codes, and one more if the carry is.
LEMMA RoundedByThreshold ==
  ASSUME NEW t \in Nat \ {0}, NEW o \in Nat \ {0}, NEW n \in Nat, NEW k \in 0..15,
         NEW whole, NEW q, RoundsTo(o, t, n, k, whole, q)
  PROVE  q \in Int /\ q * o = whole + Carry(o, t, n - whole, k)
<1> USE DEF RoundsTo, WholeOf
<1>1. PICK w \in Nat : w = ((k * 2) + 1) * t /\ w < o
  <2>1. (k * 2) + 1 \in Int /\ (k * 2) + 1 <= 31 /\ 31 \in Int /\ t \in Nat
    OBVIOUS
  <2>2. ((k * 2) + 1) * t <= 31 * t
    BY <2>1, Times
  <2>3. ((k * 2) + 1) * t \in Nat
    OBVIOUS
  <2>4. PICK w \in Nat : w = ((k * 2) + 1) * t /\ w <= 31 * t
    BY <2>2, <2>3
  <2> QED
    BY <2>4
<1>2. PICK p \in Int : p = n \div o /\ p * o <= n /\ n <= (p * o) + o - 1
  <2>1. n \in Int
    OBVIOUS
  <2> QED
    BY <2>1, Quotients
<1>3. PICK e \in Int : e = (n + w) \div o /\ e * o <= n + w /\ n + w <= (e * o) + o - 1
  <2>1. n + w \in Int
    OBVIOUS
  <2> QED
    BY <2>1, Quotients
<1>4. e = p \/ e = p + 1
  <2>1. p <= e
    <3>1. p * o <= (e + 1) * o
      <4>1. PICK x \in Int, y \in Int : x = e * o /\ y = p * o
        OBVIOUS
      <4>2. y <= x + o
        BY <1>2, <1>3, <4>1
      <4>3. (e + 1) * o = x + o
        BY <4>1
      <4> QED
        BY <4>1, <4>2, <4>3
    <3>2. p # e + 1
      <4>1. ASSUME p = e + 1
            PROVE  FALSE
        <5>1. PICK x \in Int : x = e * o
          OBVIOUS
        <5>2. p * o = x + o
          BY <4>1, <5>1
        <5> QED
          BY <1>2, <1>3, <5>1, <5>2
      <4> QED
        BY <4>1
    <3>3. e + 1 \in Int /\ o \in Nat
      OBVIOUS
    <3>4. p <= e + 1
      BY <3>1, <3>3, Times
    <3> QED
      BY <3>2, <3>4
  <2>2. e <= p + 1
    <3>1. PICK x \in Int, y \in Int : x = e * o /\ y = p * o
      OBVIOUS
    <3>2. x <= y + o + o - 1
      BY <1>1, <1>2, <1>3, <3>1
    <3>3. (p + 2) * o = y + o + o
      BY <3>1
    <3>4. e * o <= (p + 2) * o /\ e * o # (p + 2) * o
      BY <3>1, <3>2, <3>3
    <3>5. p + 2 \in Int /\ o \in Nat
      OBVIOUS
    <3>6. e <= p + 2
      BY <3>4, <3>5, Times
    <3>7. e # p + 2
      BY <3>4
    <3> QED
      BY <3>6, <3>7
  <2> QED
    BY <2>1, <2>2
<1>5. PICK z \in Int : z = whole /\ z = p * o
  BY <1>2
<1>6. CASE e = p
  <2>1. n + w <= z + o - 1
    BY <1>3, <1>5, <1>6
  <2>2. Carry(o, t, n - z, k) = 0
    BY <1>1, <2>1 DEF Carry
  <2>3. e * o = z
    BY <1>5, <1>6
  <2> QED
    BY <1>1, <1>3, <1>5, <2>2, <2>3
<1>7. CASE e = p + 1
  <2>1. e * o = z + o
    <3>1. (p + 1) * o = (p * o) + o
      OBVIOUS
    <3> QED
      BY <1>5, <1>7, <3>1
  <2>2. z + o <= n + w
    BY <1>3, <2>1
  <2>3. Carry(o, t, n - z, k) = o
    BY <1>1, <2>2 DEF Carry
  <2> QED
    BY <1>1, <1>3, <1>5, <2>1, <2>3
<1> QED
  BY <1>4, <1>6, <1>7

\* Sixteen steps of which those from the m-th on are taken.
Steps(o, m) == [k \in 0..15 |-> IF k >= m THEN o ELSE 0]

LEMMA StepsTaken ==
  ASSUME NEW o \in Int, NEW m \in Nat, m <= 16
  PROVE  Sixteen(Steps(o, m)) = (16 - m) * o
<1> DEFINE c(k) == IF k >= m THEN o ELSE 0
<1>1. Sixteen(Steps(o, m))
        = c(0) + c(1) + c(2) + c(3) + c(4) + c(5) + c(6) + c(7)
            + c(8) + c(9) + c(10) + c(11) + c(12) + c(13) + c(14) + c(15)
  BY DEF Sixteen, Steps
<1>2. \/ m = 0 \/ m = 1 \/ m = 2 \/ m = 3 \/ m = 4 \/ m = 5 \/ m = 6 \/ m = 7 \/ m = 8
      \/ m = 9 \/ m = 10 \/ m = 11 \/ m = 12 \/ m = 13 \/ m = 14 \/ m = 15 \/ m = 16
  OBVIOUS
<1> QED
  BY <1>1, <1>2

\* The carries of a period are sixteen times the remainder, to half a step.
LEMMA CarriesOfPeriod ==
  ASSUME NEW t \in Nat \ {0}, NEW o \in Nat, o = 32 * t, NEW r \in 0..(o - 1)
  PROVE  LET carried == Sixteen([k \in 0..15 |-> Carry(o, t, r, k)])
         IN  /\ carried \in Int
             /\ 2 * (carried - (16 * r)) <= o /\ 2 * ((16 * r) - carried) <= o
<1>1. PICK s \in Nat, d \in Nat \ {0} : s = o - r /\ d = 2 * t /\ s <= 32 * t
  <2>1. o - r \in Nat /\ o - r <= 32 * t
    OBVIOUS
  <2>2. 2 * t \in Nat \ {0}
    OBVIOUS
  <2> QED
    BY <2>1, <2>2
\* The first threshold that carries is the m-th.
<1>2. PICK m \in Int, e \in Int : /\ m \in Nat /\ e = m * t
                                  /\ 2 * e <= s + t - 1 /\ s + t - 1 <= (2 * e) + (2 * t) - 1
  <2>1. PICK n \in Nat : n = s + t - 1
    OBVIOUS
  <2>2. PICK m \in Nat : m * d <= n /\ n <= (m * d) + d - 1
    <3>1. n \in Int /\ n >= 0
      BY <2>1
    <3>2. n \div d \in Nat /\ (n \div d) * d <= n /\ n <= ((n \div d) * d) + d - 1
      BY <3>1, Quotients
    <3> QED
      BY <3>2
  <2>3. PICK e \in Int : e = m * t
    OBVIOUS
  <2>4. m * d = 2 * e
    BY <1>1, <2>3
  <2>5. 2 * e <= n /\ n <= (2 * e) + d - 1
    BY <2>2, <2>4
  <2> QED
    BY <1>1, <2>1, <2>3, <2>5
<1>3. m \in 0..16
  <2>1. ASSUME m >= 17
        PROVE  FALSE
    <3>1. 17 \in Int /\ 17 <= m /\ m \in Int /\ t \in Nat
      BY <1>2, <2>1
    <3>2. PICK a \in Int : a = 17 /\ a <= m
      BY <3>1
    <3>3. a * t <= m * t
      BY <3>1, <3>2, Times
    <3>4. a * t = 17 * t
      BY <3>2
    <3>5. 17 * t <= e
      BY <1>2, <3>3, <3>4
    <3> QED
      BY <1>1, <1>2, <3>5
  <2> QED
    BY <1>2, <2>1
<1>4. ASSUME NEW k \in 0..15
      PROVE  Carry(o, t, r, k) = IF k >= m THEN o ELSE 0
  <2>1. PICK f \in Int : f = k * t
    OBVIOUS
  <2>2. ((k * 2) + 1) * t = (2 * f) + t
    BY <2>1
  <2>3. k >= m => f >= e
    <3>1. k \in Int /\ t \in Nat
      OBVIOUS
    <3>2. m <= k => m * t <= k * t
      BY <1>2, <3>1, Times
    <3> QED
      BY <1>2, <2>1, <3>2
  <2>4. k < m => f + t <= e
    <3>1. k + 1 \in Int /\ t \in Nat
      OBVIOUS
    <3>2. k + 1 <= m => (k + 1) * t <= m * t
      BY <1>2, <3>1, Times
    <3>3. (k + 1) * t = f + t
      BY <2>1
    <3> QED
      BY <1>2, <3>2, <3>3
  <2>5. r + (2 * f) + t >= o <=> k >= m
    BY <1>1, <1>2, <2>3, <2>4
  <2>6. Carry(o, t, r, k) = IF r + ((2 * f) + t) >= o THEN o ELSE 0
    BY <2>2 DEF Carry
  <2> QED
    BY <2>5, <2>6
<1>5. [k \in 0..15 |-> Carry(o, t, r, k)] = Steps(o, m)
  BY <1>4 DEF Steps
<1>6. Sixteen([k \in 0..15 |-> Carry(o, t, r, k)]) = (16 - m) * o
  <2>1. m \in Nat /\ m <= 16 /\ o \in Int
    BY <1>3
  <2>2. Sixteen(Steps(o, m)) = (16 - m) * o
    BY <2>1, StepsTaken
  <2> QED
    BY <1>5, <2>2
<1>7. (16 - m) * o = (512 * t) - (32 * e)
  BY <1>2
<1>8. PICK c \in Int : c = Sixteen([k \in 0..15 |-> Carry(o, t, r, k)]) /\ c = (512 * t) - (32 * e)
  BY <1>6, <1>7
<1>9. 2 * (c - (16 * r)) <= o /\ 2 * ((16 * r) - c) <= o
  BY <1>1, <1>2, <1>8
<1> QED
  BY <1>8, <1>9

\* Where an LED's sequence begins in frame number at, and the step of a threshold.
Begins(led, at, b, t) == b = (at + (led * 7)) % 16 /\ t = One \div 32

\* The threshold of an LED, k frames on: the sequence turned to where it begins.
LEMMA ThresholdTurned ==
  ASSUME NEW at \in Int, NEW led \in Int, NEW k \in 0..15, NEW b, NEW t, Begins(led, at, b, t)
  PROVE  /\ b \in 0..15
         /\ ThresholdFor(led, (at + k) % Phases) = ((Turned(b)[k] * 2) + 1) * t
<1> USE DEF Begins
<1>1. PICK m \in Int : m = at + (led * 7)
  OBVIOUS
<1>2. b = m % 16 /\ b \in 0..15
  BY <1>1
<1>3. PICK w \in Int, a \in Int : w = (at + k) % Phases /\ at + k = (16 * a) + w
  <2>1. PICK n \in Int : n = at + k
    OBVIOUS
  <2>2. PICK a \in Int : n = (16 * a) + (n % Phases)
    BY NumberWraps
  <2>3. n % Phases = n - (16 * a)
    <3>1. n % Phases \in Int
      BY PeriodAssumption
    <3> QED
      BY <2>2, <3>1
  <2> QED
    BY <2>1, <2>2, <2>3
<1>4. PICK n \in Int : n = w + (led * 7)
  OBVIOUS
<1>5. (n % Phases) % 16 = n % 16
  BY NumberWraps
<1>6. n % 16 = (b + k) % 16
  <2>1. n = m + k - (16 * a)
    BY <1>1, <1>3, <1>4
  <2>2. PICK c \in Int : m = (16 * c) + b
    BY <1>2
  <2>3. n = (16 * (c - a)) + (b + k)
    BY <1>2, <2>1, <2>2
  <2> QED
    BY <1>2, <2>3
<1>7. ThresholdFor(led, w) = ((Reversed(n % 16) * 2) + 1) * t
  <2>1. Period = 16 /\ Period * 2 = 32
    BY PeriodAssumption
  <2> QED
    BY <1>4, <1>5, <2>1 DEF ThresholdFor
<1>8. Turned(b)[k] = Reversed((b + k) % 16)
  BY DEF Turned
<1> QED
  BY <1>2, <1>3, <1>6, <1>7, <1>8

\* The codes of n, light times full code, by each threshold.
RoundedTo(o, t, n) == [k \in 0..15 |-> (n + (((k * 2) + 1) * t)) \div o]

\* What each threshold adds.
Carries(o, t, r) == [k \in 0..15 |-> Carry(o, t, r, k)]

\* Every code is the whole codes and its carry.
CodesCarry(o, w, q, f) ==
  \A k \in 0..15 : q[k] \in Int /\ f[k] \in Int /\ q[k] * o = w + f[k]

\* w is the light of the whole codes of n and r what is left of it; q are the
\* codes of n in a period, f the carries.
CodedSo(o, t, n, w, r, q, f) ==
  WholeOf(o, t, n, w) /\ r = n - w /\ q = RoundedTo(o, t, n) /\ f = Carries(o, t, r)

LEMMA CodesAndCarries ==
  ASSUME NEW n \in Nat, NEW t \in Nat \ {0}, NEW o \in Nat \ {0}, NEW w \in Int, NEW r,
         NEW q, NEW f, CodedSo(o, t, n, w, r, q, f)
  PROVE  CodesCarry(o, w, q, f)
<1> USE DEF CodedSo
<1>1. ASSUME NEW k \in 0..15
      PROVE  q[k] \in Int /\ f[k] \in Int /\ q[k] * o = w + f[k]
  <2>1. PICK e : e = (n + (((k * 2) + 1) * t)) \div o /\ q[k] = e
    BY DEF RoundedTo
  <2>2. RoundsTo(o, t, n, k, w, e)
    BY <2>1 DEF RoundsTo
  <2>3. e \in Int /\ e * o = w + Carry(o, t, n - w, k)
    BY <2>2, RoundedByThreshold
  <2>4. f[k] = Carry(o, t, n - w, k)
    BY DEF Carries
  <2>5. Carry(o, t, n - w, k) \in Int
    BY DEF Carry
  <2> QED
    BY <2>1, <2>3, <2>4, <2>5
<1> QED
  BY <1>1 DEF CodesCarry

\* So is the sum of the codes.
LEMMA SumOfCodes ==
  ASSUME NEW q \in [0..15 -> Int], NEW f \in [0..15 -> Int], NEW o \in Int, NEW w \in Int,
         CodesCarry(o, w, q, f)
  PROVE  /\ SumOf(q) \in Int /\ SumOf(f) \in Int
         /\ o * SumOf(q) = (16 * w) + SumOf(f)
<1> DEFINE D == 0..15
<1>1. IsFiniteSet(D) /\ Cardinality(D) = 16
  <2>1. PICK m \in Int, n \in Int : m = 0 /\ n = 15
    OBVIOUS
  <2>2. IsFiniteSet(m..n) /\ Cardinality(m..n) = IF m > n THEN 0 ELSE n - m + 1
    BY FS_Interval
  <2> QED
    BY <2>1, <2>2
<1>2. q \in [D -> Int] /\ f \in [D -> Int]
  OBVIOUS
<1>3. \A k \in D : q[k] \in Int /\ f[k] \in Int /\ q[k] * o = w + f[k]
  BY DEF CodesCarry
<1> HIDE DEF D
<1>4. PICK x \in Int, y \in Int : x = SumOf(q) /\ y = SumOf(f)
  BY <1>1, <1>2, SumType
<1>5. PICK p \in Int, m \in Int, u \in Int, v \in Int : p = 1 /\ m = -1 /\ u = -o /\ v = -w
  OBVIOUS
<1>6. \A k \in D : o * q[k] <= (p * f[k]) + w /\ u * q[k] <= (m * f[k]) + v
  <2>1. ASSUME NEW k \in D
        PROVE  o * q[k] <= (p * f[k]) + w /\ u * q[k] <= (m * f[k]) + v
    <3>1. PICK a \in Int, c \in Int : a = q[k] /\ c = f[k] /\ a * o = w + c
      BY <1>3
    <3>2. p * c = c /\ m * c = -c /\ o * a = a * o /\ u * a = -(a * o)
      BY <1>5
    <3>3. o * a <= (p * c) + w /\ u * a <= (m * c) + v
      BY <1>5, <3>1, <3>2
    <3> QED
      BY <3>1, <3>3
  <2> QED
    BY <2>1
<1>7. o * SumOf(q) <= (p * SumOf(f)) + (w * Cardinality(D))
  BY <1>1, <1>2, <1>6, SumBound
<1>8. u * SumOf(q) <= (m * SumOf(f)) + (v * Cardinality(D))
  BY <1>1, <1>2, <1>6, SumBound
<1>9. o * x <= (p * y) + (w * 16) /\ u * x <= (m * y) + (v * 16)
  BY <1>1, <1>4, <1>7, <1>8
<1>10. p * y = y /\ m * y = -y /\ u * x = -(o * x) /\ v * 16 = -(w * 16)
  BY <1>5
<1>11. PICK z \in Int : z = o * x
  OBVIOUS
<1>12. z <= y + (w * 16) /\ -z <= -y - (w * 16)
  BY <1>9, <1>10, <1>11
<1> QED
  BY <1>4, <1>11, <1>12

\* The codes of a period of a dithered channel, in light, are the light that was
\* asked for, to half a code.
LEMMA PeriodOfCodes ==
  ASSUME NEW n \in Nat, NEW t \in Nat \ {0}, NEW o \in Nat \ {0}, o = 32 * t,
         NEW q, q = RoundedTo(o, t, n)
  PROVE  /\ q \in [0..15 -> Int] /\ SumOf(q) \in Int
         /\ 2 * ((o * SumOf(q)) - (16 * n)) <= o /\ 2 * ((16 * n) - (o * SumOf(q))) <= o
<1>1. PICK w \in Int, r \in 0..(o - 1) : w = (n \div o) * o /\ r = n - w /\ n = w + r
  <2>1. n \in Int
    OBVIOUS
  <2>2. n \div o \in Int /\ (n \div o) * o <= n /\ n <= ((n \div o) * o) + o - 1
    BY <2>1, Quotients
  <2>3. PICK w \in Int : w = (n \div o) * o
    BY <2>2
  <2>4. n - w \in 0..(o - 1) /\ n = w + (n - w)
    BY <2>2, <2>3
  <2> QED
    BY <2>3, <2>4
<1>2. PICK f : f = Carries(o, t, r)
  OBVIOUS
<1>3. CodesCarry(o, w, q, f)
  <2>1. CodedSo(o, t, n, w, r, q, f)
    BY <1>1, <1>2 DEF CodedSo, WholeOf
  <2> QED
    BY <2>1, CodesAndCarries
<1>4. q \in [0..15 -> Int]
  BY <1>3 DEF RoundedTo, CodesCarry
<1>5. f \in [0..15 -> Int]
  BY <1>2, <1>3 DEF Carries, CodesCarry
<1>6. PICK c \in Int : c = SumOf(f) /\ 2 * (c - (16 * r)) <= o /\ 2 * ((16 * r) - c) <= o
  <2>1. SumOf(f) = Sixteen(f)
    BY <1>5, SumOfSixteen
  <2>2. PICK c \in Int : c = Sixteen(f) /\ 2 * (c - (16 * r)) <= o /\ 2 * ((16 * r) - c) <= o
    BY <1>2, CarriesOfPeriod DEF Carries
  <2> QED
    BY <2>1, <2>2
<1>7. PICK x \in Int : x = SumOf(q) /\ o * x = (16 * w) + c
  <2>1. o \in Int
    OBVIOUS
  <2>2. SumOf(q) \in Int /\ o * SumOf(q) = (16 * w) + SumOf(f)
    BY <1>3, <1>4, <1>5, <2>1, SumOfCodes
  <2> QED
    BY <1>6, <2>2
<1>8. PICK p \in Int : p = o * x
  OBVIOUS
<1>9. 16 * n = (16 * w) + (16 * r)
  BY <1>1
<1>10. 2 * (p - (16 * n)) <= o /\ 2 * ((16 * n) - p) <= o
  BY <1>6, <1>7, <1>8, <1>9
<1> QED
  BY <1>4, <1>7, <1>8, <1>10

\* The codes of light x of an LED in the sixteen frames from frame number at on.
PeriodFrom(x, led, at) == [k \in 0..15 |-> CodeOf(x, ThresholdFor(led, (at + k) % Phases))]

\* They are the codes of x by each threshold, in another order.
LEMMA CodesTurned ==
  ASSUME NEW x \in 0..One, NEW led \in Int, NEW at \in Int, NEW t \in Nat \ {0}, One = 32 * t,
         NEW n \in Nat, n = x * FullCode, NEW b, b = (at + (led * 7)) % 16
  PROVE  /\ b \in 0..15
         /\ \A k \in 0..15 : PeriodFrom(x, led, at)[k] = RoundedTo(One, t, n)[Turned(b)[k]]
<1>1. t = One \div 32
  <2>1. (32 * t) \div 32 = t
    OBVIOUS
  <2> QED
    BY <2>1
<1>2. b \in 0..15
  <2>1. at + (led * 7) \in Int
    OBVIOUS
  <2> QED
    BY <2>1
<1>3. ASSUME NEW k \in 0..15
      PROVE  PeriodFrom(x, led, at)[k] = RoundedTo(One, t, n)[Turned(b)[k]]
  <2>1. PICK m \in 0..15 : m = Turned(b)[k]
    BY <1>2, EachThresholdOnce DEF OnceEach
  <2>2. ThresholdFor(led, (at + k) % Phases) = ((m * 2) + 1) * t
    <3>1. Begins(led, at, b, t)
      BY <1>1 DEF Begins
    <3>2. ThresholdFor(led, (at + k) % Phases) = ((Turned(b)[k] * 2) + 1) * t
      BY <3>1, ThresholdTurned
    <3> QED
      BY <2>1, <3>2
  <2>3. PICK r \in Int : r = ((m * 2) + 1) * t /\ r \in 0..(One - 1)
    <3>1. (m * 2) + 1 \in Int /\ 31 \in Int /\ t \in Nat /\ (m * 2) + 1 <= 31
      OBVIOUS
    <3>2. PICK c \in Int, d \in Int : c = (m * 2) + 1 /\ d = 31 /\ c <= d
      BY <3>1
    <3>3. c * t <= d * t
      BY <3>1, <3>2, Times
    <3>4. PICK r \in Nat : r = c * t
      BY <3>2
    <3>5. d * t = 31 * t
      BY <3>2
    <3>6. r <= 31 * t
      BY <3>3, <3>4, <3>5
    <3>7. r <= One - 1
      BY <3>6
    <3> QED
      BY <3>2, <3>4, <3>7, ScaleAssumption
  <2>4. CodeOf(x, r) = ((x * FullCode) + r) \div One
    BY <2>3, Code
  <2>5. PeriodFrom(x, led, at)[k] = CodeOf(x, r)
    BY <2>2, <2>3 DEF PeriodFrom
  <2>6. RoundedTo(One, t, n)[m] = (n + (((m * 2) + 1) * t)) \div One
    BY DEF RoundedTo
  <2> QED
    BY <2>1, <2>3, <2>4, <2>5, <2>6
<1> QED
  BY <1>2, <1>3

\* Light of an LED, over the sixteen frames from any frame number on.
LEMMA EvenOverPeriod ==
  ASSUME NEW x \in 0..One, NEW led \in Int, NEW at \in Int,
         NEW total, total = SumOf(PeriodFrom(x, led, at))
  PROVE  /\ 2 * ((One * total) - (16 * x * FullCode)) <= One
         /\ 2 * ((16 * x * FullCode) - (One * total)) <= One
<1>1. PICK t \in Nat \ {0}, o \in Nat \ {0} : One = 32 * t /\ o = 32 * t /\ o = One
  <2>1. One \in Nat \ {0} /\ Period = 16 /\ 2 * Period = 32
    BY ScaleAssumption, PeriodAssumption
  <2>2. One % 32 = 0
    BY <2>1, PeriodAssumption
  <2>3. One \div 32 \in Nat /\ One = 32 * (One \div 32) /\ One \div 32 # 0
    BY <2>1, <2>2
  <2> QED
    BY <2>1, <2>3
<1>2. PICK n \in Nat : n = x * FullCode
  <2>1. x \in Nat /\ FullCode \in Nat
    BY ScaleAssumption
  <2> QED
    BY <2>1
<1>3. PICK b : b = (at + (led * 7)) % 16
  OBVIOUS
<1>4. PICK p, q, f : p = PeriodFrom(x, led, at) /\ q = RoundedTo(One, t, n) /\ f = Turned(b)
  OBVIOUS
<1>5. b \in 0..15 /\ \A k \in 0..15 : p[k] = q[f[k]]
  BY <1>1, <1>2, <1>3, <1>4, CodesTurned
<1>6. /\ q \in [0..15 -> Int] /\ SumOf(q) \in Int
      /\ 2 * ((o * SumOf(q)) - (16 * n)) <= o /\ 2 * ((16 * n) - (o * SumOf(q))) <= o
  BY <1>1, <1>4, PeriodOfCodes
<1>7. /\ f \in [0..15 -> 0..15]
      /\ \A i, j \in 0..15 : f[i] = f[j] => i = j
      /\ \A r \in 0..15 : \E k \in 0..15 : f[k] = r
  <2>1. OnceEach(f)
    BY <1>4, <1>5, EachThresholdOnce
  <2> QED
    BY <2>1 DEF OnceEach
<1>8. p \in [0..15 -> Int]
  BY <1>4, <1>5, <1>6, <1>7 DEF PeriodFrom
<1>9. SumOf(p) = SumOf(q)
  <2>1. PICK D : D = 0..15
    OBVIOUS
  <2>2. IsFiniteSet(D)
    <3>1. PICK m \in Int, k \in Int : m = 0 /\ k = 15
      OBVIOUS
    <3> QED
      BY <2>1, <3>1, FS_Interval
  <2>3. /\ p \in [D -> Int] /\ q \in [D -> Int] /\ f \in [D -> D]
        /\ \A i \in D : p[i] = q[f[i]]
        /\ \A i, j \in D : f[i] = f[j] => i = j
        /\ \A k \in D : \E i \in D : f[i] = k
    BY <1>5, <1>6, <1>7, <1>8, <2>1
  <2> QED
    BY <2>2, <2>3, SumRenamed
<1>10. PICK y \in Int : y = total /\ y = SumOf(q)
  BY <1>4, <1>6, <1>9
<1>11. 16 * x * FullCode = 16 * n
  <2>1. x \in Int /\ FullCode \in Int
    BY ScaleAssumption
  <2> QED
    BY <1>2, <2>1
<1>12. 2 * ((o * y) - (16 * n)) <= o /\ 2 * ((16 * n) - (o * y)) <= o
  BY <1>6, <1>10
<1> QED
  BY <1>1, <1>10, <1>11, <1>12

-----------------------------------------------------------------------------
(* The show.                                                                *)

\* What Show writes down of a frame: its codes, what they draw, its factor.
Sent(frame, level, at) ==
  /\ codes = Coded(supply, dither, frame, level, at)
  /\ report = [draw |-> DrawnBy(supply, codes),
               derated |-> DeratedBy(supply, frame, Clamped(level, One))]

\* The codes on the strip are those of the frame that was rendered last, at the
\* brightness and the frame number it was sent with.
OutInv ==
  /\ brightness \in Brightnesses /\ supply \in Supplies \cup {NoSupply}
  /\ dither \in BOOLEAN /\ phase \in 0..(Phases - 1)
  /\ \/ linear = <<>> /\ codes = <<>> /\ report = [draw |-> 0, derated |-> One]
     \/ linear \in Frames /\ \E at \in 0..(Phases - 1) : Sent(linear, brightness, at)

\* encode writes those codes whenever a frame is shown, and nothing else changes
\* them (output.rs, encode).
THEOREM OutInvariant == Spec => []OutInv
<1>1. Init => OutInv
  BY DEF Init, OutInv
<1>2. OutInv /\ [Next]_vars => OutInv'
  <2> SUFFICES ASSUME OutInv, [Next]_vars
               PROVE  OutInv'
    OBVIOUS
  <2>1. CASE UNCHANGED vars
    BY <2>1 DEF vars, OutInv, Sent
  <2>2. ASSUME NEW frame \in Frames, NEW level \in Brightnesses, Show(frame, level)
        PROVE  OutInv'
    <3>1. phase \in 0..(Phases - 1) /\ phase' \in 0..(Phases - 1)
      BY <2>2, PeriodAssumption DEF OutInv, Show
    <3>2. codes' = Coded(supply, dither, frame, level, phase)
      BY <2>2 DEF Show, Encode, Coded, ScaleOf, Derated, DeratedBy
    <3>3. report' = [draw |-> DrawnBy(supply, codes'),
                     derated |-> DeratedBy(supply, frame, Clamped(level, One))]
      BY <2>2 DEF Show, DrawOf, DrawnBy, DrawsOf, Derated, DeratedBy
    <3>4. linear' = frame /\ brightness' = level /\ UNCHANGED <<supply, dither>>
      BY <2>2 DEF Show
    <3>5. Sent(linear, brightness, phase)'
          <=> /\ codes' = Coded(supply', dither', linear', brightness', phase')
              /\ report' = [draw |-> DrawnBy(supply', codes'),
                            derated |-> DeratedBy(supply', linear', Clamped(brightness', One))]
      BY DEF Sent
    <3>6. linear' \in Frames /\ \E at \in 0..(Phases - 1) : Sent(linear, brightness, at)'
      BY <3>1, <3>2, <3>3, <3>4 DEF Sent
    <3> QED
      BY <2>2, <3>1, <3>4, <3>6 DEF OutInv
  <2> QED
    BY <2>1, <2>2 DEF Next
<1> QED
  BY <1>1, <1>2, PTL DEF Spec

\* What is known of a frame that was sent.
LEMMA FrameSent ==
  ASSUME OutInv, linear \in Frames
  PROVE  /\ linear \in Seq(Int) /\ brightness \in Int /\ supply \in Supplies \cup {NoSupply}
         /\ dither \in BOOLEAN
  BY InputsAssumption DEF OutInv

\* A code never leaves the range of a byte, nor the factor that of a fraction.
THEOREM TypeCorrect == Spec => []TypeOK
<1>1. OutInv => TypeOK
  <2> SUFFICES ASSUME OutInv
               PROVE  TypeOK
    OBVIOUS
  <2>1. CASE linear = <<>> /\ codes = <<>> /\ report = [draw |-> 0, derated |-> One]
    <3>1. linear \in Seq(Int) /\ codes \in [DOMAIN linear -> 0..FullCode]
      BY <2>1
    <3>2. report.draw \in Nat /\ report.derated \in 0..One
      BY <2>1, ScaleAssumption
    <3> QED
      BY <3>1, <3>2 DEF OutInv, TypeOK
  <2>2. ASSUME linear \in Frames, NEW at \in 0..(Phases - 1), Sent(linear, brightness, at)
        PROVE  TypeOK
    <3>1. /\ linear \in Seq(Int) /\ brightness \in Int /\ supply \in Supplies \cup {NoSupply}
          /\ dither \in BOOLEAN
      BY <2>2, FrameSent
    <3>2. at \in Nat
      BY PeriodAssumption
    <3>3. codes \in [DOMAIN linear -> 0..FullCode] /\ report.draw \in Nat
      BY <2>2, <3>1, <3>2, CodedType DEF Sent
    <3>4. report.derated \in 0..One
      BY <2>2, <3>1, ScaleType DEF Sent
    <3> QED
      BY <3>1, <3>3, <3>4 DEF OutInv, TypeOK
  <2> QED
    BY <2>1, <2>2 DEF OutInv
<1> QED
  BY <1>1, OutInvariant, PTL

\* An undithered frame on a device with a supply.
LEMMA BudgetedFrame ==
  ASSUME OutInv, supply # NoSupply, ~dither
  PROVE  /\ WithinSupply
         /\ NoDimmerThanNeeded
<1>1. supply \in Supplies /\ dither = FALSE
  BY DEF OutInv
<1>2. CASE linear = <<>> /\ codes = <<>> /\ report = [draw |-> 0, derated |-> One]
  <2>1. One \in Nat \ {0}
    BY ScaleAssumption
  <2>2. linear \in Seq(Int) /\ Len(linear) = 0 /\ 0 \in 0..One
    BY <1>2, <2>1
  <2>3. PICK i \in Nat, r \in Nat, l \in Nat, b \in Nat :
          /\ i = IdleDraw(linear, supply) /\ r = Reserve(linear, supply)
          /\ l = supply.channel \div One /\ b = supply.budget
    BY <1>1, <2>2, FrameFactor, Prices
  <2>4. PricingLoss(linear, supply) = 0
    <3>1. PricingLoss(linear, supply) = 0 * (l + 2)
      BY <2>2, <2>3 DEF PricingLoss
    <3> QED
      BY <3>1
  <2>5. PICK m \in Nat : m = SupplyFor(linear)
    <3>1. b \in Int /\ i \in Int
      OBVIOUS
    <3>2. SupplyFor(linear) = IF b >= i THEN b ELSE i
      BY <2>3, <3>1, MaxMin DEF SupplyFor
    <3> QED
      BY <3>2
  <2>6. report.draw = 0 /\ report.derated = One
    BY <1>2
  <2>7. WithinSupply
    <3>1. 0 <= m + 0 + r
      OBVIOUS
    <3> QED
      BY <2>3, <2>4, <2>5, <2>6, <3>1 DEF WithinSupply
  <2>8. NoDimmerThanNeeded
    BY <2>1, <2>6 DEF NoDimmerThanNeeded
  <2> QED
    BY <2>7, <2>8
<1>3. ASSUME linear \in Frames, NEW at \in 0..(Phases - 1), Sent(linear, brightness, at)
      PROVE  WithinSupply /\ NoDimmerThanNeeded
  <2>1. /\ linear \in Seq(Int) /\ brightness \in Int /\ at \in Nat
        /\ codes = Coded(supply, FALSE, linear, brightness, at)
        /\ report.derated = DeratedBy(supply, linear, Clamped(brightness, One))
        /\ report.draw = DrawnBy(supply, Coded(supply, FALSE, linear, brightness, at))
    <3>1. linear \in Seq(Int) /\ brightness \in Int
      BY <1>3, FrameSent
    <3>2. at \in Nat
      BY PeriodAssumption
    <3>3. /\ codes = Coded(supply, dither, linear, brightness, at)
          /\ report.draw = DrawnBy(supply, codes)
          /\ report.derated = DeratedBy(supply, linear, Clamped(brightness, One))
      BY <1>3 DEF Sent
    <3> QED
      BY <1>1, <3>1, <3>2, <3>3, Zenon
  <2>2. PICK frame \in Seq(Int), level \in Int, p \in Supplies :
          frame = linear /\ level = brightness /\ p = supply
    BY <1>1, <2>1
  <2>3. PICK f, draw, idle, r, loss :
          /\ f = DeratedBy(p, frame, Clamped(level, One))
          /\ draw = DrawnBy(p, Coded(p, FALSE, frame, level, at))
          /\ idle = IdleDraw(frame, p) /\ r = Reserve(frame, p)
          /\ loss = Len(frame) * ((p.channel \div One) + 2)
    OBVIOUS
  <2>4. /\ draw <= Max({p.budget, idle}) + loss + (IF f = One THEN r ELSE 0)
        /\ f \in 1..(One - 1) => draw + (2 * r) + (3 * loss) >= p.budget
    BY <2>1, <2>3, FrameBudget
  <2>5. /\ report.draw = draw /\ report.derated = f /\ SupplyFor(linear) = Max({p.budget, idle})
        /\ PricingLoss(linear, supply) = loss /\ Reserve(linear, supply) = r
        /\ supply.budget = p.budget
    BY <2>1, <2>2, <2>3 DEF SupplyFor, PricingLoss
  <2>6. WithinSupply
    BY <2>4, <2>5 DEF WithinSupply
  <2>7. NoDimmerThanNeeded
    BY <2>4, <2>5 DEF NoDimmerThanNeeded
  <2> QED
    BY <2>6, <2>7
<1> QED
  BY <1>2, <1>3 DEF OutInv

\* No undithered frame draws more than its supply gives, whatever the frame, the
\* supply and the brightness (output.rs, the supply and its reserve).
THEOREM FitsSupply == Spec => []WithinSupply
<1>1. OutInv => WithinSupply
  BY BudgetedFrame DEF WithinSupply
<1> QED
  BY <1>1, OutInvariant, PTL

\* Nor is one derated further than the supply calls for.
THEOREM BrightEnough == Spec => []NoDimmerThanNeeded
<1>1. OutInv => NoDimmerThanNeeded
  BY BudgetedFrame DEF NoDimmerThanNeeded
<1> QED
  BY <1>1, OutInvariant, PTL

\* Dimming and derating, dithered or not, keep the colours of any frame (output.rs,
\* encode: one threshold for the three channels of an LED).
THEOREM HueKept == Spec => []HueHolds
<1>1. OutInv => HueHolds
  <2> SUFFICES ASSUME OutInv, NEW i \in DOMAIN linear, NEW j \in DOMAIN linear
               PROVE  /\ ~dither => RatioKept(i, j)
                      /\ (Pixel(i) = Pixel(j) /\ linear[i] <= linear[j]) =>
                           /\ codes[i] <= codes[j]
                           /\ (linear[j] - linear[i]) * FullCode < One => codes[j] <= codes[i] + 1
    BY DEF HueHolds
  <2>1. linear # <<>>
    OBVIOUS
  <2>2. PICK at \in 0..(Phases - 1) : linear \in Frames /\ Sent(linear, brightness, at)
    BY <2>1 DEF OutInv
  <2>3. PICK frame \in Seq(Int), level \in Int, p \in Supplies \cup {NoSupply}, d \in BOOLEAN :
          frame = linear /\ level = brightness /\ p = supply /\ d = dither
    BY <2>2, FrameSent
  <2>4. at \in Nat /\ i \in DOMAIN frame /\ j \in DOMAIN frame
        /\ codes = Coded(p, d, frame, level, at)
    BY <2>2, <2>3, PeriodAssumption DEF Sent
  <2>5. PICK c, e : c = Coded(p, d, frame, level, at)[i] /\ e = Coded(p, d, frame, level, at)[j]
    OBVIOUS
  <2>6. codes[i] = c /\ codes[j] = e
    BY <2>4, <2>5
  <2>7. ASSUME ~dither
        PROVE  RatioKept(i, j)
    <3>1. PICK a, b : a = Clamped(frame[i], One) /\ b = Clamped(frame[j], One)
      OBVIOUS
    <3>2. d = FALSE
      BY <2>3, <2>7
    <3>3. c = Coded(p, FALSE, frame, level, at)[i] /\ e = Coded(p, FALSE, frame, level, at)[j]
      BY <2>5, <3>2
    <3>4. 2 * One * ((c * b) - (e * a)) <= (a + b) * (One + (2 * FullCode))
      BY <2>4, <3>1, <3>3, FrameRatio
    <3>5. a = Clamped(linear[i], One) /\ b = Clamped(linear[j], One)
      BY <2>3, <3>1
    <3> QED
      BY <2>6, <3>4, <3>5, Zenon DEF RatioKept
  <2>8. ASSUME Pixel(i) = Pixel(j), linear[i] <= linear[j]
        PROVE  /\ codes[i] <= codes[j]
               /\ (linear[j] - linear[i]) * FullCode < One => codes[j] <= codes[i] + 1
    <3>1. frame[i] <= frame[j]
      BY <2>3, <2>8
    <3>2. c <= e /\ ((frame[j] - frame[i]) * FullCode < One => e <= c + 1)
      BY <2>4, <2>5, <2>8, <3>1, FrameHue
    <3> QED
      BY <2>3, <2>6, <3>2
  <2> QED
    BY <2>7, <2>8
<1> QED
  BY <1>1, OutInvariant, PTL

\* Whatever light an LED is sent on a device without a supply, over any sixteen
\* consecutive frames a dithered channel gives it, to half a code of one frame, also
\* where the frame number wraps (output.rs, threshold_for).
THEOREM DitherEven == Spec => []DitherAverages
<1>1. OutInv => DitherAverages
  <2> SUFFICES ASSUME OutInv, dither, linear # <<>>, supply = NoSupply, NEW i \in DOMAIN linear,
                      NEW total, total = SumOf([k \in 0..(Period - 1) |->
                                                  Encode(linear, brightness, (phase + k) % Phases)[i]])
               PROVE  LET wanted == Period * Scaled(linear[i], Clamped(brightness, One)) * FullCode
                      IN  2 * ((One * total) - wanted) <= One /\ 2 * (wanted - (One * total)) <= One
    BY DEF DitherAverages
  <2>1. /\ linear \in Seq(Int) /\ brightness \in Int /\ phase \in Int
        /\ One \in Nat \ {0} /\ Period = 16 /\ Period - 1 = 15
    <3>1. linear \in Frames
      BY DEF OutInv
    <3>2. linear \in Seq(Int) /\ brightness \in Int
      BY <3>1, FrameSent
    <3>3. phase \in Int /\ Period = 16 /\ Period - 1 = 15
      BY PeriodAssumption DEF OutInv
    <3> QED
      BY <3>2, <3>3, ScaleAssumption
  <2>2. PICK w \in 0..One : w = Clamped(brightness, One)
    BY <2>1, ClampedValue
  <2>3. (w * One) \div One = w
    <3>1. PICK o \in Nat \ {0}, v \in Nat : o = One /\ v = w
      BY <2>1
    <3>2. (v * o) \div o = v
      OBVIOUS
    <3> QED
      BY <3>1, <3>2
  <2>4. PICK x \in 0..One : x = Scaled(linear[i], w)
    <3>1. linear[i] \in Int /\ One \in Nat
      BY <2>1
    <3>2. PICK a \in 0..One : a = Clamped(linear[i], One)
      BY <3>1, ClampedValue
    <3>3. a <= a
      BY <2>1
    <3>4. (a * w) \div One \in 0..One
      BY <3>3, Dimmed
    <3> QED
      BY <3>2, <3>4 DEF Scaled
  <2>5. PICK led \in Int : led = Pixel(i)
    <3>1. i \in Int
      BY <2>1
    <3> QED
      BY <3>1 DEF Pixel, CHANNELS
  <2>6. ASSUME NEW at
        PROVE  Encode(linear, brightness, at)[i] = CodeOf(x, ThresholdFor(led, at))
    BY <2>2, <2>3, <2>4, <2>5 DEF Encode, Derated, Rounding
  <2>7. total = SumOf(PeriodFrom(x, led, phase))
    <3>1. [k \in 0..15 |-> Encode(linear, brightness, (phase + k) % Phases)[i]]
            = PeriodFrom(x, led, phase)
      BY <2>6 DEF PeriodFrom
    <3> QED
      BY <2>1, <3>1
  <2>8. /\ 2 * ((One * total) - (16 * x * FullCode)) <= One
        /\ 2 * ((16 * x * FullCode) - (One * total)) <= One
    BY <2>1, <2>7, EvenOverPeriod
  <2> QED
    BY <2>1, <2>2, <2>4, <2>8
<1> QED
  BY <1>1, OutInvariant, PTL
=============================================================================
