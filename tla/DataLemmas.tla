------------------------------ MODULE DataLemmas ----------------------------
(***************************************************************************)
(* Facts the proofs of several modules rest on: least and greatest         *)
(* elements, and what the operators of Tables compute for tables of any    *)
(* length.  LeastNat is also how those proofs do induction: a claim about  *)
(* every natural number is refuted at a least counterexample.              *)
(***************************************************************************)
EXTENDS Tables, FiniteSetsExt, FiniteSetTheorems, WellFoundedInduction, TLAPS

Below == {p \in Nat \X Nat : p[1] < p[2]}

(* The order of the natural numbers is well founded.                       *)
LEMMA BelowWellFounded == IsWellFoundedOn(Below, Nat)
<1>1. Below = OpToRel(<, Nat)
  BY Zenon DEF Below, OpToRel
<1> QED  BY <1>1, NatLessThanWellFounded

(* Every nonempty set of natural numbers has a least element.              *)
LEMMA LeastNat ==
  ASSUME NEW T, T \subseteq Nat, T # {}
  PROVE  \E m \in T : \A k \in T : m <= k
<1>1. PICK m \in T : \A k \in T : ~ (<<k, m>> \in Below)
  BY WFMin, BelowWellFounded
<1>2. ASSUME NEW k \in T, k < m PROVE FALSE
  <2> DEFINE p == <<k, m>>
  <2>1. p \in Nat \X Nat /\ p[1] < p[2]
    BY <1>2
  <2>2. p \in Below
    BY <2>1, Zenon DEF Below
  <2> QED  BY <1>1, <2>2
<1>3. \A k \in T : m <= k
  BY <1>2
<1> QED  BY <1>3

(* Every nonempty set of natural numbers with an upper bound has a         *)
(* greatest element.                                                       *)
LEMMA GreatestNat ==
  ASSUME NEW n \in Nat, NEW T, T \subseteq 0..n, T # {}
  PROVE  \E m \in T : \A k \in T : k <= m
<1> DEFINE U == {i \in 0..n : n - i \in T}
<1>1. U \subseteq Nat
  OBVIOUS
<1>2. U # {}
  <2>1. PICK t \in T : TRUE
    OBVIOUS
  <2>2. t \in 0..n /\ n - t \in 0..n /\ n - (n - t) = t
    BY <2>1
  <2>3. n - t \in U
    BY <2>1, <2>2
  <2> QED  BY <2>3
<1>3. PICK u \in U : \A v \in U : u <= v
  BY <1>1, <1>2, LeastNat
<1>4. ASSUME NEW k \in T PROVE k <= n - u
  <2>1. k \in 0..n /\ n - k \in 0..n /\ n - (n - k) = k
    OBVIOUS
  <2>2. n - k \in U
    BY <2>1
  <2>3. u <= n - k
    BY <1>3, <2>2
  <2> QED  BY <2>1, <2>3
<1> QED  BY <1>3, <1>4

(* Min picks the least element of a nonempty set of natural numbers.       *)
LEMMA MinNat ==
  ASSUME NEW T, T \subseteq Nat, T # {}
  PROVE  Min(T) \in T /\ \A k \in T : Min(T) <= k
<1>1. \E m \in T : \A k \in T : m <= k
  BY LeastNat
<1> QED  BY <1>1 DEF Min

(* Max picks the greatest element of a bounded nonempty set of naturals.   *)
LEMMA MaxNat ==
  ASSUME NEW n \in Nat, NEW T, T \subseteq 0..n, T # {}
  PROVE  Max(T) \in T /\ \A k \in T : k <= Max(T)
<1>1. \E m \in T : \A k \in T : k <= m
  BY GreatestNat
<1>2. \E m \in T : \A k \in T : m >= k
  BY <1>1
<1>3. Max(T) \in T /\ \A k \in T : Max(T) >= k
  BY <1>2 DEF Max
<1> QED  BY <1>3

(* Min and Max of two integers.                                            *)
LEMMA MinTwo ==
  ASSUME NEW a \in Int, NEW b \in Int
  PROVE  Min({a, b}) = IF a <= b THEN a ELSE b
<1>1. \E m \in {a, b} : \A k \in {a, b} : m <= k
  OBVIOUS
<1>2. Min({a, b}) \in {a, b} /\ \A k \in {a, b} : Min({a, b}) <= k
  BY <1>1 DEF Min
<1> QED  BY <1>2

(* Max of two integers is the larger one.                                   *)
LEMMA MaxTwo ==
  ASSUME NEW a \in Int, NEW b \in Int
  PROVE  Max({a, b}) = IF a <= b THEN b ELSE a
<1>1. \E m \in {a, b} : \A k \in {a, b} : m >= k
  OBVIOUS
<1>2. Max({a, b}) \in {a, b} /\ \A k \in {a, b} : Max({a, b}) >= k
  BY <1>1 DEF Max
<1> QED  BY <1>2

-----------------------------------------------------------------------------
(* The numbers of a finite set, in their order: Nth goes through them all, *)
(* from the smallest to the largest, each once.                            *)
LEMMA NthFacts ==
  ASSUME NEW I, IsFiniteSet(I), I \subseteq Int
  PROVE  /\ Cardinality(I) \in Nat
         /\ \A k \in 1..Cardinality(I) : Nth(I, k) \in I
         /\ \A k, l \in 1..Cardinality(I) : k < l => Nth(I, k) < Nth(I, l)
         /\ \A i \in I : \E k \in 1..Cardinality(I) : Nth(I, k) = i
<1> DEFINE m == Cardinality(I)
           Upto(i) == {j \in I : j <= i}
           rank == [i \in I |-> Cardinality(Upto(i))]
<1>1. m \in Nat
  BY FS_CardinalityType
<1>2. ASSUME NEW i \in I
      PROVE  IsFiniteSet(Upto(i)) /\ Cardinality(Upto(i)) \in 1..m
  <2>1. Upto(i) \in SUBSET I /\ i \in Upto(i)
    OBVIOUS
  <2> HIDE DEF Upto
  <2>2. IsFiniteSet(Upto(i)) /\ Cardinality(Upto(i)) <= m
    BY <2>1, FS_Subset
  <2>3. Cardinality(Upto(i)) \in Nat /\ Cardinality(Upto(i)) # 0
    BY <2>1, <2>2, FS_CardinalityType, FS_EmptySet
  <2> QED  BY <1>1, <2>2, <2>3
<1>3. ASSUME NEW i \in I, NEW j \in I, i < j
      PROVE  Cardinality(Upto(i)) < Cardinality(Upto(j))
  <2>0. i \in Int /\ j \in Int /\ \A x \in I : x \in Int
    OBVIOUS
  <2>1. Upto(i) \in SUBSET Upto(j) /\ j \in Upto(j) /\ j \notin Upto(i)
    <3> HIDE DEF rank
    <3>1. \A x \in I : x <= i => x <= j
      BY <2>0, <1>3
    <3>2. j <= j /\ ~(j <= i)
      BY <2>0, <1>3
    <3> QED  BY <3>1, <3>2, Zenon
  <2>2. IsFiniteSet(Upto(j)) /\ Cardinality(Upto(i)) \in 1..m
        /\ Cardinality(Upto(j)) \in 1..m
    BY <1>2
  <2> HIDE DEF Upto
  <2>3. /\ Cardinality(Upto(i)) <= Cardinality(Upto(j))
        /\ Cardinality(Upto(j)) = Cardinality(Upto(i)) => Upto(j) = Upto(i)
    BY <2>1, <2>2, FS_Subset
  <2> QED  BY <1>1, <2>1, <2>2, <2>3
<1>4. rank \in [I -> 1..m] /\ \A i \in I : rank[i] = Cardinality(Upto(i))
  BY <1>2
<1>5. \A i, j \in I : i < j => rank[i] < rank[j]
  BY <1>3, <1>4
<1> HIDE DEF rank
<1>6. \A i, j \in I : rank[i] = rank[j] => i = j
  <2>1. \A i, j \in I : rank[i] \in Int /\ (i = j \/ i < j \/ j < i)
    BY <1>1, <1>4
  <2> QED  BY <1>5, <2>1
<1>7. rank \in Injection(I, 1..m)
  BY <1>4, <1>6 DEF Injection, IsInjective
<1>8. IsFiniteSet(1..m) /\ Cardinality(1..m) = m
  <2>1. /\ IsFiniteSet(1..m)
        /\ Cardinality(1..m) = IF 1 > m THEN 0 ELSE m - 1 + 1
    BY <1>1, FS_Interval
  <2> QED  BY <1>1, <2>1
<1>9. rank \in Surjection(I, 1..m)
  BY <1>7, <1>8, FS_Injection
<1>10. \A k \in 1..m : \E i \in I : rank[i] = k
  BY <1>9 DEF Surjection
<1>11. ASSUME NEW k \in 1..m PROVE Nth(I, k) \in I /\ rank[Nth(I, k)] = k
  <2>1. \E i \in I : Cardinality({j \in I : j <= i}) = k
    BY <1>4, <1>10
  <2>2. Nth(I, k) \in I /\ Cardinality({j \in I : j <= Nth(I, k)}) = k
    BY <2>1 DEF Nth
  <2> QED  BY <1>4, <2>2
<1>12. ASSUME NEW k \in 1..m, NEW l \in 1..m, k < l PROVE Nth(I, k) < Nth(I, l)
  <2>1. PICK x \in Int, y \in Int : x = Nth(I, k) /\ y = Nth(I, l)
    BY <1>11
  <2>2. x \in I /\ y \in I /\ rank[x] = k /\ rank[y] = l
    BY <1>11, <2>1
  <2>3. ~(y < x) /\ x # y
    BY <1>1, <1>5, <1>12, <2>2
  <2> QED  BY <2>1, <2>3
<1>13. ASSUME NEW i \in I PROVE \E k \in 1..m : Nth(I, k) = i
  <2>1. rank[i] \in 1..m
    BY <1>4
  <2>2. Nth(I, rank[i]) \in I /\ rank[Nth(I, rank[i])] = rank[i]
    BY <1>11, <2>1
  <2> QED  BY <1>6, <2>1, <2>2
<1> QED  BY <1>1, <1>11, <1>12, <1>13

(* Rows takes the rows at the given positions: as many as there are        *)
(* positions, each of them, in the order of the table.                     *)
LEMMA RowsFacts ==
  ASSUME NEW s, NEW n \in Nat, NEW I \in SUBSET (1..n)
  PROVE  /\ Cardinality(I) \in Nat
         /\ Len(Rows(s, I)) = Cardinality(I)
         /\ DOMAIN Rows(s, I) = 1..Cardinality(I)
         /\ \A k \in 1..Cardinality(I) :
               Nth(I, k) \in I /\ Rows(s, I)[k] = s[Nth(I, k)]
         /\ \A k, l \in 1..Cardinality(I) : k < l => Nth(I, k) < Nth(I, l)
         /\ \A i \in I : \E k \in 1..Cardinality(I) : Nth(I, k) = i
<1>1. IsFiniteSet(I) /\ I \subseteq Int
  <2>1. IsFiniteSet(1..n)
    BY FS_Interval
  <2>2. I \in SUBSET (1..n) /\ I \subseteq Int
    OBVIOUS
  <2> QED  BY <2>1, <2>2, FS_Subset
<1>2. Cardinality(I) \in Nat
  BY <1>1, NthFacts
<1>3. /\ Len(Rows(s, I)) = Cardinality(I)
      /\ DOMAIN Rows(s, I) = 1..Cardinality(I)
      /\ \A k \in 1..Cardinality(I) : Rows(s, I)[k] = s[Nth(I, k)]
  BY <1>2 DEF Rows
<1> QED  BY <1>1, <1>2, <1>3, NthFacts

(* Every row is in the table it was taken from.                            *)
LEMMA RowsType ==
  ASSUME NEW X, NEW s \in Seq(X), NEW I, I \subseteq 1..Len(s)
  PROVE  Rows(s, I) \in Seq(X)
<1>1. Len(s) \in Nat /\ \A i \in 1..Len(s) : s[i] \in X
  OBVIOUS
<1>2. /\ Cardinality(I) \in Nat
      /\ \A k \in 1..Cardinality(I) : s[Nth(I, k)] \in X
  <2>1. I \in SUBSET (1..Len(s))
    OBVIOUS
  <2> QED  BY <1>1, <2>1, RowsFacts
<1> QED  BY <1>2 DEF Rows

-----------------------------------------------------------------------------
(* The running total exists along every prefix.                            *)
LEMMA TotalExists ==
  ASSUME NEW ns, NEW n \in Nat
  PROVE  \A m \in 0..n :
            \E f : f = [k \in 0..m |-> IF k = 0 THEN 0 ELSE f[k - 1] + ns[k]]
<1> DEFINE Ok(m) == \E f : f = [k \in 0..m |-> IF k = 0 THEN 0 ELSE f[k - 1] + ns[k]]
           T == {m \in 0..n : ~ Ok(m)}
<1>1. SUFFICES ASSUME T # {} PROVE FALSE
  OBVIOUS
<1>2. T \subseteq Nat
  <2> HIDE DEF Ok
  <2> QED  OBVIOUS
<1>3. PICK m \in T : \A k \in T : m <= k
  <2> HIDE DEF T
  <2> QED  BY <1>1, <1>2, LeastNat
<1>4. CASE m = 0
  <2> DEFINE f == [k \in 0..0 |-> 0]
  <2>1. f = [k \in 0..0 |-> IF k = 0 THEN 0 ELSE f[k - 1] + ns[k]]
    OBVIOUS
  <2> QED  BY <2>1, <1>4
<1>5. CASE m # 0
  <2>1. m - 1 \in 0..n /\ Ok(m - 1)
    <3> HIDE DEF Ok
    <3> QED  BY <1>3, <1>5
  <2>2. PICK f : f = [k \in 0..(m - 1) |-> IF k = 0 THEN 0 ELSE f[k - 1] + ns[k]]
    BY <2>1
  <2> DEFINE h == [k \in 0..m |-> IF k = m THEN f[m - 1] + ns[m] ELSE f[k]]
  <2>3. ASSUME NEW k \in 0..m
        PROVE  h[k] = IF k = 0 THEN 0 ELSE h[k - 1] + ns[k]
    BY <2>2, <1>5
  <2>4. h = [k \in 0..m |-> IF k = 0 THEN 0 ELSE h[k - 1] + ns[k]]
    BY <2>3
  <2> QED  BY <2>4
<1> QED  BY <1>4, <1>5

(* What a running total of natural numbers is.                             *)
RunningSum(f, ns, n) ==
    /\ f \in [0..n -> Nat] /\ f[0] = 0
    /\ \A k \in 1..n : f[k] = f[k - 1] + ns[k]

(* Total is the last of the running totals.                                *)
LEMMA TotalFacts ==
  ASSUME NEW ns, NEW n \in Nat, Len(ns) = n, \A k \in 1..n : ns[k] \in Nat
  PROVE  \E f : RunningSum(f, ns, n) /\ Total(ns) = f[n]
<1>1. \E f : f = [k \in 0..n |-> IF k = 0 THEN 0 ELSE f[k - 1] + ns[k]]
  <2>1. n \in 0..n
    OBVIOUS
  <2> QED  BY <2>1, TotalExists
<1>2. PICK f : /\ f = [k \in 0..n |-> IF k = 0 THEN 0 ELSE f[k - 1] + ns[k]]
               /\ Total(ns) = f[n]
  BY <1>1, Zenon DEF Total
<1>3. f[0] = 0 /\ \A k \in 1..n : f[k] = f[k - 1] + ns[k]
  BY <1>2
<1> DEFINE T == {k \in 0..n : f[k] \notin Nat}
<1>4. T = {}
  <2>1. SUFFICES ASSUME T # {} PROVE FALSE
    OBVIOUS
  <2>2. T \subseteq Nat
    OBVIOUS
  <2>3. PICK m \in T : \A k \in T : m <= k
    <3> HIDE DEF T
    <3> QED  BY <2>1, <2>2, LeastNat
  <2>4. m # 0 /\ m \in 1..n /\ m - 1 \in 0..n
    BY <1>3
  <2>5. f[m - 1] \in Nat
    BY <2>3, <2>4
  <2> QED  BY <1>3, <2>4, <2>5
<1>5. RunningSum(f, ns, n)
  BY <1>2, <1>3, <1>4 DEF RunningSum
<1> QED  BY <1>2, <1>5

(* A running total never goes back, and has grown by each number it        *)
(* passed.                                                                 *)
LEMMA RunningGrows ==
  ASSUME NEW ns, NEW n \in Nat, \A k \in 1..n : ns[k] \in Nat,
         NEW f, RunningSum(f, ns, n), NEW i \in 0..n
  PROVE  \A k \in i..n : f[i] <= f[k]
<1> DEFINE T == {k \in i..n : ~(f[i] <= f[k])}
<1>1. SUFFICES ASSUME T # {} PROVE FALSE
  OBVIOUS
<1>2. T \subseteq Nat
  OBVIOUS
<1>3. PICK m \in T : \A k \in T : m <= k
  <2> HIDE DEF T
  <2> QED  BY <1>1, <1>2, LeastNat
<1>4. f[i] \in Nat /\ f[m] \in Nat /\ m \in i..n /\ m # i
  BY DEF RunningSum
<1>5. m \in 1..n /\ m - 1 \in i..n /\ m - 1 \in 0..n
  BY <1>4
<1>6. f[i] <= f[m - 1]
  BY <1>3, <1>5
<1>7. f[m] = f[m - 1] + ns[m] /\ f[m - 1] \in Nat /\ ns[m] \in Nat
  BY <1>5 DEF RunningSum
<1> QED  BY <1>3, <1>4, <1>6, <1>7

(* A total of natural numbers is one, is zero when there is nothing to     *)
(* add, and is no less than any two of the numbers together.               *)
LEMMA TotalNat ==
  ASSUME NEW ns, NEW n \in Nat, Len(ns) = n, \A k \in 1..n : ns[k] \in Nat
  PROVE  /\ Total(ns) \in Nat
         /\ n = 0 => Total(ns) = 0
         /\ \A i \in 1..n : ns[i] <= Total(ns)
         /\ \A i, j \in 1..n : i < j => ns[i] + ns[j] <= Total(ns)
<1>1. PICK f : RunningSum(f, ns, n) /\ Total(ns) = f[n]
  BY TotalFacts
<1>2. n \in 0..n /\ f[n] \in Nat /\ (n = 0 => f[n] = 0)
  BY <1>1 DEF RunningSum
<1>3. ASSUME NEW i \in 1..n
      PROVE  /\ f[i] = f[i - 1] + ns[i] /\ f[i - 1] \in Nat /\ ns[i] \in Nat
             /\ f[i] \in Nat /\ f[i] <= f[n]
  <2>1. i \in 0..n /\ i - 1 \in 0..n /\ n \in i..n
    OBVIOUS
  <2>2. f[i] <= f[n]
    BY <1>1, <2>1, RunningGrows
  <2> QED  BY <1>1, <2>1, <2>2 DEF RunningSum
<1>4. ASSUME NEW i \in 1..n, NEW j \in 1..n, i < j
      PROVE  ns[i] + ns[j] <= f[n]
  <2>1. i \in 0..n /\ j - 1 \in i..n
    BY <1>4
  <2>2. f[i] <= f[j - 1]
    BY <1>1, <2>1, RunningGrows
  <2>3. /\ f[i] = f[i - 1] + ns[i] /\ f[i - 1] \in Nat /\ ns[i] \in Nat
        /\ f[j] = f[j - 1] + ns[j] /\ f[j - 1] \in Nat /\ ns[j] \in Nat
        /\ f[j] <= f[n] /\ f[n] \in Nat /\ f[i] \in Nat
    BY <1>2, <1>3
  <2>4. PICK a \in Nat, b \in Nat : a = f[i - 1] /\ b = ns[i] /\ f[i] = a + b
    BY <2>3
  <2>5. PICK c \in Nat, d \in Nat : c = f[j - 1] /\ d = ns[j] /\ f[j] = c + d
    BY <2>3
  <2>6. PICK t \in Nat : t = f[n]
    BY <2>3
  <2>7. c + d <= t /\ a + b <= c
    BY <2>2, <2>3, <2>4, <2>5, <2>6
  <2>8. b + d <= t
    BY <2>7
  <2> QED  BY <2>4, <2>5, <2>6, <2>8
<1> QED  BY <1>1, <1>2, <1>3, <1>4

(* A sequence of n rows with one more in it, behind the first p.           *)
OneMore(ms, ns, n, p, x) ==
    \A k \in 1..(n + 1) :
       ms[k] = IF k <= p THEN ns[k] ELSE IF k = p + 1 THEN x ELSE ns[k - 1]

(* A column with one more number in it, wherever it went in, adds up to    *)
(* that much more.                                                         *)
LEMMA TotalInserted ==
  ASSUME NEW n \in Nat, NEW p \in 0..n, NEW x \in Nat, NEW ns, NEW ms,
         Len(ns) = n, \A k \in 1..n : ns[k] \in Nat, Len(ms) = n + 1,
         OneMore(ms, ns, n, p, x)
  PROVE  Total(ms) = Total(ns) + x
<1> USE DEF OneMore
<1>1. PICK f : RunningSum(f, ns, n) /\ Total(ns) = f[n]
  BY TotalFacts
<1>2. n + 1 \in Nat /\ \A k \in 1..(n + 1) : ms[k] \in Nat
  <2> SUFFICES ASSUME NEW k \in 1..(n + 1) PROVE ms[k] \in Nat
    OBVIOUS
  <2>1. CASE k <= p
    <3>1. k \in 1..n
      BY <2>1
    <3> QED  BY <2>1, <3>1
  <2>2. CASE k > p + 1
    <3>1. k - 1 \in 1..n
      BY <2>2
    <3> QED  BY <2>2, <3>1
  <2> QED  BY <2>1, <2>2
<1>3. PICK g : RunningSum(g, ms, n + 1) /\ Total(ms) = g[n + 1]
  BY <1>2, TotalFacts
<1> DEFINE Sum(k) == IF k <= p THEN f[k] ELSE f[k - 1] + x
           T == {k \in 0..(n + 1) : g[k] # Sum(k)}
<1>4. T = {}
  <2>1. SUFFICES ASSUME T # {} PROVE FALSE
    OBVIOUS
  <2>2. T \subseteq Nat
    OBVIOUS
  <2>3. PICK m \in T : \A k \in T : m <= k
    <3> HIDE DEF T
    <3> QED  BY <2>1, <2>2, LeastNat
  <2>4. m \in 0..(n + 1) /\ g[m] # Sum(m)
    BY <2>3
  <2>5. CASE m = 0
    BY <1>1, <1>3, <2>4, <2>5 DEF RunningSum
  <2>6. CASE m # 0
    <3>1. /\ m \in 1..(n + 1) /\ m - 1 \in 0..(n + 1)
          /\ g[m] = g[m - 1] + ms[m]
      BY <1>3, <2>4, <2>6 DEF RunningSum
    <3>2. g[m - 1] = Sum(m - 1)
      BY <2>3, <3>1
    <3>3. CASE m <= p
      <4>1. m \in 1..n /\ f[m] = f[m - 1] + ns[m]
        BY <1>1, <3>1, <3>3 DEF RunningSum
      <4> QED  BY <2>4, <3>1, <3>2, <3>3, <4>1
    <3>4. CASE m = p + 1
      BY <2>4, <3>1, <3>2, <3>4
    <3>5. CASE m > p + 1
      <4>1. m - 1 \in 1..n /\ f[m - 1] = f[m - 2] + ns[m - 1] /\ m - 2 \in 0..n
        <5>1. m - 1 \in 1..n /\ (m - 1) - 1 = m - 2 /\ m - 2 \in 0..n
          BY <3>1, <3>5
        <5> QED  BY <1>1, <5>1 DEF RunningSum
      <4>2. g[m] = (f[m - 2] + x) + ns[m - 1]
        BY <3>1, <3>2, <3>5
      <4>3. f[m - 2] \in Nat /\ ns[m - 1] \in Nat
        BY <1>1, <4>1 DEF RunningSum
      <4> QED  BY <2>4, <3>5, <4>1, <4>2, <4>3
    <3> QED  BY <3>1, <3>3, <3>4, <3>5
  <2> QED  BY <2>5, <2>6
<1>5. g[n + 1] = Sum(n + 1)
  <2>1. n + 1 \in 0..(n + 1)
    OBVIOUS
  <2> QED  BY <1>4, <2>1
<1> QED  BY <1>1, <1>3, <1>5
=============================================================================
