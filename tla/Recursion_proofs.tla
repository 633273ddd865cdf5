--------------------------- MODULE Recursion_proofs ---------------------------
(***************************************************************************)
(* Induction over the natural numbers, for sets, what a function defined   *)
(* by recursion on them is, and how places are counted: facts that the     *)
(* proofs about words, files, trees and parsers share.                     *)
(***************************************************************************)
EXTENDS Counting, FiniteSetTheorems, WellFoundedInduction, TLAPS

\* A non-empty set of natural numbers has a least member.
LEMMA LeastNatural ==
  ASSUME NEW S, S \subseteq Nat, S # {}
  PROVE  \E m \in S : \A k \in S : m <= k
<1>1. PICK x \in S : \A y \in S : ~ (<<y, x>> \in OpToRel(<, Nat))
  BY NatLessThanWellFounded, WFMin
<1>2. ASSUME NEW y \in S PROVE x <= y
  <2>1. ~ (y < x)
    BY <1>1 DEF OpToRel
  <2> QED
    BY <2>1
<1> QED
  BY <1>2

\* Induction, for sets of natural numbers.
LEMMA Induction ==
  ASSUME NEW S, 0 \in S, \A n \in Nat : n \in S => n + 1 \in S
  PROVE  Nat \subseteq S
<1> DEFINE T == Nat \ S
<1> SUFFICES ASSUME T # {} PROVE FALSE
  OBVIOUS
<1>1. T \subseteq Nat /\ T # {}
  OBVIOUS
<1>2. PICK m \in T : \A k \in T : m <= k
  <2> HIDE DEF T
  <2> QED
    BY <1>1, LeastNatural
<1>3. m # 0
  OBVIOUS
<1>4. m - 1 \in Nat /\ m - 1 \in S
  BY <1>2, <1>3
<1> QED
  BY <1>4

\* Up to n, the function that begins with z and goes on with step.
Approximates(g, n, V, z, step) ==
  /\ g \in [0..n -> V]
  /\ g[0] = z
  /\ \A m \in 1..n : g[m] = step[<<m, g[m - 1]>>]

\* What a definition by recursion says.
Recursive(f, z, step) == f = [n \in Nat |-> IF n = 0 THEN z ELSE step[<<n, f[n - 1]>>]]

\* A definition by recursion on the natural numbers defines a function: there
\* is one that the equation describes, and its values are in V.
LEMMA RecursiveFunction ==
  ASSUME NEW V, NEW z \in V, NEW step \in [Nat \X V -> V]
  PROVE  \E f \in [Nat -> V] : Recursive(f, z, step)
<1> DEFINE Upto(n) == {g \in [0..n -> V] : Approximates(g, n, V, z, step)}
<1> DEFINE S == {n \in Nat : Upto(n) # {}}
           U == {k \in Nat : \A n, m \in Nat : k <= n /\ k <= m =>
                               \A g \in Upto(n), h \in Upto(m) : g[k] = h[k]}
<1>1. Nat \subseteq S
  <2>1. 0 \in S
    <3> DEFINE g == [k \in 0..0 |-> z]
    <3>1. g \in Upto(0)
      BY DEF Approximates
    <3> QED
      BY <3>1
  <2>2. ASSUME NEW n \in Nat, n \in S PROVE n + 1 \in S
    <3>1. PICK g : g \in [0..n -> V] /\ Approximates(g, n, V, z, step)
      BY <2>2
    <3> DEFINE h == [k \in 0..(n + 1) |-> IF k = n + 1 THEN step[<<k, g[n]>>] ELSE g[k]]
    <3>2. g[n] \in V /\ step[<<n + 1, g[n]>>] \in V
      BY <3>1
    <3>3. h \in [0..(n + 1) -> V]
      BY <3>1, <3>2
    <3>4. h[0] = z
      BY <3>1 DEF Approximates
    <3>5. ASSUME NEW m \in 1..(n + 1) PROVE h[m] = step[<<m, h[m - 1]>>]
      <4>1. CASE m = n + 1
        BY <4>1
      <4>2. CASE m # n + 1
        <5>1. m \in 1..n /\ m \in 0..(n + 1) /\ m - 1 \in 0..(n + 1) /\ m - 1 # n + 1
          BY <4>2
        <5>2. h[m] = g[m] /\ h[m - 1] = g[m - 1]
          BY <4>2, <5>1
        <5> QED
          BY <3>1, <5>1, <5>2 DEF Approximates
      <4> QED
        BY <4>1, <4>2
    <3> HIDE DEF h
    <3>6. h \in Upto(n + 1)
      BY <3>3, <3>4, <3>5 DEF Approximates
    <3> QED
      BY <3>6
  <2> HIDE DEF S
  <2> QED
    BY <2>1, <2>2, Induction
<1>2. Nat \subseteq U
  <2>1. 0 \in U
    BY DEF Approximates
  <2>2. ASSUME NEW k \in Nat, k \in U PROVE k + 1 \in U
    <3> SUFFICES ASSUME NEW n \in Nat, NEW m \in Nat, k + 1 <= n, k + 1 <= m,
                        NEW g \in Upto(n), NEW h \in Upto(m)
                 PROVE  g[k + 1] = h[k + 1]
      OBVIOUS
    <3>1. g[k] = h[k]
      BY <2>2
    <3>2. k + 1 \in 1..n /\ k + 1 \in 1..m /\ (k + 1) - 1 = k
      OBVIOUS
    <3>3. /\ g[k + 1] = step[<<k + 1, g[(k + 1) - 1]>>]
          /\ h[k + 1] = step[<<k + 1, h[(k + 1) - 1]>>]
      BY <3>2 DEF Approximates
    <3> QED
      BY <3>1, <3>2, <3>3
  <2> HIDE DEF U
  <2> QED
    BY <2>1, <2>2, Induction
<1> DEFINE a(n) == CHOOSE g : g \in Upto(n)
           f == [n \in Nat |-> a(n)[n]]
<1>3. ASSUME NEW n \in Nat
      PROVE  a(n) \in [0..n -> V] /\ Approximates(a(n), n, V, z, step)
  <2>1. \E g : g \in Upto(n)
    BY <1>1
  <2>2. a(n) \in Upto(n)
    <3> HIDE DEF Upto
    <3> QED
      BY <2>1
  <2> QED
    BY <2>2
<1>4. f \in [Nat -> V]
  <2>1. ASSUME NEW n \in Nat PROVE a(n)[n] \in V
    BY <1>3
  <2> HIDE DEF a
  <2> QED
    BY <2>1
<1>5. ASSUME NEW n \in Nat
      PROVE  f[n] = IF n = 0 THEN z ELSE step[<<n, f[n - 1]>>]
  <2>1. CASE n = 0
    <3>1. f[n] = a(n)[0]
      BY <2>1
    <3> QED
      BY <1>3, <2>1, <3>1 DEF Approximates
  <2>2. CASE n # 0
    <3>1. n - 1 \in Nat /\ n \in 1..n
      BY <2>2
    <3>2. a(n)[n] = step[<<n, a(n)[n - 1]>>]
      BY <1>3, <3>1 DEF Approximates
    <3>3. a(n) \in Upto(n) /\ a(n - 1) \in Upto(n - 1)
      BY <1>3, <3>1
    <3>4. a(n)[n - 1] = a(n - 1)[n - 1]
      <4> HIDE DEF Upto, a
      <4>1. n - 1 \in U
        BY <1>2, <3>1
      <4> QED
        BY <3>1, <3>3, <4>1
    <3>5. f[n] = a(n)[n] /\ f[n - 1] = a(n - 1)[n - 1]
      <4> HIDE DEF a
      <4> QED
        BY <3>1
    <3> HIDE DEF f, a
    <3> QED
      BY <2>2, <3>2, <3>4, <3>5
  <2> QED
    BY <2>1, <2>2
<1> HIDE DEF f
<1>6. f = [n \in Nat |-> IF n = 0 THEN z ELSE step[<<n, f[n - 1]>>]]
  BY <1>4, <1>5
<1> QED
  BY <1>4, <1>6 DEF Recursive

\* What a definition by recursion says, on the numbers up to one.
RecursiveTo(N, f, z, step) ==
  f = [n \in 0..N |-> IF n = 0 THEN z ELSE step[<<n, f[n - 1]>>]]

\* It defines a function as well.
LEMMA RecursiveUpto ==
  ASSUME NEW N \in Nat, NEW V, NEW z \in V, NEW step \in [(1..N) \X V -> V]
  PROVE  \E f \in [0..N -> V] : RecursiveTo(N, f, z, step)
<1> DEFINE more == [nv \in Nat \X V |-> IF nv[1] \in 1..N THEN step[nv] ELSE nv[2]]
<1>1. more \in [Nat \X V -> V]
  <2>1. ASSUME NEW nv \in Nat \X V
        PROVE  (IF nv[1] \in 1..N THEN step[nv] ELSE nv[2]) \in V
    <3>1. nv = <<nv[1], nv[2]>> /\ nv[1] \in Nat /\ nv[2] \in V
      OBVIOUS
    <3>2. nv[1] \in 1..N => nv \in (1..N) \X V
      BY <3>1
    <3> QED
      BY <3>1, <3>2
  <2> QED
    BY <2>1
<1>2. ASSUME NEW n \in 1..N, NEW v \in V PROVE more[<<n, v>>] = step[<<n, v>>]
  <2>1. <<n, v>> \in Nat \X V /\ <<n, v>>[1] = n
    OBVIOUS
  <2> QED
    BY <2>1
<1> HIDE DEF more
<1>3. PICK g : g \in [Nat -> V] /\ Recursive(g, z, more)
  BY <1>1, RecursiveFunction
<1> DEFINE f == [n \in 0..N |-> g[n]]
<1>4. f \in [0..N -> V]
  BY <1>3
<1>5. ASSUME NEW n \in 0..N PROVE f[n] = IF n = 0 THEN z ELSE step[<<n, f[n - 1]>>]
  <2>1. g[n] = IF n = 0 THEN z ELSE more[<<n, g[n - 1]>>]
    BY <1>3 DEF Recursive
  <2>2. ASSUME n # 0 PROVE f[n - 1] = g[n - 1] /\ n \in 1..N /\ g[n - 1] \in V
    BY <1>3, <2>2
  <2> QED
    BY <1>2, <2>1, <2>2
<1>6. f = [n \in 0..N |-> IF n = 0 THEN z ELSE step[<<n, f[n - 1]>>]]
  <2> HIDE DEF f
  <2> QED
    BY <1>4, <1>5
<1> QED
  BY <1>4, <1>6 DEF RecursiveTo

-----------------------------------------------------------------------------
(* Counting the members of a set of numbers.                               *)

\* How many come before a number is a number, and no more than there are.
LEMMA BeforeType ==
  ASSUME NEW S \in SUBSET Int, IsFiniteSet(S), NEW i
  PROVE  /\ IsFiniteSet({j \in S : j < i})
         /\ Before(S, i) \in Nat /\ Cardinality(S) \in Nat /\ Before(S, i) <= Cardinality(S)
<1>1. {j \in S : j < i} \in SUBSET S
  OBVIOUS
<1>2. IsFiniteSet({j \in S : j < i}) /\ Cardinality({j \in S : j < i}) <= Cardinality(S)
  BY <1>1, FS_Subset
<1> QED
  BY <1>2, FS_CardinalityType DEF Before

\* The next number has one more before it if this one is in the set.
LEMMA BeforeNext ==
  ASSUME NEW S \in SUBSET Int, IsFiniteSet(S), NEW i \in Int
  PROVE  Before(S, i + 1) = IF i \in S THEN Before(S, i) + 1 ELSE Before(S, i)
<1> DEFINE B == {j \in S : j < i}
<1>1. IsFiniteSet(B)
  BY BeforeType
<1>2. CASE i \in S
  <2>1. \A j \in S : j \in Int /\ (j < i + 1 <=> j < i \/ j = i)
    OBVIOUS
  <2>2. {j \in S : j < i + 1} = B \cup {i} /\ i \notin B
    <3>1. i \notin B
      OBVIOUS
    <3>2. ASSUME NEW j PROVE j \in {l \in S : l < i + 1} <=> j \in B \cup {i}
      BY <1>2, <2>1
    <3> QED
      BY <3>1, <3>2
  <2> HIDE DEF B
  <2>3. Cardinality(B \cup {i}) = Cardinality(B) + 1
    BY <1>1, <2>2, FS_AddElement
  <2> QED
    BY <1>2, <2>2, <2>3 DEF Before, B
<1>3. CASE i \notin S
  <2>1. \A j \in S : j \in Int /\ (j < i + 1 <=> j < i)
    BY <1>3
  <2>2. {j \in S : j < i + 1} = B
    BY <2>1
  <2> QED
    BY <1>3, <2>2 DEF Before
<1> QED
  BY <1>2, <1>3

\* The later a number, the more come before it.
LEMMA BeforeGrows ==
  ASSUME NEW S \in SUBSET Int, IsFiniteSet(S), NEW i \in Int, NEW k \in Int, i <= k
  PROVE  /\ Before(S, i) <= Before(S, k)
         /\ i \in S /\ i < k => Before(S, i) < Before(S, k)
<1> DEFINE B == {j \in S : j < i}
           C == {j \in S : j < k}
<1>1. IsFiniteSet(B) /\ IsFiniteSet(C) /\ B \in SUBSET C
  <2>1. \A j \in S : j < i => j < k
    OBVIOUS
  <2>2. B \in SUBSET C
    BY <2>1
  <2> QED
    BY <2>2, BeforeType
<1>2. Cardinality(B) <= Cardinality(C) /\ (Cardinality(C) = Cardinality(B) => C = B)
  <2> HIDE DEF B, C
  <2> QED
    BY <1>1, FS_Subset
<1>3. i \in S /\ i < k => i \in C /\ i \notin B
  OBVIOUS
<1>4. Before(S, i) = Cardinality(B) /\ Before(S, k) = Cardinality(C)
  BY DEF Before
<1>5. Before(S, i) \in Nat /\ Before(S, k) \in Nat
  BY BeforeType
<1> HIDE DEF B, C
<1> QED
  BY <1>2, <1>3, <1>4, <1>5

\* Nothing comes before the least number that there is.
LEMMA BeforeLeast ==
  ASSUME NEW S \in SUBSET Int, IsFiniteSet(S), NEW i \in Int, \A j \in S : i <= j
  PROVE  Before(S, i) = 0
<1>1. \A j \in S : ~(j < i)
  OBVIOUS
<1>2. {j \in S : j < i} = {}
  BY <1>1
<1> QED
  BY <1>2, FS_EmptySet DEF Before

\* All come before a number that none of them reaches.
LEMMA BeforeAll ==
  ASSUME NEW S \in SUBSET Int, IsFiniteSet(S), NEW i \in Int, \A j \in S : j < i
  PROVE  Before(S, i) = Cardinality(S)
<1>1. {j \in S : j < i} = S
  OBVIOUS
<1> QED
  BY <1>1 DEF Before

\* A member is told by how many come before it.
LEMMA BeforeTells ==
  ASSUME NEW S \in SUBSET Int, IsFiniteSet(S), NEW i \in S, NEW k \in S,
         Before(S, i) = Before(S, k)
  PROVE  i = k
<1>1. i \in Int /\ k \in Int /\ (i <= k \/ k <= i)
  OBVIOUS
<1>2. Before(S, i) \in Nat /\ Before(S, k) \in Nat
  BY BeforeType
<1> QED
  BY <1>1, <1>2, BeforeGrows

\* A member has fewer before it than there are, and is the next after those.
LEMMA NthIs ==
  ASSUME NEW S \in SUBSET Int, IsFiniteSet(S), NEW i \in S
  PROVE  /\ Before(S, i) + 1 \in 1..Cardinality(S)
         /\ Nth(S, Before(S, i) + 1) = i
<1>1. i \in Int /\ Before(S, i) \in Nat /\ Before(S, i + 1) \in Nat /\ Cardinality(S) \in Nat
      /\ Before(S, i + 1) <= Cardinality(S)
  BY BeforeType
<1>2. Before(S, i + 1) = Before(S, i) + 1
  BY <1>1, BeforeNext
<1>3. \A k \in S : Before(S, k) = (Before(S, i) + 1) - 1 <=> k = i
  BY <1>1, BeforeTells
<1> QED
  BY <1>1, <1>2, <1>3 DEF Nth

\* There is an n-th member for every n up to how many there are.
LEMMA NthExists ==
  ASSUME NEW S \in SUBSET Int, IsFiniteSet(S), NEW n \in 1..Cardinality(S)
  PROVE  Nth(S, n) \in S /\ Before(S, Nth(S, n)) = n - 1
<1> DEFINE N == Cardinality(S)
           f == [i \in S |-> Before(S, i) + 1]
<1>1. N \in Nat /\ IsFiniteSet(1..N) /\ Cardinality(1..N) = N
  BY FS_CardinalityType, FS_Interval
<1>2. \A i \in S : Before(S, i) + 1 \in 1..N
  BY NthIs
<1>3. ASSUME NEW i \in S, NEW k \in S, f[i] = f[k] PROVE i = k
  <2>1. Before(S, i) \in Nat /\ Before(S, k) \in Nat
    BY BeforeType
  <2> QED
    BY <1>3, <2>1, BeforeTells
<1>4. f \in Injection(S, 1..N)
  BY <1>2, <1>3 DEF Injection, IsInjective
<1>5. f \in Surjection(S, 1..N)
  <2> HIDE DEF f
  <2> QED
    BY <1>1, <1>4, FS_Injection
<1>6. PICK i \in S : f[i] = n
  BY <1>5 DEF Surjection
<1>7. Before(S, i) = n - 1
  <2>1. Before(S, i) \in Nat
    BY BeforeType
  <2> QED
    BY <1>6, <2>1
<1> QED
  BY <1>7 DEF Nth
=============================================================================
