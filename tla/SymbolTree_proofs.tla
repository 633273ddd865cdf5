------------------------- MODULE SymbolTree_proofs -------------------------
(***************************************************************************)
(* Proofs about the symbol table's tree, for every finite set of names and *)
(* every sequence of lookups.                                              *)
(*                                                                         *)
(* Every node owns an interval of names, b[s][n] being its end on side s:  *)
(* the names that lie in the subtree below n or would be hung there.  The  *)
(* inductive invariant IInv says that there is such a b that agrees with   *)
(* the links (Bounded), that a search is at a node in whose interval the   *)
(* name falls (Searching), and that there is a height for every node that  *)
(* counts the black nodes below it (Balanced).                             *)
(***************************************************************************)
EXTENDS SymbolTree, Recursion_proofs, SequenceTheorems, FiniteSetTheorems

-----------------------------------------------------------------------------
(* The chains that a link makes.                                           *)

\* What Chain is for, said without recursion.
IsChain(link, n, c) ==
  /\ c \in Seq(Keys) /\ Len(c) >= 1
  /\ c[1] = n
  /\ \A i \in 1..(Len(c) - 1) : link[c[i]] = c[i + 1]
  /\ link[c[Len(c)]] = NULL

\* The two ways in which a chain begins.
LEMMA ChainOfOne ==
  ASSUME NEW link, NEW n \in Keys, link[n] = NULL
  PROVE  IsChain(link, n, <<n>>)
  BY DEF IsChain

\* A node in front of the chain of the node it links to.
LEMMA ChainOfMore ==
  ASSUME NEW link, NEW n \in Keys, link[n] \in Keys, NEW c, IsChain(link, link[n], c)
  PROVE  IsChain(link, n, <<n>> \o c)
<1> DEFINE d == <<n>> \o c
<1>1. c \in Seq(Keys) /\ Len(c) \in Nat /\ Len(c) >= 1
  BY DEF IsChain
<1>2. d \in Seq(Keys) /\ Len(d) = Len(c) + 1
  BY <1>1
<1>3. d[1] = n
  BY <1>1
<1>4. ASSUME NEW i \in 1..Len(c) PROVE d[i + 1] = c[i]
  BY <1>1
<1>5. ASSUME NEW i \in 1..(Len(d) - 1) PROVE link[d[i]] = d[i + 1]
  <2>1. CASE i = 1
    BY <1>1, <1>2, <1>3, <1>4, <2>1 DEF IsChain
  <2>2. CASE i # 1
    <3>1. i - 1 \in 1..(Len(c) - 1) /\ i - 1 \in 1..Len(c) /\ i \in 1..Len(c)
      BY <1>1, <1>2, <2>2
    <3>2. d[i] = c[i - 1]
      BY <1>4, <3>1
    <3>3. d[i + 1] = c[i]
      BY <1>4, <3>1
    <3>4. link[c[i - 1]] = c[(i - 1) + 1]
      BY <3>1 DEF IsChain
    <3> QED
      BY <3>1, <3>2, <3>3, <3>4
  <2> QED
    BY <2>1, <2>2
<1>6. link[d[Len(d)]] = NULL
  BY <1>1, <1>2, <1>4 DEF IsChain
<1> HIDE DEF d
<1>7. IsChain(link, n, d)
  BY <1>1, <1>2, <1>3, <1>5, <1>6 DEF IsChain
<1> QED
  BY <1>7 DEF d

\* A link that always leads to something of less weight is followed to its
\* end: the recursion of Chain is well-founded.
LEMMA ChainIsChain ==
  ASSUME NEW link \in [Keys -> Keys \cup {NULL}],
         NEW w \in [Keys -> Nat], NEW top \in Nat,
         \A k \in Keys : w[k] < top,
         \A k \in Keys : link[k] # NULL => w[link[k]] < w[k],
         NEW n \in Keys
  PROVE  IsChain(link, n, Chain(link, n))
<1> DEFINE E(f, m) == IF link[m] = NULL THEN <<m>> ELSE <<m>> \o f[link[m]]
           K(v) == {k \in Keys : w[k] < v}
           Good(v) == \E f : f = [m \in K(v) |-> E(f, m)]
           From[m \in Keys] == IF link[m] = NULL THEN <<m>> ELSE <<m>> \o From[link[m]]
<1>1. Good(0)
  <2>1. K(0) = {}
    OBVIOUS
  <2> DEFINE f == [m \in {} |-> <<>>]
  <2>2. f = [m \in K(0) |-> E(f, m)]
    BY <2>1
  <2> QED
    BY <2>2
<1>2. ASSUME NEW v \in Nat, Good(v) PROVE Good(v + 1)
  <2>1. PICK f : f = [m \in K(v) |-> E(f, m)]
    BY <1>2
  <2> DEFINE g == [m \in K(v + 1) |-> E(f, m)]
  <2>2. K(v) \subseteq K(v + 1)
    OBVIOUS
  <2>3. ASSUME NEW m \in K(v + 1), link[m] # NULL PROVE link[m] \in K(v)
    BY <2>3
  <2>4. ASSUME NEW m \in K(v) PROVE g[m] = f[m]
    BY <2>1, <2>2
  <2>5. ASSUME NEW m \in K(v + 1) PROVE E(f, m) = E(g, m)
    BY <2>3, <2>4
  <2>6. g = [m \in K(v + 1) |-> E(g, m)]
    <3> HIDE DEF E, K
    <3> SUFFICES ASSUME TRUE PROVE [m \in K(v + 1) |-> E(f, m)] = [m \in K(v + 1) |-> E(g, m)]
      OBVIOUS
    <3> HIDE DEF g
    <3> QED
      BY <2>5
  <2> HIDE DEF g
  <2> QED
    BY <2>6
<1>3. Good(top)
  <2> DEFINE S == {v \in Nat : Good(v)}
  <2> HIDE DEF Good
  <2>1. 0 \in S /\ \A v \in Nat : v \in S => v + 1 \in S
    BY <1>1, <1>2
  <2>2. Nat \subseteq S
    <3> HIDE DEF S
    <3> QED
      BY <2>1, Induction
  <2> QED
    BY <2>2
<1>4. PICK f : f = [m \in Keys |-> E(f, m)]
  <2>1. K(top) = Keys
    OBVIOUS
  <2> QED
    BY <1>3, <2>1
<1>5. From = [m \in Keys |-> E(From, m)]
  <2> DEFINE Rec(h) == h = [m \in Keys |-> E(h, m)]
  <2>1. From = CHOOSE h : Rec(h)
    OBVIOUS
  <2>2. Rec(f)
    BY <1>4
  <2> HIDE DEF Rec, From
  <2>3. Rec(From)
    BY <2>1, <2>2
  <2> QED
    BY <2>3 DEF Rec
<1>6. Chain(link, n) = From[n]
  BY DEF Chain
<1> HIDE DEF From
<1>7. ASSUME NEW m \in Keys
      PROVE  From[m] = IF link[m] = NULL THEN <<m>> ELSE <<m>> \o From[link[m]]
  BY <1>5
<1> DEFINE S == {v \in Nat : \A m \in K(v) : IsChain(link, m, From[m])}
<1>8. 0 \in S
  OBVIOUS
<1>9. ASSUME NEW v \in Nat, v \in S PROVE v + 1 \in S
  <2> SUFFICES ASSUME NEW m \in K(v + 1) PROVE IsChain(link, m, From[m])
    OBVIOUS
  <2>1. CASE link[m] = NULL
    BY <1>7, <2>1, ChainOfOne
  <2>2. CASE link[m] # NULL
    <3>1. link[m] \in Keys /\ link[m] \in K(v)
      BY <2>2
    <3>2. IsChain(link, link[m], From[link[m]])
      BY <1>9, <3>1
    <3>3. From[m] = <<m>> \o From[link[m]]
      BY <1>7, <2>2
    <3> QED
      BY <3>1, <3>2, <3>3, ChainOfMore
  <2> QED
    BY <2>1, <2>2
<1>10. Nat \subseteq S
  <2> HIDE DEF S
  <2> QED
    BY <1>8, <1>9, Induction
<1>11. top \in S /\ n \in K(top)
  BY <1>10
<1> QED
  BY <1>6, <1>11

\* A number above all names.
Bound(t) == t \in Nat /\ \A k \in Keys : k < t
Top == CHOOSE t : Bound(t)

\* There is one, as there are finitely many names.
LEMMA TopBounds == Top \in Nat /\ \A k \in Keys : 0 < k /\ k < Top
<1>1. PICK n \in Nat : \E f : f \in Surjection(1..n, Keys)
  BY KeysAssumption, FS_NatSurjection DEF ExistsSurjection
<1>2. PICK f : f \in Surjection(1..n, Keys)
  BY <1>1
<1>3. f \in [1..n -> Keys] /\ \A k \in Keys : \E i \in 1..n : f[i] = k
  BY <1>2 DEF Surjection, Range
<1> DEFINE S == {v \in Nat : \E t \in Nat : \A i \in 1..n : i <= v => f[i] < t}
<1>4. 0 \in S
  OBVIOUS
<1>5. ASSUME NEW v \in Nat, v \in S PROVE v + 1 \in S
  <2>1. PICK t \in Nat : \A i \in 1..n : i <= v => f[i] < t
    BY <1>5
  <2>2. CASE v + 1 \in 1..n
    <3>1. f[v + 1] \in Nat
      BY <1>3, <2>2, KeysAssumption
    <3> DEFINE u == t + f[v + 1] + 1
    <3>2. u \in Nat
      BY <3>1
    <3>3. ASSUME NEW i \in 1..n, i <= v + 1 PROVE f[i] < u
      <4>1. CASE i <= v
        <5>1. f[i] \in Keys
          BY <1>3
        <5>2. f[i] \in Nat /\ f[i] < t
          BY <2>1, <4>1, <5>1, KeysAssumption
        <5> QED
          BY <3>1, <5>2
      <4>2. CASE i = v + 1
        BY <3>1, <4>2
      <4> QED
        BY <3>3, <4>1, <4>2
    <3> HIDE DEF u
    <3> QED
      BY <3>2, <3>3
  <2>3. CASE v + 1 \notin 1..n
    <3>1. \A i \in 1..n : i <= v + 1 => i <= v
      BY <2>3
    <3> QED
      BY <2>1, <3>1
  <2> QED
    BY <2>2, <2>3
<1>6. n \in S
  <2> HIDE DEF S
  <2> QED
    BY <1>4, <1>5, Induction
<1>7. PICK t \in Nat : \A i \in 1..n : f[i] < t
  BY <1>6
<1>8. Bound(t)
  BY <1>3, <1>7 DEF Bound
<1>9. Bound(Top)
  BY <1>8 DEF Top
<1> QED
  BY <1>9, KeysAssumption DEF Bound

-----------------------------------------------------------------------------
(* The invariant of the links.                                             *)

\* The end of the root's interval on side s; a on side s of b; and a name k in
\* the interval of n.
Edge(s) == IF s = "left" THEN NULL ELSE Top
On(s, a, b) == IF s = "left" THEN a < b ELSE b < a
Inside(b, n, k) == \A s \in Sides : On(s, b[s][n], k)

\* The links of t agree, and lead to the nodes N.
Linked(t, N) ==
  /\ t.root \in N \cup {NULL}
  /\ t.child \in [Sides -> [Keys -> N \cup {NULL}]]
  /\ t.parent \in [Keys -> N \cup {NULL}]
  /\ N # {} => t.root \in N /\ t.parent[t.root] = NULL
  /\ \A n \in N, s \in Sides : t.child[s][n] # NULL => t.parent[t.child[s][n]] = n
  /\ \A n \in N : t.parent[n] = NULL => n = t.root
  /\ \A n \in N : t.parent[n] # NULL => \E s \in Sides : t.child[s][t.parent[n]] = n
  /\ \A n \in Keys \ N : t.parent[n] = NULL /\ \A s \in Sides : t.child[s][n] = NULL

\* A child owns its parent's interval on its side of the parent.
Hanging(t, N, b) ==
  /\ \A s \in Sides : t.root # NULL => b[s][t.root] = Edge(s)
  /\ \A n \in N, s \in Sides :
       t.child[s][n] # NULL => /\ b[s][t.child[s][n]] = b[s][n]
                               /\ b[Mirror(s)][t.child[s][n]] = n

\* A node is in its own interval.
Around(N, b) == \A n \in N : Inside(b, n, n)

\* Where a child is missing there is no node.
Gaps(t, N, b) == \A n \in N, s \in Sides :
  t.child[s][n] = NULL => \A m \in N : ~(On(s, m, n) /\ On(s, b[s][n], m))

\* An interval ends at a node, which has the owner in its interval, or at the
\* end of all names.
Ends(N, b) == \A n \in N, s \in Sides : 
  b[s][n] \in N \cup {Edge(s)} /\ (b[s][n] \in N => Inside(b, b[s][n], n))

\* A node in the interval of n has its own within the same half of it.
Nested(N, b) == \A m, n \in N, s \in Sides :
  On(s, m, n) /\ On(s, b[s][n], m) =>
     ~On(s, b[s][m], b[s][n]) /\ ~On(s, n, b[Mirror(s)][m])

Bounded(t, N, b) ==
  /\ b \in [Sides -> [Keys -> 0..Top]]
  /\ Hanging(t, N, b) /\ Around(N, b) /\ Gaps(t, N, b) /\ Ends(N, b) /\ Nested(N, b)

-----------------------------------------------------------------------------
(* Rotations.                                                              *)

\* There are two sides, each the mirror of the other.
LEMMA SidesFacts ==
  ASSUME NEW s \in Sides
  PROVE  Mirror(s) \in Sides /\ Mirror(s) # s /\ Sides = {s, Mirror(s)} /\ Mirror(Mirror(s)) = s
  BY DEF Sides, Mirror

\* The order of the keys on a side is strict, and the mirrored side has the other.
LEMMA OnStrict ==
  ASSUME NEW s \in Sides, NEW a \in Nat, NEW b \in Nat, On(s, a, b)
  PROVE  a # b /\ ~On(s, b, a) /\ On(Mirror(s), b, a)
  BY DEF On, Mirror, Sides

\* The nodes that a rotation relinks, e, its child, that child's inner child
\* and the parent of e, are different nodes and lie in this order.
InOrder(t, N, b, e, s) ==
  LET up == t.child[Mirror(s)][e]
      moved == t.child[s][up]
      p == t.parent[e]
  IN  /\ up \in N /\ up # e /\ t.parent[up] = e
      /\ b[s][up] = e /\ b[Mirror(s)][up] = b[Mirror(s)][e] /\ On(s, e, up)
      /\ \A n \in N : t.child[s][n] # NULL => t.child[s][n] # t.child[Mirror(s)][n]
      /\ moved # NULL =>
           /\ moved \in N /\ t.parent[moved] = up
           /\ b[s][moved] = e /\ b[Mirror(s)][moved] = up
           /\ moved # e /\ moved # up
      /\ p # NULL => p \in N /\ p # e /\ p # up /\ p # moved

\* The nodes a rotation touches lie in order.
LEMMA RotationNodes ==
  ASSUME NEW t, NEW N \in SUBSET Keys, NEW b, NEW e \in N, NEW s \in Sides,
         Linked(t, N), Bounded(t, N, b), t.child[Mirror(s)][e] # NULL
  PROVE  InOrder(t, N, b, e, s)
<1> DEFINE M == Mirror(s)
           r == t.root
           ch == t.child
           pa == t.parent
           up == ch[M][e]
           moved == ch[s][up]
           p == pa[e]
<1>2. /\ M \in Sides /\ M # s /\ Sides = {s, M} /\ Mirror(M) = s /\ Mirror(s) = M
  BY SidesFacts
<1>3. /\ r \in N \cup {NULL}
      /\ ch \in [Sides -> [Keys -> N \cup {NULL}]]
      /\ pa \in [Keys -> N \cup {NULL}]
      /\ N # {} => r \in N /\ pa[r] = NULL
      /\ \A n \in N, x \in Sides : ch[x][n] # NULL => pa[ch[x][n]] = n
      /\ \A n \in N : pa[n] = NULL => n = r
      /\ \A n \in N : pa[n] # NULL => \E x \in Sides : ch[x][pa[n]] = n
      /\ \A n \in Keys \ N : pa[n] = NULL /\ \A x \in Sides : ch[x][n] = NULL
  BY DEF Linked
<1>4. \A n \in N : n \in Nat /\ n # NULL /\ n < Top /\ n \in Keys
  BY TopBounds, KeysAssumption DEF NULL
<1>5. /\ \A n \in N, x \in Sides :
           ch[x][n] # NULL => b[x][ch[x][n]] = b[x][n] /\ b[Mirror(x)][ch[x][n]] = n
      /\ \A n \in N, x \in Sides : On(x, b[x][n], n)
      /\ \A x \in Sides : r # NULL => b[x][r] = Edge(x)
  BY DEF Bounded, Hanging, Around, Inside
<1>6. \A n \in N, x \in Sides : b[x][n] \in Nat
  BY TopBounds DEF Bounded
<1>7. up \in N /\ up # e /\ pa[up] = e /\ b[s][up] = e /\ b[M][up] = b[M][e] /\ On(s, e, up)
  <2>1. up \in N /\ pa[up] = e /\ b[s][up] = e /\ b[M][up] = b[M][e]
    BY <1>2, <1>3, <1>5
  <2>2. On(s, e, up)
    BY <2>1, <1>5
  <2> QED
    BY <2>1, <2>2, <1>4 DEF On
<1>8. \A n \in N : ch[s][n] # NULL => ch[s][n] # ch[M][n]
  BY <1>2, <1>3, <1>4, <1>5 DEF On
<1>9. moved # NULL => moved \in N /\ pa[moved] = up /\ b[s][moved] = e /\ b[M][moved] = up
                      /\ On(s, e, moved) /\ On(s, moved, up)
                      /\ moved # e /\ moved # up
  <2> SUFFICES ASSUME moved # NULL
               PROVE  moved \in N /\ pa[moved] = up /\ b[s][moved] = e /\ b[M][moved] = up
                      /\ On(s, e, moved) /\ On(s, moved, up)
                      /\ moved # e /\ moved # up
    OBVIOUS
  <2>1. moved \in N /\ pa[moved] = up /\ b[s][moved] = e /\ b[M][moved] = up
    <3>1. moved \in N /\ pa[moved] = up
      <4>1. moved \in N
        <5>1. ch[s] \in [Keys -> N \cup {NULL}] /\ up \in Keys
          BY <1>2, <1>3, <1>7
        <5> HIDE DEF ch, up
        <5> QED
          BY <5>1
      <4> QED
        BY <1>3, <1>7, <4>1
    <3>2. b[s][moved] = b[s][up] /\ b[Mirror(s)][moved] = up
      BY <1>2, <1>5, <1>7
    <3> QED
      BY <1>7, <3>1, <3>2
  <2>2. On(s, e, moved) /\ On(M, up, moved)
    BY <1>2, <2>1, <1>5
  <2>3. On(s, moved, up)
    BY <1>2, <2>2 DEF On, Mirror, Sides
  <2> QED
    <3>1. moved \in Nat /\ e \in Nat /\ up \in Nat
      BY <1>4, <1>7, <2>1
    <3>2. moved # e
      BY <2>2, <3>1, OnStrict
    <3>3. moved # up
      BY <2>3, <3>1, OnStrict
    <3> QED
      BY <2>1, <2>2, <2>3, <3>2, <3>3
<1>10. p # NULL => p \in N /\ p # e /\ p # up /\ p # moved
  <2> SUFFICES ASSUME p # NULL PROVE p \in N /\ p # e /\ p # up /\ p # moved
    OBVIOUS
  <2>1. p \in N
    BY <1>3, <1>4
  <2>2. PICK x \in Sides : ch[x][p] = e
    BY <1>3
  <2>3. b[x][e] = b[x][p] /\ b[Mirror(x)][e] = p
    BY <1>4, <1>5, <2>1, <2>2
  <2>4. On(Mirror(x), p, e) /\ On(x, b[x][e], e)
    BY <1>5, <2>3, SidesFacts
  <2>nats. p \in Nat /\ e \in Nat /\ up \in Nat
    BY <1>4, <1>7, <2>1
  <2>5. CASE x = s
    <3>1. On(M, p, e)
      BY <1>2, <2>4, <2>5
    <3> QED
      <4>1. p # e
        BY <1>2, <2>nats, <3>1, OnStrict
      <4>2. b[M][up] = p /\ On(M, p, up)
        BY <1>2, <1>5, <1>7, <2>3, <2>5
      <4>3. p # up /\ On(s, up, p)
        BY <1>2, <2>nats, <4>2, OnStrict
      <4>4. ~On(s, p, up)
        BY <2>nats, <4>3, OnStrict
      <4> QED
        BY <1>4, <1>9, <2>1, <4>1, <4>3, <4>4
  <2>6. CASE x = M
    <3>1. b[M][e] = b[M][p] /\ b[s][e] = p /\ On(s, p, e) /\ On(M, b[M][e], e)
      BY <1>2, <2>3, <2>4, <2>6
    <3> QED
      <4>1. ~On(s, e, p)
        BY <2>1, <2>nats, <3>1, OnStrict
      <4>2. p # e
        BY <2>1, <2>nats, <3>1, OnStrict
      <4> QED
        BY <1>4, <1>7, <1>9, <2>1, <4>1, <4>2
  <2> QED
    BY <2>5, <2>6, <1>2, <2>1
<1> QED
  BY <1>7, <1>8, <1>9, <1>10 DEF InOrder

\* RB_ROTATE_LEFT and RB_ROTATE_RIGHT keep the links and the intervals: only
\* e and the node that takes its place get other ones (tree.h:340-378).
LEMMA RotateLinked ==
  ASSUME NEW t, NEW N \in SUBSET Keys, NEW b, NEW e \in N, NEW s \in Sides,
         Linked(t, N), Bounded(t, N, b), t.child[Mirror(s)][e] # NULL
  PROVE  /\ Linked(Rotate(t, e, s), N)
         /\ \E bb : Bounded(Rotate(t, e, s), N, bb)
<1> DEFINE M == Mirror(s)
           r == t.root
           ch == t.child
           pa == t.parent
           up == ch[M][e]
           moved == ch[s][up]
           p == pa[e]
           r2 == IF p = NULL THEN up ELSE r
           ch2 == [ x \in Sides |-> [ n \in Keys |->
                      IF n = e /\ x = M THEN moved
                      ELSE IF n = up /\ x = s THEN e
                      ELSE IF n = p /\ ch[x][p] = e THEN up
                      ELSE ch[x][n] ] ]
           pa2 == [ n \in Keys |-> IF n = up THEN p ELSE IF n = e THEN up
                                    ELSE IF n = moved THEN e
                                    ELSE pa[n] ]
           u == Rotate(t, e, s)
           bb == [x \in Sides |-> [n \in Keys |-> IF x = s /\ n = up THEN b[s][e]
                                               ELSE IF x = M /\ n = e THEN up
                                               ELSE b[x][n]]]
<1>1. u.root = r2 /\ u.child = ch2 /\ u.parent = pa2
  BY DEF Rotate
<1>2. /\ M \in Sides /\ M # s /\ Sides = {s, M} /\ Mirror(M) = s /\ Mirror(s) = M
  BY SidesFacts
<1>3. /\ r \in N \cup {NULL}
      /\ ch \in [Sides -> [Keys -> N \cup {NULL}]]
      /\ pa \in [Keys -> N \cup {NULL}]
      /\ N # {} => r \in N /\ pa[r] = NULL
      /\ \A n \in N, x \in Sides : ch[x][n] # NULL => pa[ch[x][n]] = n
      /\ \A n \in N : pa[n] = NULL => n = r
      /\ \A n \in N : pa[n] # NULL => \E x \in Sides : ch[x][pa[n]] = n
      /\ \A n \in Keys \ N : pa[n] = NULL /\ \A x \in Sides : ch[x][n] = NULL
  BY DEF Linked
<1>4. \A n \in N : n \in Nat /\ n # NULL /\ n < Top /\ n \in Keys
  BY TopBounds, KeysAssumption DEF NULL
<1>5. /\ \A n \in N, x \in Sides :
           ch[x][n] # NULL => b[x][ch[x][n]] = b[x][n] /\ b[Mirror(x)][ch[x][n]] = n
      /\ \A n \in N, x \in Sides : On(x, b[x][n], n)
      /\ \A x \in Sides : r # NULL => b[x][r] = Edge(x)
  BY DEF Bounded, Hanging, Around, Inside
<1>6. \A n \in N, x \in Sides : b[x][n] \in Nat
  BY TopBounds DEF Bounded
<1>order. InOrder(t, N, b, e, s)
  BY RotationNodes
<1>7. up \in N /\ up # e /\ pa[up] = e /\ b[s][up] = e /\ b[M][up] = b[M][e] /\ On(s, e, up)
  BY <1>order DEF InOrder
<1>8. \A n \in N : ch[s][n] # NULL => ch[s][n] # ch[M][n]
  BY <1>order DEF InOrder
<1>9. moved # NULL => moved \in N /\ pa[moved] = up /\ b[s][moved] = e /\ b[M][moved] = up
                      /\ moved # e /\ moved # up
  BY <1>order DEF InOrder
<1>10. p # NULL => p \in N /\ p # e /\ p # up /\ p # moved
  BY <1>order DEF InOrder
<1> HIDE DEF M, r, ch, pa, up, moved, p, u
<1>11. Linked(u, N)
  <2>1. r2 \in N /\ pa2[r2] = NULL
    BY <1>3, <1>4, <1>7, <1>9, <1>10 DEF p
  <2>2. ch2 \in [Sides -> [Keys -> N \cup {NULL}]]
    BY <1>3, <1>4, <1>7, <1>9, <1>10
  <2>3. pa2 \in [Keys -> N \cup {NULL}]
    BY <1>3, <1>4, <1>7, <1>9, <1>10
  <2>downs. \A x \in Sides, n \in N :
              ch2[x][n] = IF n = e /\ x = M THEN moved
                          ELSE IF n = up /\ x = s THEN e
                          ELSE IF n = p /\ ch[x][p] = e THEN up
                          ELSE ch[x][n]
    BY <1>4
  <2>ups. \A n \in Keys : pa2[n] = IF n = up THEN p ELSE IF n = e THEN up
                                   ELSE IF n = moved THEN e ELSE pa[n]
    OBVIOUS
  <2>4. ASSUME NEW n \in N, NEW x \in Sides, ch2[x][n] # NULL
        PROVE  pa2[ch2[x][n]] = n
    <3> HIDE DEF ch2, pa2
    <3>1. CASE n = e /\ x = M
      <4>1. ch2[x][n] = moved /\ moved # NULL
        BY <2>4, <2>downs, <3>1
      <4>2. pa2[moved] = e
        BY <1>4, <1>9, <2>ups, <4>1
      <4> QED
        BY <3>1, <4>1, <4>2
    <3>2. CASE n = up /\ x = s /\ ~(n = e /\ x = M)
      <4>1. ch2[x][n] = e
        BY <2>downs, <3>2
      <4>2. pa2[e] = up
        BY <1>4, <1>7, <2>ups
      <4> QED
        BY <3>2, <4>1, <4>2
    <3>3. CASE n = p /\ ch[x][p] = e /\ ~(n = e /\ x = M) /\ ~(n = up /\ x = s)
      <4>1. ch2[x][n] = up
        BY <2>downs, <3>3
      <4>2. pa2[up] = p
        BY <1>4, <1>7, <2>ups
      <4> QED
        BY <3>3, <4>1, <4>2
    <3>4. CASE ~(n = e /\ x = M) /\ ~(n = up /\ x = s) /\ ~(n = p /\ ch[x][p] = e)
      <4>1. ch2[x][n] = ch[x][n]
        BY <2>downs, <3>4
      <4>2. ch[x][n] # NULL /\ ch[x][n] \in N /\ pa[ch[x][n]] = n
        BY <1>3, <1>4, <2>4, <4>1
      <4>3. ch[x][n] # up
        <5>1. x = M \/ x = s
          BY <1>2
        <5>2. ch[x][n] = up => n = e /\ x = s
          BY <1>7, <3>4, <4>2, <5>1
        <5> QED
          BY <1>8, <4>2, <5>2 DEF up
      <4>4. ch[x][n] # e
        BY <3>4, <4>2 DEF p
      <4>5. ch[x][n] # moved
        <5>1. x = M \/ x = s
          BY <1>2
        <5>2. ch[x][n] = moved => n = up /\ x = M
          BY <1>9, <3>4, <4>2, <5>1
        <5>3. ch[x][n] = moved => ch[s][up] # NULL /\ ch[s][up] = ch[M][up]
          BY <4>2, <5>2 DEF moved
        <5> QED
          BY <1>7, <1>8, <5>3
      <4>6. pa2[ch[x][n]] = pa[ch[x][n]]
        BY <1>4, <2>ups, <4>2, <4>3, <4>4, <4>5
      <4> QED
        BY <4>1, <4>2, <4>6
    <3> QED
      BY <3>1, <3>2, <3>3, <3>4
  <2>5. ASSUME NEW n \in N, pa2[n] = NULL PROVE n = r2
    BY <1>2, <1>3, <1>4, <1>7, <1>8, <1>9, <1>10, <2>5 DEF p, up, moved
  <2>6. ASSUME NEW n \in N, pa2[n] # NULL PROVE \E x \in Sides : ch2[x][pa2[n]] = n
    <3> HIDE DEF ch2, pa2
    <3>1. n \in Keys /\ n # NULL /\ e \in Keys /\ up \in Keys /\ s \in Sides
      BY <1>4, <1>7
    <3>2. CASE n = up
      <4>1. pa2[n] = p /\ p # NULL
        BY <2>6, <2>ups, <3>1, <3>2
      <4>2. PICK x \in Sides : ch[x][p] = e
        BY <1>3, <4>1 DEF p
      <4>3. ch2[x][p] = up
        BY <1>10, <2>downs, <4>1, <4>2
      <4> QED
        BY <3>2, <4>1, <4>3
    <3>3. CASE n = e /\ n # up
      <4>1. pa2[n] = up /\ ch2[s][up] = e
        BY <1>2, <1>7, <2>ups, <2>downs, <3>1, <3>3
      <4> QED
        BY <3>1, <3>3, <4>1
    <3>4. CASE n = moved /\ n # up /\ n # e
      <4>1. pa2[n] = e /\ ch2[M][e] = moved
        BY <1>2, <2>ups, <2>downs, <3>1, <3>4
      <4> QED
        BY <1>2, <3>4, <4>1
    <3>5. CASE n # up /\ n # e /\ n # moved
      <4>1. pa2[n] = pa[n] /\ pa[n] # NULL /\ pa[n] \in N
        BY <1>3, <2>6, <2>ups, <3>1, <3>5
      <4>2. PICK x \in Sides : ch[x][pa[n]] = n
        BY <1>3, <4>1
      <4>3. ~(pa[n] = e /\ x = M) /\ ~(pa[n] = up /\ x = s) /\ ~(pa[n] = p /\ ch[x][p] = e)
        BY <3>5, <4>2 DEF up, moved
      <4>4. ch2[x][pa[n]] = n
        BY <2>downs, <4>1, <4>2, <4>3
      <4> QED
        BY <4>1, <4>4
    <3> QED
      BY <3>2, <3>3, <3>4, <3>5
  <2>7. ASSUME NEW n \in Keys \ N PROVE pa2[n] = NULL /\ \A x \in Sides : ch2[x][n] = NULL
    <3>1. n # e /\ n # up /\ n # p /\ n # moved
      BY <1>3, <1>7, <1>9, <1>10, KeysAssumption DEF NULL
    <3> QED
      BY <1>2, <1>3, <3>1
  <2> HIDE DEF r2, ch2, pa2
  <2> QED
    BY <1>1, <2>1, <2>2, <2>3, <2>4, <2>5, <2>6, <2>7 DEF Linked
<1>12. bb \in [Sides -> [Keys -> 0..Top]]
  <2>1. b \in [Sides -> [Keys -> 0..Top]]
    BY DEF Bounded
  <2>2. up \in 0..Top /\ b[s][e] \in 0..Top
    BY <2>1, <1>4, <1>7, TopBounds
  <2>3. \A x \in Sides, n \in Keys : b[x][n] \in 0..Top
    BY <2>1
  <2> QED
    BY <2>2, <2>3
<1>13. \A x \in Sides, n \in N : 
         bb[x][n] = IF x = s /\ n = up THEN b[s][e] ELSE IF x = M /\ n = e THEN up ELSE b[x][n]
  BY <1>4
<1>14. \A x \in Sides, n \in N : 
         ch2[x][n] = IF n = e /\ x = M THEN moved
                      ELSE IF n = up /\ x = s THEN e
                      ELSE IF n = p /\ ch[x][p] = e THEN up
                      ELSE ch[x][n]
  BY <1>4
<1>15. (pa[e] = NULL => e = r) /\ (r # NULL => pa[r] = NULL) 
  BY <1>3
<1> HIDE DEF bb
<1>16. \A x \in Sides : b[x][e] \in Nat /\ b[x][up] \in Nat 
  BY <1>6, <1>7
<1>17. On(s, b[s][e], e) /\ On(s, e, up) /\ On(M, b[M][e], up) /\ On(s, b[s][e], up)
  <2>1. On(s, b[s][e], e) /\ On(s, e, up) /\ On(M, b[M][e], up)
    BY <1>2, <1>5, <1>7
  <2> QED
    BY <2>1, <1>4, <1>7, <1>16 DEF On
<1>18. Gaps(t, N, b) /\ Ends(N, b) /\ Nested(N, b)
  BY DEF Bounded
<1>19. \A a, c : On(M, a, c) <=> On(s, c, a)
  BY <1>2 DEF On, Sides, Mirror
<1>20. Hanging(u, N, bb)
  <2>1. ASSUME NEW x \in Sides PROVE bb[x][r2] = Edge(x)
    BY <1>2, <1>5, <1>7, <1>13, <1>15, <1>10, <1>3, <1>4 DEF p
  <2>2. ASSUME NEW n \in N, NEW x \in Sides, ch2[x][n] # NULL
        PROVE  bb[x][ch2[x][n]] = bb[x][n] /\ bb[Mirror(x)][ch2[x][n]] = n
    <3>1. CASE n = e /\ x = M
      <4>1. ch2[x][n] = moved /\ moved # NULL
        BY <1>14, <2>2, <3>1
      <4>2. bb[M][moved] = up /\ bb[s][moved] = e /\ bb[M][e] = up
        BY <1>2, <1>7, <1>9, <1>13, <4>1
      <4> QED
        BY <1>2, <3>1, <4>1, <4>2
    <3>2. CASE n = up /\ x = s
      <4>1. ch2[x][n] = e
        BY <1>2, <1>14, <1>7, <3>2
      <4>2. bb[s][e] = b[s][e] /\ bb[M][e] = up /\ bb[s][up] = b[s][e]
        BY <1>2, <1>7, <1>13
      <4> QED
        BY <1>2, <3>2, <4>1, <4>2
    <3>3. CASE n = p /\ ch[x][p] = e 
      <4>1. ch2[x][n] = up /\ p \in N /\ p # e /\ p # up
        BY <1>4, <1>2, <1>14, <1>7, <1>10, <3>3
      <4>2. b[x][e] = b[x][p] /\ b[Mirror(x)][e] = p
        BY <1>4, <1>5, <3>3, <4>1
      <4>3. bb[x][p] = b[x][p] /\ bb[s][up] = b[s][e] /\ bb[M][up] = b[M][e]
        BY <1>2, <1>7, <1>13, <4>1
      <4> QED
        BY <1>2, <3>3, <4>1, <4>2, <4>3
    <3>4. CASE ~(n = e /\ x = M) /\ ~(n = up /\ x = s) /\ ~(n = p /\ ch[x][p] = e)
      <4>1. ch2[x][n] = ch[x][n]
        BY <1>14, <3>4
      <4> DEFINE c == ch[x][n]
      <4>2. c \in N /\ pa[c] = n /\ b[x][c] = b[x][n] /\ b[Mirror(x)][c] = n
        BY <1>3, <1>5, <2>2, <4>1
      <4>3. c # e
        BY <3>4, <4>2 DEF p
      <4>4. c # up
        <5> SUFFICES ASSUME c = up PROVE FALSE
          OBVIOUS
        <5>1. n = e
          BY <4>2, <1>7
        <5>2. x = s
          BY <5>1, <3>4, <1>2
        <5>3. ch[s][e] = ch[M][e] /\ ch[s][e] # NULL
          BY <5>1, <5>2, <2>2, <4>1 DEF up
        <5> QED
          BY <5>3, <1>8
      <4> HIDE DEF c
      <4>5. Mirror(x) \in Sides
        BY SidesFacts
      <4>6. bb[x][c] = b[x][c] /\ bb[Mirror(x)][c] = b[Mirror(x)][c]
        BY <4>2, <4>3, <4>4, <4>5, <1>13
      <4>7. bb[x][n] = b[x][n]
        BY <3>4, <1>13
      <4> QED
        BY <4>1, <4>2, <4>6, <4>7 DEF c
    <3> QED
      BY <3>1, <3>2, <3>3, <3>4
  <2> HIDE DEF r2, ch2
  <2> QED
    BY <1>1, <2>1, <2>2 DEF Hanging
<1>21. Around(N, bb)
  BY <1>2, <1>4, <1>5, <1>7, <1>13, <1>17 DEF Around, Inside, On, Mirror, Sides
<1>22. Gaps(u, N, bb)
  <2> SUFFICES ASSUME NEW n \in N, NEW x \in Sides, ch2[x][n] = NULL, NEW m \in N,
                      On(x, m, n), On(x, bb[x][n], m)
               PROVE  FALSE
    BY <1>1 DEF Gaps
  <2>1. CASE n = e /\ x = M
    <3>1. moved = NULL /\ bb[x][n] = up
      BY <1>2, <1>13, <1>14, <1>7, <2>1
    <3>2. ~(On(s, m, up) /\ On(s, e, m))
      BY <1>2, <3>1, <1>7, <1>18 DEF Gaps, moved, ch
    <3> QED
      BY <1>19, <2>1, <3>1, <3>2
  <2>2. CASE ~(n = e /\ x = M)
    <3>1. ch[x][n] = NULL /\ bb[x][n] = b[x][n]
      BY <1>2, <1>4, <1>7, <1>13, <1>14, <2>2
    <3> QED
      BY <3>1, <1>18 DEF Gaps, ch
  <2> QED
    BY <2>1, <2>2
<1>23. Ends(N, bb)
  <2> SUFFICES ASSUME NEW n \in N, NEW x \in Sides
               PROVE  bb[x][n] \in N \cup {Edge(x)} /\ (bb[x][n] \in N => Inside(bb, bb[x][n], n))
    BY DEF Ends
  <2>1. CASE x = s /\ n = up
    <3> DEFINE k == b[s][e]
    <3>1. bb[x][n] = k /\ k \in N \cup {Edge(x)}
      BY <1>13, <1>18, <2>1 DEF Ends
    <3> SUFFICES ASSUME k \in N PROVE Inside(bb, k, n)
      BY <3>1
    <3>2. On(s, b[s][k], e) /\ On(M, b[M][k], e) /\ k # e /\ k # up
      BY <1>2, <1>4, <1>7, <1>17, <1>18 DEF Ends, Inside, On
    <3>3. ~On(M, b[M][e], b[M][k])
      BY <1>2, <1>4, <1>17, <1>18, <1>19, <3>2 DEF Nested
    <3> HIDE DEF k
    <3>4. bb[s][k] = b[s][k] /\ bb[M][k] = b[M][k] 
      BY <1>2, <1>13, <3>2
    <3>5. b[s][k] \in Nat /\ b[M][k] \in Nat
      BY <1>2, <1>6
    <3>6. On(s, b[s][k], up) /\ On(M, b[M][k], up)
      BY <1>2, <1>4, <1>6, <1>7, <1>16, <1>17, <1>19, <3>2, <3>3, <3>5 DEF On
    <3> QED
      BY <1>2, <2>1, <3>4, <3>6 DEF Inside
  <2>2. CASE x = M /\ n = e
    <3>1. bb[x][n] = up
      BY <1>2, <1>13, <1>7, <2>2
    <3>2. bb[s][up] = b[s][e] /\ bb[M][up] = b[M][e]
      BY <1>2, <1>13, <1>7
    <3>3. On(M, b[M][e], e)
      BY <1>2, <1>5
    <3> QED
      BY <1>2, <1>7, <1>17, <2>2, <3>1, <3>2, <3>3 DEF Inside
  <2>3. CASE ~(x = s /\ n = up) /\ ~(x = M /\ n = e)
    <3> DEFINE k == b[x][n]
    <3>1. bb[x][n] = k /\ k \in N \cup {Edge(x)}
      BY <1>13, <1>18, <2>3 DEF Ends
    <3> SUFFICES ASSUME k \in N PROVE Inside(bb, k, n)
      BY <3>1
    <3>2. On(s, b[s][k], n) /\ On(M, b[M][k], n)
      BY <1>2, <1>18 DEF Ends, Inside
    <3>3. CASE k = up
      <4>1. bb[s][up] = b[s][e] /\ bb[M][up] = b[M][up]
        BY <1>2, <1>13, <1>7
      <4>2. On(s, b[s][e], n)
        BY <1>4, <1>7, <1>16, <1>17, <3>2, <3>3 DEF On
      <4> QED
        BY <1>2, <3>2, <3>3, <4>1, <4>2 DEF Inside
    <3>4. CASE k = e
      <4>1. bb[s][e] = b[s][e] /\ bb[M][e] = up
        BY <1>2, <1>13, <1>7
      <4>2. On(s, n, up)
        <5>1. CASE x = M
          <6>1. On(M, e, n)
            BY <1>2, <1>5, <3>4, <5>1
          <6> QED
            BY <6>1, <1>4, <1>7, <1>19 DEF On
        <5>2. CASE x = s
          <6>1. n # up /\ On(s, e, n) /\ b[s][n] = e
            BY <1>5, <2>3, <3>4, <5>2
          <6> SUFFICES ASSUME On(M, n, up) PROVE FALSE
            BY <6>1, <1>4, <1>7, <1>19 DEF On
          <6>2. On(M, b[M][up], n)
            BY <1>7, <3>2, <3>4
          <6>3. ~On(M, up, b[s][n])
            BY <1>2, <1>7, <1>18, <6>2 DEF Nested
          <6> QED
            BY <6>1, <6>3, <1>7, <1>19
        <5> QED
          BY <5>1, <5>2, <1>2
      <4> QED
        BY <1>2, <1>19, <3>2, <3>4, <4>1, <4>2 DEF Inside
    <3>5. CASE k # up /\ k # e
      <4> HIDE DEF k
      <4>1. bb[s][k] = b[s][k] /\ bb[M][k] = b[M][k]
        BY <1>2, <1>13, <3>5
      <4> QED
        BY <1>2, <3>2, <4>1 DEF Inside
    <3> QED
      BY <3>3, <3>4, <3>5
  <2> QED
    BY <2>1, <2>2, <2>3
<1>24. Nested(N, bb)
  <2> SUFFICES ASSUME NEW m \in N, NEW n \in N, NEW x \in Sides,
                      On(x, m, n), On(x, bb[x][n], m)
               PROVE  ~On(x, bb[x][m], bb[x][n]) /\ ~On(x, n, bb[Mirror(x)][m])
    BY DEF Nested
  <2>nat. \A k \in N : b[s][k] \in Nat /\ b[M][k] \in Nat /\ k \in Nat
    BY <1>2, <1>4, <1>6
  <2>nested. \A k, l \in N :
          /\ (On(s, k, l) /\ On(s, b[s][l], k)) => (~On(s, b[s][k], b[s][l]) /\ ~On(s, l, b[M][k]))
          /\ (On(M, k, l) /\ On(M, b[M][l], k)) => (~On(M, b[M][k], b[M][l]) /\ ~On(M, l, b[s][k]))
    BY <1>2, <1>18 DEF Nested
  <2>apart. m # n
    BY <1>4 DEF On
  <2>1. CASE n = up /\ x = s
    <3>1. bb[x][n] = b[s][e] /\ On(s, m, up) /\ On(s, b[s][e], m)
      BY <1>13, <2>1
    <3>2. CASE m = e
      <4>1. bb[s][m] = b[s][e] /\ bb[M][m] = up
        BY <1>2, <1>7, <1>13, <3>2
      <4> QED
        BY <1>2, <1>4, <1>7, <1>16, <2>1, <3>1, <4>1 DEF On
    <3>3. CASE m # e
      <4>1. bb[s][m] = b[s][m] /\ bb[M][m] = b[M][m]
        BY <1>2, <1>13, <2>1, <2>apart, <3>3
      <4>2. CASE On(s, m, e)
        <5>1. ~On(s, b[s][m], b[s][e]) /\ ~On(s, e, b[M][m])
          BY <2>nested, <3>1, <4>2
        <5> QED
          BY <1>2, <1>7, <1>17, <2>nat, <2>1, <3>1, <4>1, <5>1 DEF On
      <4>3. CASE On(s, e, m)
        <5>1. ~On(s, b[s][m], e) /\ ~On(s, up, b[M][m])
          BY <1>7, <2>nested, <3>1, <4>3
        <5> QED
          BY <1>2, <1>7, <1>17, <2>nat, <2>1, <3>1, <4>1, <5>1 DEF On
      <4> QED
        BY <2>nat, <3>3, <4>2, <4>3 DEF On
    <3> QED
      BY <3>2, <3>3
  <2>2. CASE n = up /\ x = M
    <3>1. bb[x][n] = b[M][up] /\ On(M, m, up) /\ On(M, b[M][up], m)
      BY <1>2, <1>7, <1>13, <2>2
    <3>2. m # e
      BY <1>4, <1>7, <1>19, <3>1 DEF On
    <3>3. bb[s][m] = b[s][m] /\ bb[M][m] = b[M][m]
      BY <1>2, <1>13, <2>2, <2>apart, <3>2
    <3> QED
      BY <1>2, <1>7, <2>2, <2>nested, <3>1, <3>3
  <2>3. CASE n = e /\ x = s
    <3>1. bb[x][n] = b[s][e] /\ On(s, m, e) /\ On(s, b[s][e], m)
      BY <1>2, <1>7, <1>13, <2>3
    <3>2. m # up
      BY <1>4, <1>7, <1>19, <3>1 DEF On
    <3>3. bb[s][m] = b[s][m] /\ bb[M][m] = b[M][m]
      BY <1>2, <1>13, <2>3, <2>apart, <3>2
    <3> QED
      BY <1>2, <1>7, <2>3, <2>nested, <3>1, <3>3
  <2>4. CASE n = e /\ x = M
    <3>1. bb[x][n] = up /\ On(s, e, m) /\ On(s, m, up)
      BY <1>2, <1>7, <1>13, <1>19, <2>4
    <3>2. m # up
      BY <1>4, <1>7, <3>1 DEF On
    <3>3. bb[s][m] = b[s][m] /\ bb[M][m] = b[M][m]
      BY <1>2, <1>13, <2>4, <2>apart, <3>2
    <3>4. ~On(s, b[s][m], e) /\ ~On(s, up, b[M][m])
      BY <1>7, <2>nested, <3>1
    <3> QED
      BY <1>2, <1>19, <2>4, <3>1, <3>3, <3>4
  <2>5. CASE n # e /\ n # up
    <3>1. bb[s][n] = b[s][n] /\ bb[M][n] = b[M][n] /\ bb[x][n] = b[x][n]
      BY <1>2, <1>13, <2>5
    <3>2. ~On(x, b[x][m], b[x][n]) /\ ~On(x, n, b[Mirror(x)][m])
      BY <1>18, <3>1 DEF Nested
    <3>3. CASE m # e /\ m # up
      <4>1. bb[s][m] = b[s][m] /\ bb[M][m] = b[M][m]
        BY <1>2, <1>13, <3>3
      <4> QED
        BY <1>2, <3>1, <3>2, <4>1
    <3>4. CASE m = e
      <4>1. bb[s][m] = b[s][m] /\ bb[M][m] = up
        BY <1>2, <1>13, <1>7, <3>4
      <4>2. CASE x = s
        <5>1. ~On(s, n, up)
          BY <1>2, <1>4, <1>7, <1>16, <1>17, <1>19, <3>2, <3>4, <4>2 DEF On
        <5> QED
          BY <1>2, <3>1, <3>2, <4>1, <4>2, <5>1
      <4>3. CASE x = M
        <5>1. ~On(M, up, b[M][n])
          BY <1>2, <1>7, <1>16, <1>17, <1>19, <2>nat, <3>2, <3>4, <4>3 DEF On
        <5> QED
          BY <1>2, <3>1, <3>2, <4>1, <4>3, <5>1
      <4> QED
        BY <1>2, <4>2, <4>3
    <3>5. CASE m = up
      <4>1. bb[s][m] = b[s][e] /\ bb[M][m] = b[M][m]
        BY <1>2, <1>13, <1>7, <3>5
      <4>2. CASE x = s
        <5>1. On(s, up, n) /\ On(s, b[s][n], up) /\ ~On(s, e, b[s][n])
          BY <1>7, <3>1, <3>2, <3>5, <4>2
        <5>2. CASE On(s, b[s][n], e)
          <6>1. On(s, e, n)
            BY <1>4, <1>7, <5>1 DEF On
          <6>2. ~On(s, b[s][e], b[s][n])
            BY <2>nested, <5>2, <6>1
          <6> QED
            BY <1>2, <3>1, <3>2, <4>1, <4>2, <6>2
        <5>3. CASE b[s][n] = e
          <6>1. On(M, b[M][e], n)
            BY <1>2, <1>18, <5>3 DEF Ends, Inside
          <6>2. On(M, n, up) /\ On(M, b[M][up], n)
            BY <1>7, <1>19, <5>1, <6>1
          <6>3. ~On(M, up, e)
            BY <1>7, <2>nested, <5>3, <6>2
          <6> QED
            BY <1>7, <1>19, <6>3
        <5> QED
          BY <2>nat, <5>1, <5>2, <5>3 DEF On
      <4>3. CASE x = M
        <5>1. On(M, up, n) /\ On(M, b[M][n], up) /\ ~On(M, n, e)
          BY <1>2, <1>7, <3>1, <3>2, <3>5, <4>3
        <5>2. On(M, e, n) /\ On(M, b[M][n], e)
          BY <1>4, <1>7, <1>19, <2>nat, <2>5, <5>1 DEF On
        <5>3. ~On(M, n, b[s][e])
          BY <2>nested, <5>2
        <5> QED
          BY <1>2, <3>1, <3>2, <4>1, <4>3, <5>3
      <4> QED
        BY <1>2, <4>2, <4>3
    <3> QED
      BY <3>3, <3>4, <3>5
  <2> QED
    BY <1>2, <2>1, <2>2, <2>3, <2>4, <2>5
<1>30. Bounded(u, N, bb)
  BY <1>12, <1>20, <1>21, <1>22, <1>23, <1>24 DEF Bounded
<1> QED
  BY <1>11, <1>30 DEF u

-----------------------------------------------------------------------------
(* The new leaf.                                                           *)

\* Link, on the tree alone: k is hung under a.
WithLeaf(t, k, a) ==
  [ root |-> IF a = NULL THEN k ELSE t.root,
    child |-> [side \in Sides |->
               IF a # NULL /\ side = SideOf(k, a)
               THEN [t.child[side] EXCEPT ![k] = NULL, ![a] = k]
               ELSE [t.child[side] EXCEPT ![k] = NULL]],
    parent |-> [t.parent EXCEPT ![k] = a] ]

\* The first node of the tree.
LEMMA LinkRoot ==
  ASSUME NEW t, NEW b, NEW k \in Keys, Linked(t, {}), Bounded(t, {}, b)
  PROVE  /\ Linked(WithLeaf(t, k, NULL), {k})
         /\ \E bb : Bounded(WithLeaf(t, k, NULL), {k}, bb)
<1> DEFINE u == WithLeaf(t, k, NULL)
           ch == [side \in Sides |-> [t.child[side] EXCEPT ![k] = NULL]]
           pa == [t.parent EXCEPT ![k] = NULL]
           bb == [x \in Sides |-> [n \in Keys |-> Edge(x)]]
<1>1. u.root = k /\ u.child = ch /\ u.parent = pa
  BY DEF WithLeaf
<1>2. k # NULL /\ k \in Nat /\ 0 < k /\ k < Top /\ Top \in Nat
  BY TopBounds, KeysAssumption DEF NULL
<1>3. /\ t.child \in [Sides -> [Keys -> {NULL}]]
      /\ t.parent \in [Keys -> {NULL}]
  BY DEF Linked
<1>4. /\ ch \in [Sides -> [Keys -> {NULL}]] /\ \A x \in Sides, n \in Keys : ch[x][n] = NULL
      /\ pa \in [Keys -> {NULL}] /\ \A n \in Keys : pa[n] = NULL
  BY <1>3
<1>5. bb \in [Sides -> [Keys -> 0..Top]] /\ \A x \in Sides : bb[x][k] = Edge(x)
  BY <1>2 DEF Edge, NULL
<1>6. \A x \in Sides : On(x, Edge(x), k)
  BY <1>2 DEF On, Edge, Sides, NULL
<1>7. Edge("left") \notin {k} /\ Edge("right") \notin {k}
  BY <1>2 DEF Edge, NULL
<1> HIDE DEF u, ch, pa, bb
<1>8. Linked(u, {k})
  BY <1>1, <1>2, <1>4 DEF Linked
<1>9. Hanging(u, {k}, bb)
  BY <1>1, <1>2, <1>4, <1>5 DEF Hanging
<1>10. Around({k}, bb)
  BY <1>5, <1>6 DEF Around, Inside
<1>11. Gaps(u, {k}, bb)
  BY <1>2 DEF Gaps, On
<1>12. Ends({k}, bb)
  BY <1>5, <1>7 DEF Ends, Sides
<1>13. Nested({k}, bb)
  BY <1>2 DEF Nested, On
<1> QED
  BY <1>5, <1>8, <1>9, <1>10, <1>11, <1>12, <1>13 DEF Bounded, u

\* Of a node in whose interval the name falls, but not next to it, a is in the
\* interval, too.
LEMMA GapIsInside ==
  ASSUME NEW t, NEW N \in SUBSET Keys, NEW b, Bounded(t, N, b),
         NEW a \in N, NEW k \in Keys, NEW s \in Sides,
         t.child[s][a] = NULL, On(s, k, a), On(s, b[s][a], k),
         NEW x \in N, x # a, Inside(b, x, k)
  PROVE  k # x /\ Inside(b, x, a)
<1> DEFINE M == Mirror(s)
<1>1. M \in Sides /\ M # s /\ Sides = {s, M} /\ Mirror(M) = s
  BY SidesFacts
<1>2. \A n \in N, y \in Sides : b[y][n] \in Nat
  BY TopBounds DEF Bounded
<1>3. \A n \in Keys : n \in Nat /\ 0 < n /\ n < Top 
  BY TopBounds, KeysAssumption
<1>4. ~(On(s, x, a) /\ On(s, b[s][a], x))
  BY DEF Bounded, Gaps
<1>5. \A c, d : On(M, c, d) <=> On(s, d, c)
  BY DEF On, Sides, Mirror
<1>6. On(s, b[s][x], k) /\ On(s, k, b[M][x])
  BY <1>1, <1>5 DEF Inside
<1>7. On(s, b[s][x], x) /\ On(s, x, b[M][x])
  BY <1>1, <1>5 DEF Bounded, Around, Inside
<1>8. k # x
  BY <1>4
<1>9. b[s][x] \in Nat /\ b[M][x] \in Nat /\ b[s][a] \in Nat /\ k \in Nat /\ a \in Nat /\ x \in Nat
  BY <1>1, <1>2, <1>3
<1> HIDE DEF M
<1>10. CASE On(s, k, x)
  <2>1. On(s, b[s][x], a) /\ On(s, a, b[M][x])
    BY <1>4, <1>6, <1>7, <1>9, <1>10 DEF On
  <2> QED
    BY <1>1, <1>5, <1>8, <2>1 DEF Inside
<1>11. CASE On(s, x, k)
  <2> DEFINE z == b[M][x]
  <2>1. ~On(s, b[s][a], x)
    BY <1>4, <1>9, <1>11 DEF On
  <2>2. z \in N \cup {Edge(M)} /\ (z \in N => Inside(b, z, x))
    BY <1>1 DEF Bounded, Ends
  <2>3. z = Edge(M) => On(s, a, z)
    BY <1>1, <1>3 DEF On, Edge, Sides, NULL
  <2>4. z = a => FALSE
    BY <2>1, <2>2, <1>1 DEF Inside
  <2>5. z \in N => ~(On(s, z, a) /\ On(s, b[s][a], z))
    BY DEF Bounded, Gaps
  <2> HIDE DEF z
  <2>6. z \in N => On(s, a, z)
    BY <2>4, <2>5, <1>3, <1>6, <1>9 DEF On, z
  <2>7. On(s, a, z)
    BY <2>2, <2>3, <2>6
  <2>8. On(s, b[s][x], a)
    BY <1>6, <1>9 DEF On
  <2> QED
    BY <1>1, <1>5, <1>8, <2>7, <2>8 DEF Inside, z
<1> QED
  BY <1>8, <1>9, <1>10, <1>11 DEF On

\* A new leaf takes over the gap that it is put into (tree.h:581-604).
LEMMA LinkBelow ==
  ASSUME NEW t, NEW N \in SUBSET Keys, NEW b, NEW k \in Keys \ N, NEW a \in N,
         Linked(t, N), Bounded(t, N, b),
         t.child[SideOf(k, a)][a] = NULL, Inside(b, a, k)
  PROVE  /\ Linked(WithLeaf(t, k, a), N \cup {k})
         /\ \E bb : Bounded(WithLeaf(t, k, a), N \cup {k}, bb)
<1> DEFINE s == SideOf(k, a)
           M == Mirror(s)
           ch == t.child
           pa == t.parent
           u == WithLeaf(t, k, a)
           N2 == N \cup {k}
           ch2 == [x \in Sides |-> [n \in Keys |-> IF n = k THEN NULL
                                                   ELSE IF x = s /\ n = a THEN k ELSE ch[x][n]]]
           pa2 == [n \in Keys |-> IF n = k THEN a ELSE pa[n]]
           bb == [x \in Sides |-> [n \in Keys |-> IF n # k THEN b[x][n]
                                                  ELSE IF x = s THEN b[s][a] ELSE a]]
<1>1. /\ \A n \in Keys : n \in Nat /\ 0 < n /\ n < Top /\ n # NULL
      /\ Top \in Nat /\ a # k
  BY TopBounds, KeysAssumption DEF NULL
<1>2. s \in Sides /\ M \in Sides /\ M # s /\ Sides = {s, M} /\ Mirror(M) = s /\ Mirror(s) = M
  <2>1. s \in Sides
    BY DEF SideOf, Sides
  <2> QED
    BY <2>1, SidesFacts
<1>3. /\ t.root \in N /\ pa[t.root] = NULL
      /\ ch \in [Sides -> [Keys -> N \cup {NULL}]]
      /\ pa \in [Keys -> N \cup {NULL}]
      /\ \A n \in N, x \in Sides : ch[x][n] # NULL => pa[ch[x][n]] = n
      /\ \A n \in N : pa[n] = NULL => n = t.root
      /\ \A n \in N : pa[n] # NULL => \E x \in Sides : ch[x][pa[n]] = n
      /\ \A n \in Keys \ N : pa[n] = NULL /\ \A x \in Sides : ch[x][n] = NULL
  BY DEF Linked
<1>4. u.root = t.root /\ u.child = ch2 /\ u.parent = pa2
  <2>1. u.root = t.root /\ u.parent = pa2
    BY <1>1, <1>3 DEF WithLeaf
  <2>2. u.child = [x \in Sides |-> IF x = s THEN [ch[x] EXCEPT ![k] = NULL, ![a] = k]
                                            ELSE [ch[x] EXCEPT ![k] = NULL]]
    BY <1>1 DEF WithLeaf
  <2>3. ASSUME NEW x \in Sides
        PROVE  (IF x = s THEN [ch[x] EXCEPT ![k] = NULL, ![a] = k]
                         ELSE [ch[x] EXCEPT ![k] = NULL]) = ch2[x]
    BY <1>1, <1>3
  <2> QED
    BY <2>1, <2>2, <2>3
<1>5. On(s, k, a)
  BY <1>1 DEF On, SideOf
<1>6. b \in [Sides -> [Keys -> 0..Top]] /\ Hanging(t, N, b) /\ Around(N, b) /\ Gaps(t, N, b)
      /\ Ends(N, b) /\ Nested(N, b)
  BY DEF Bounded
<1>7. /\ \A n \in N, x \in Sides :
           ch[x][n] # NULL => b[x][ch[x][n]] = b[x][n] /\ b[Mirror(x)][ch[x][n]] = n
      /\ \A x \in Sides : b[x][t.root] = Edge(x)
  BY <1>3, <1>6, <1>1 DEF Hanging
<1>8. \A c, d : On(M, c, d) <=> On(s, d, c)
  BY <1>2 DEF On, Sides, Mirror
<1>9. On(s, b[s][a], k) /\ On(s, k, b[M][a]) /\ On(s, b[s][a], a) /\ On(s, a, b[M][a])
  BY <1>2, <1>6, <1>8 DEF Inside, Around
<1>10. ch[s][a] = NULL
  OBVIOUS
<1>11. \A x \in N : x # a /\ Inside(b, x, k) => Inside(b, x, a)
  BY <1>2, <1>5, <1>9, <1>10, GapIsInside
<1> HIDE DEF s, M, ch, pa, u
<1>12. bb \in [Sides -> [Keys -> 0..Top]]
  <2>1. b[s][a] \in 0..Top /\ a \in 0..Top
    BY <1>1, <1>2, <1>6
  <2> QED
    BY <2>1, <1>6
<1>13. /\ \A x \in Sides, n \in N : bb[x][n] = b[x][n]
       /\ bb[s][k] = b[s][a] /\ bb[M][k] = a
  BY <1>2
<1>14. \A x \in Sides, n \in N : b[x][n] \in Nat
  BY <1>1, <1>6
<1>15. \A x \in Sides, n \in N2 : ch2[x][n] = IF n = k THEN NULL
                                      ELSE IF x = s /\ n = a THEN k ELSE ch[x][n]
  OBVIOUS
<1>16. \A x \in N : x # a => ~Inside(b, x, k) \/ Inside(b, x, a)
  BY <1>11
<1>17. Linked(u, N2)
  <2>1. ch2 \in [Sides -> [Keys -> N2 \cup {NULL}]] /\ pa2 \in [Keys -> N2 \cup {NULL}]
    BY <1>3
  <2>2. pa2[t.root] = NULL /\ t.root \in N2
    BY <1>3
  <2>3. ASSUME NEW n \in N2, NEW x \in Sides, ch2[x][n] # NULL PROVE pa2[ch2[x][n]] = n
    BY <1>1, <1>3, <2>3
  <2>4. ASSUME NEW n \in N2, pa2[n] = NULL PROVE n = t.root
    BY <1>1, <1>3, <2>4
  <2>5. ASSUME NEW n \in N2, pa2[n] # NULL PROVE \E x \in Sides : ch2[x][pa2[n]] = n
    <3>1. CASE n = k
      BY <1>1, <1>2, <3>1
    <3>2. CASE n # k
      <4>1. n \in N /\ pa[n] # NULL /\ pa2[n] = pa[n] /\ pa[n] \in N
        BY <1>3, <2>5, <3>2
      <4>2. PICK x \in Sides : ch[x][pa[n]] = n
        BY <1>3, <4>1
      <4>3. ~(x = s /\ pa[n] = a)
        BY <1>1, <1>10, <4>1, <4>2
      <4> QED
        BY <4>1, <4>2, <4>3
    <3> QED
      BY <3>1, <3>2
  <2>6. ASSUME NEW n \in Keys \ N2 PROVE pa2[n] = NULL /\ \A x \in Sides : ch2[x][n] = NULL
    BY <1>3
  <2> HIDE DEF ch2, pa2
  <2> QED
    BY <1>4, <2>1, <2>2, <2>3, <2>4, <2>5, <2>6 DEF Linked
<1> HIDE DEF ch2, pa2, bb
<1>18. Hanging(u, N2, bb)
  <2>1. \A x \in Sides : bb[x][t.root] = Edge(x)
    BY <1>3, <1>7, <1>13
  <2>2. ASSUME NEW n \in N2, NEW x \in Sides, ch2[x][n] # NULL
        PROVE  bb[x][ch2[x][n]] = bb[x][n] /\ bb[Mirror(x)][ch2[x][n]] = n
    <3>1. CASE x = s /\ n = a
      BY <1>1, <1>2, <1>13, <1>15, <3>1
    <3>2. CASE ~(x = s /\ n = a)
      <4>1. n \in N /\ ch2[x][n] = ch[x][n] /\ ch[x][n] \in N /\ Mirror(x) \in Sides
        BY <1>3, <1>15, <2>2, <3>2, SidesFacts
      <4> QED
        BY <1>7, <1>13, <4>1, <2>2
    <3> QED
      BY <3>1, <3>2
  <2> QED
    BY <1>4, <2>1, <2>2 DEF Hanging
<1>19. Around(N2, bb)
  <2>1. Inside(bb, k, k)
    BY <1>2, <1>5, <1>8, <1>9, <1>13 DEF Inside
  <2>2. \A n \in N : Inside(bb, n, n)
    BY <1>6, <1>13 DEF Around, Inside
  <2> QED
    BY <2>1, <2>2 DEF Around
<1>20. Gaps(u, N2, bb)
  <2> SUFFICES ASSUME NEW n \in N2, NEW x \in Sides, ch2[x][n] = NULL, NEW m \in N2,
                      On(x, m, n), On(x, bb[x][n], m)
               PROVE  FALSE
    BY <1>4 DEF Gaps
  <2>1. ASSUME n \in N, m \in N PROVE FALSE
    <3>1. ch[x][n] = NULL
      BY <1>1, <1>15, <2>1
    <3> QED
      BY <1>6, <1>13, <2>1, <3>1 DEF Gaps, ch
  <2>2. ASSUME n = k, m \in N PROVE FALSE
    <3>1. On(s, m, a) /\ On(s, b[s][a], m)
      BY <1>1, <1>2, <1>5, <1>8, <1>9, <1>13, <1>14, <2>2 DEF On
    <3> QED
      BY <1>2, <1>6, <1>10, <2>2, <3>1 DEF Gaps, ch
  <2>3. ASSUME n \in N, m = k PROVE FALSE
    <3>1. ch[x][n] = NULL /\ ~(x = s /\ n = a)
      BY <1>1, <1>15, <2>3
    <3>2. CASE n = a
      BY <1>1, <1>2, <1>5, <1>8, <2>3, <3>1, <3>2 DEF On
    <3>3. CASE n # a
      <4>1. On(x, b[x][n], k) /\ On(Mirror(x), b[Mirror(x)][n], k)
        <5>1. On(x, b[x][n], k) /\ On(x, k, n)
          BY <1>13, <2>3
        <5>2. On(Mirror(x), b[Mirror(x)][n], n)
          BY <1>6, <2>3, SidesFacts DEF Around, Inside
        <5>3. b[x][n] \in Nat /\ b[Mirror(x)][n] \in Nat /\ n \in Nat /\ k \in Nat
          BY <1>1, <1>14, <2>3, SidesFacts
        <5> QED
          BY <5>1, <5>2, <5>3 DEF On, Mirror, Sides
      <4>2. Inside(b, n, k)
        BY <4>1, SidesFacts DEF Inside
      <4>3. Inside(b, n, a)
        BY <1>11, <2>3, <3>3, <4>2
      <4>4. On(x, b[x][n], a) /\ On(Mirror(x), b[Mirror(x)][n], a)
        BY <4>3, SidesFacts DEF Inside
      <4>5. CASE On(x, a, n)
        BY <1>6, <2>3, <3>1, <4>4, <4>5 DEF Gaps, ch
      <4>6. CASE On(Mirror(x), a, n)
        <5>1. ~On(Mirror(x), n, b[x][a])
          BY <1>6, <2>3, <4>4, <4>6, SidesFacts DEF Nested
        <5>2. On(x, b[x][a], k)
          BY DEF Inside
        <5>3. b[x][a] \in Nat
          BY <1>14
        <5> QED
          BY <1>1, <2>3, <5>1, <5>2, <5>3 DEF On, Mirror, Sides
      <4> QED
        BY <1>1, <2>3, <3>3, <4>5, <4>6 DEF On, Mirror, Sides
    <3> QED
      BY <3>2, <3>3
  <2>4. ASSUME n = k, m = k PROVE FALSE
    BY <1>1, <2>4 DEF On
  <2> QED
    BY <2>1, <2>2, <2>3, <2>4
<1>21. Ends(N2, bb)
  <2> SUFFICES ASSUME NEW n \in N2, NEW x \in Sides
               PROVE  bb[x][n] \in N2 \cup {Edge(x)} /\ (bb[x][n] \in N2 => Inside(bb, bb[x][n], n))
    BY DEF Ends
  <2>1. CASE n \in N
    <3>1. b[x][n] \in N \cup {Edge(x)} /\ (b[x][n] \in N => Inside(b, b[x][n], n))
      BY <1>6, <2>1 DEF Ends
    <3>2. b[x][n] # k
      BY <1>1, <3>1 DEF Edge, NULL
    <3> QED
      BY <1>13, <2>1, <3>1, <3>2 DEF Inside
  <2>2. CASE n = k /\ x = s
    <3> DEFINE z == b[s][a]
    <3>1. bb[x][n] = z /\ z \in N \cup {Edge(s)} /\ (z \in N => Inside(b, z, a))
      BY <1>2, <1>6, <1>13, <2>2 DEF Ends
    <3>2. z # k
      BY <1>1, <3>1 DEF Edge, NULL
    <3> SUFFICES ASSUME z \in N PROVE Inside(bb, z, k)
      BY <2>2, <3>1, <3>2
    <3>3. On(s, b[s][z], a) /\ On(s, a, b[M][z])
      BY <1>2, <1>8, <3>1 DEF Inside
    <3>4. On(M, a, z) 
      BY <1>8, <1>9
    <3>5. On(s, b[s][z], z)
      BY <1>2, <1>6 DEF Around, Inside
    <3> HIDE DEF z
    <3>6. On(s, b[s][z], k)
      BY <1>1, <1>2, <1>9, <1>14, <3>5 DEF On, z
    <3>7. On(s, k, b[M][z])
      BY <1>1, <1>2, <1>5, <1>14, <3>3 DEF On
    <3> QED
      BY <1>2, <1>8, <1>13, <3>6, <3>7 DEF Inside
  <2>3. CASE n = k /\ x = M
    BY <1>2, <1>13, <2>3 DEF Inside
  <2> QED
    BY <1>2, <2>1, <2>2, <2>3
<1>22. Nested(N2, bb)
  <2> SUFFICES ASSUME NEW m \in N2, NEW n \in N2, NEW x \in Sides,
                      On(x, m, n), On(x, bb[x][n], m)
               PROVE  ~On(x, bb[x][m], bb[x][n]) /\ ~On(x, n, bb[Mirror(x)][m])
    BY DEF Nested
  <2>1. ASSUME n \in N, m \in N PROVE ~On(x, bb[x][m], bb[x][n]) /\ ~On(x, n, bb[Mirror(x)][m])
    BY <1>6, <1>13, <2>1, SidesFacts DEF Nested
  <2>2. ASSUME n = k, m \in N PROVE FALSE
    <3>1. On(s, m, a) /\ On(s, b[s][a], m)
      BY <1>1, <1>2, <1>5, <1>8, <1>9, <1>13, <1>14, <2>2 DEF On
    <3> QED
      BY <1>2, <1>6, <1>10, <2>2, <3>1 DEF Gaps, ch
  <2>3. ASSUME n \in N, m = k PROVE ~On(x, bb[x][k], bb[x][n]) /\ ~On(x, n, bb[Mirror(x)][k])
    <3>1. On(x, k, n) /\ On(x, b[x][n], k)
      BY <1>13, <2>3
    <3>2. CASE n = a
      <4>1. x = s
        BY <1>1, <1>2, <1>5, <1>8, <3>1, <3>2 DEF On
      <4> QED
        BY <1>1, <1>2, <1>13, <1>14, <3>2, <4>1 DEF On
    <3>3. CASE n # a
      <4>1. On(x, b[x][n], k) /\ On(Mirror(x), b[Mirror(x)][n], k)
        <5>1. On(Mirror(x), b[Mirror(x)][n], n)
          BY <1>6, <2>3, SidesFacts DEF Around, Inside
        <5>2. b[x][n] \in Nat /\ b[Mirror(x)][n] \in Nat /\ n \in Nat /\ k \in Nat
          BY <1>1, <1>14, <2>3, SidesFacts
        <5> QED
          BY <3>1, <5>1, <5>2 DEF On, Mirror, Sides
      <4>2. Inside(b, n, a)
        <5>1. Inside(b, n, k)
          BY <4>1, SidesFacts DEF Inside
        <5> QED
          BY <1>11, <2>3, <3>3, <5>1
      <4>3. On(x, b[x][n], a) /\ On(Mirror(x), b[Mirror(x)][n], a)
        BY <4>2, SidesFacts DEF Inside
      <4>4. On(x, a, n)
        <5> SUFFICES ASSUME On(Mirror(x), a, n) PROVE FALSE
          BY <1>1, <2>3, <3>3 DEF On, Mirror, Sides
        <5>1. ~On(Mirror(x), n, b[x][a])
          BY <1>6, <2>3, <4>3, SidesFacts DEF Nested
        <5>2. On(x, b[x][a], k)
          BY DEF Inside
        <5>3. b[x][a] \in Nat
          BY <1>14
        <5> QED
          BY <1>1, <2>3, <3>1, <5>1, <5>2, <5>3 DEF On, Mirror, Sides
      <4>5. ~On(x, b[x][a], b[x][n]) /\ ~On(x, n, b[Mirror(x)][a])
        BY <1>6, <2>3, <4>3, <4>4 DEF Nested
      <4>6. bb[x][n] = b[x][n] /\ b[x][n] \in Nat /\ n \in Nat /\ a \in Nat
        BY <1>1, <1>13, <1>14, <2>3
      <4>7. CASE x = s
        BY <1>2, <1>13, <4>4, <4>5, <4>6, <4>7 DEF On
      <4>8. CASE x = M
        BY <1>2, <1>13, <4>3, <4>5, <4>6, <4>8 DEF On
      <4> QED
        BY <1>2, <4>7, <4>8
    <3> QED
      BY <3>2, <3>3
  <2>4. ASSUME n = k, m = k PROVE FALSE
    BY <1>1, <2>4 DEF On
  <2> QED
    BY <2>1, <2>2, <2>3, <2>4
<1> QED
  BY <1>12, <1>17, <1>18, <1>19, <1>20, <1>21, <1>22 DEF Bounded, u

-----------------------------------------------------------------------------
(* Colours under rotation.                                                 *)

Black(c, n) == IF c[n] = "black" THEN 1 ELSE 0

\* h[n] black nodes are passed on every way down from n.
Balanced(ch, c, N, h) ==
  /\ h \in [Keys \cup {NULL} -> Int]
  /\ h[NULL] = 0
  /\ \A n \in N, x \in Sides : h[n] = Black(c, n) + h[ch[x][n]]

\* No red node but z has a red parent, or none.
Reds(pa, c, N, z) ==
  \A n \in N : c[n] = "red" /\ n # z => pa[n] # NULL /\ c[pa[n]] = "black"

\* Two red nodes change places: no way down gains or loses a black node.
LEMMA RotateReds ==
  ASSUME NEW t, NEW N \in SUBSET Keys, NEW b, NEW c, NEW h, NEW e \in N, NEW s \in Sides,
         Linked(t, N), Bounded(t, N, b), Balanced(t.child, c, N, h),
         NEW up \in N, up = t.child[Mirror(s)][e],
         c[e] = "red", c[up] = "red",
         Reds(t.parent, c, N, up), t.parent[e] # NULL, c[t.parent[e]] = "black"
  PROVE  /\ Balanced(Rotate(t, e, s).child, c, N, h)
         /\ Reds(Rotate(t, e, s).parent, c, N, e)
<1> DEFINE M == Mirror(s)
           ch == t.child
           pa == t.parent
           moved == ch[s][up]
           p == pa[e]
           ch2 == Rotate(t, e, s).child
           pa2 == Rotate(t, e, s).parent
<1>1. M \in Sides /\ Sides = {s, M} /\ M # s
  BY SidesFacts
<1>2. up # NULL /\ NULL \notin N /\ ch \in [Sides -> [Keys -> N \cup {NULL}]]
  BY KeysAssumption DEF NULL, Linked
<1>order. InOrder(t, N, b, e, s)
  BY <1>2, RotationNodes
<1>3. up # e /\ pa[up] = e
  BY <1>2, <1>order DEF InOrder
<1>4. moved # NULL => moved \in N /\ pa[moved] = up /\ moved # e /\ moved # up
  BY <1>2, <1>order DEF InOrder
<1>5. p \in N /\ p # e /\ p # up /\ p # moved
  BY <1>2, <1>order DEF InOrder
<1>6. \A x \in Sides, n \in N :
        ch2[x][n] = IF n = e /\ x = M THEN moved
                    ELSE IF n = up /\ x = s THEN e
                    ELSE IF n = p /\ ch[x][p] = e THEN up
                    ELSE ch[x][n]
  BY DEF Rotate
<1>7. \A n \in N : pa2[n] = IF n = up THEN p ELSE IF n = e THEN up
                            ELSE IF n = moved THEN e ELSE pa[n]
  BY DEF Rotate
<1>8. \A n \in N, x \in Sides : h[n] = Black(c, n) + h[ch[x][n]]
  BY DEF Balanced
<1>9. ch[M][e] = up
  OBVIOUS
<1>10. h \in [Keys \cup {NULL} -> Int]
  BY DEF Balanced
<1> HIDE DEF M, ch, pa, ch2, pa2, p
<1>11. h[moved] = h[up] /\ h[up] = h[e]
  <2>1. h[up] = Black(c, up) + h[moved]
    BY <1>8
  <2>2. h[e] = Black(c, e) + h[up]
    BY <1>1, <1>8, <1>9
  <2>3. h[up] \in Int /\ h[moved] \in Int
    BY <1>2, <1>4, <1>10
  <2>4. Black(c, up) = 0 /\ Black(c, e) = 0
    BY DEF Black
  <2> QED
    <3> HIDE DEF moved
    <3>1. h[up] = 0 + h[moved] /\ h[e] = 0 + h[up]
      BY <2>1, <2>2, <2>4
    <3>2. 0 + h[moved] = h[moved] /\ 0 + h[up] = h[up]
      BY <2>3
    <3> QED
      BY <3>1, <3>2
<1> HIDE DEF moved
<1>12. ASSUME NEW n \in N, NEW x \in Sides PROVE h[ch2[x][n]] = h[ch[x][n]]
  <2>1. CASE n = e /\ x = M
    BY <1>6, <1>9, <1>11, <2>1
  <2>2. CASE n = up /\ x = s
    BY <1>1, <1>3, <1>6, <1>11, <2>2 DEF moved
  <2>3. CASE n = p /\ ch[x][p] = e
    BY <1>5, <1>6, <1>11, <2>3
  <2>4. CASE ~(n = e /\ x = M) /\ ~(n = up /\ x = s) /\ ~(n = p /\ ch[x][p] = e)
    BY <1>6, <2>4
  <2> QED
    BY <2>1, <2>2, <2>3, <2>4
<1>13. Balanced(ch2, c, N, h)
  BY <1>8, <1>12 DEF Balanced
<1>14. \A n \in N : c[n] = "red" /\ n # up => pa[n] # NULL /\ c[pa[n]] = "black"
  BY DEF Reds, pa
<1>15. Reds(pa2, c, N, e)
  <2> SUFFICES ASSUME NEW n \in N, c[n] = "red", n # e PROVE pa2[n] # NULL /\ c[pa2[n]] = "black"
    BY DEF Reds
  <2>1. CASE n = up
    BY <1>5, <1>7, <2>1, <1>2 DEF p, pa
  <2>2. CASE n = moved /\ n # up
    BY <1>2, <1>4, <1>14, <2>2
  <2>3. CASE n # moved /\ n # up
    BY <1>7, <1>14, <2>3
  <2> QED
    BY <2>1, <2>2, <2>3
<1> QED
  BY <1>13, <1>15 DEF ch2, pa2

\* The child of e that is about to take the place of e is red, below it is z,
\* and z alone may have a red parent.
TopHeavy(t, N, c, e, s, up, z) ==
  /\ c \in [Keys -> {"none", "red", "black"}]
  /\ up \in N /\ up = t.child[Mirror(s)][e]
  /\ z \in N /\ z = t.child[Mirror(s)][up]
  /\ c[e] = "black" /\ c[up] = "red"
  /\ t.child[s][e] # NULL => c[t.child[s][e]] # "red"
  /\ Reds(t.parent, c, N, z)

Recolored(c, up, e) == [c EXCEPT ![up] = "black", ![e] = "red"]

\* A red node takes the place and the colour of its black parent, and that
\* parent becomes red: no way down gains or loses a black node.
LEMMA RotateBlack ==
  ASSUME NEW t, NEW N \in SUBSET Keys, NEW b, NEW c, NEW h, NEW e \in N, NEW s \in Sides,
         Linked(t, N), Bounded(t, N, b), Balanced(t.child, c, N, h),
         NEW up, NEW z, TopHeavy(t, N, c, e, s, up, z)
  PROVE  /\ \E h2 : Balanced(Rotate(t, e, s).child, Recolored(c, up, e), N, h2)
         /\ Reds(Rotate(t, e, s).parent, Recolored(c, up, e), N, z)
<1>heavy. /\ c \in [Keys -> {"none", "red", "black"}]
          /\ up \in N /\ up = t.child[Mirror(s)][e]
          /\ z \in N /\ z = t.child[Mirror(s)][up]
          /\ c[e] = "black" /\ c[up] = "red"
          /\ t.child[s][e] # NULL => c[t.child[s][e]] # "red"
          /\ Reds(t.parent, c, N, z)
  BY DEF TopHeavy
<1> DEFINE c2 == [c EXCEPT ![up] = "black", ![e] = "red"]
<1> DEFINE M == Mirror(s)
           ch == t.child
           pa == t.parent
           moved == ch[s][up]
           p == pa[e]
           ch2 == Rotate(t, e, s).child
           pa2 == Rotate(t, e, s).parent
           h2 == [h EXCEPT ![up] = h[e], ![e] = h[e] - 1]
<1>1. M \in Sides /\ Sides = {s, M} /\ M # s
  BY SidesFacts
<1>2. /\ up # NULL /\ NULL \notin N /\ ch \in [Sides -> [Keys -> N \cup {NULL}]]
      /\ pa \in [Keys -> N \cup {NULL}]
      /\ \A n \in N, x \in Sides : ch[x][n] # NULL => pa[ch[x][n]] = n
      /\ \A n \in N : pa[n] # NULL => \E x \in Sides : ch[x][pa[n]] = n
  BY <1>heavy, KeysAssumption DEF NULL, Linked
<1>order. InOrder(t, N, b, e, s)
  BY <1>heavy, <1>2, RotationNodes
<1>3. up # e /\ pa[up] = e
  BY <1>heavy, <1>2, <1>order DEF InOrder
<1>4. moved # NULL => moved \in N /\ pa[moved] = up /\ moved # e /\ moved # up
  BY <1>heavy, <1>2, <1>order DEF InOrder
<1>5. p # NULL => p \in N /\ p # e /\ p # up /\ p # moved
  BY <1>heavy, <1>2, <1>order DEF InOrder
<1>twins. \A n \in N : ch[s][n] # NULL => ch[s][n] # ch[M][n]
  BY <1>heavy, <1>2, <1>order DEF InOrder
<1>6. \A x \in Sides, n \in N :
        ch2[x][n] = IF n = e /\ x = M THEN moved
                    ELSE IF n = up /\ x = s THEN e
                    ELSE IF n = p /\ ch[x][p] = e THEN up
                    ELSE ch[x][n]
  BY <1>heavy DEF Rotate
<1>7. \A n \in N : pa2[n] = IF n = up THEN p ELSE IF n = e THEN up
                            ELSE IF n = moved THEN e ELSE pa[n]
  BY <1>heavy DEF Rotate
<1>8. \A n \in N, x \in Sides : h[n] = Black(c, n) + h[ch[x][n]]
  BY DEF Balanced
<1>9. ch[M][e] = up /\ ch[M][up] = z
  BY <1>heavy
<1>10. h \in [Keys \cup {NULL} -> Int] /\ h[NULL] = 0
  BY DEF Balanced
<1>11. /\ h2 \in [Keys \cup {NULL} -> Int]
       /\ h2[up] = h[e] /\ h2[e] = h[e] - 1
       /\ \A n \in N \cup {NULL} : n # up /\ n # e => h2[n] = h[n]
       /\ \A n \in N \cup {NULL} : h[n] \in Int
  <2>1. \A n \in N \cup {NULL} : h[n] \in Int
    BY <1>10
  <2>2. h2 \in [Keys \cup {NULL} -> Int] /\ h2[up] = h[e] /\ h2[e] = h[e] - 1
    <3> DEFINE D == Keys \cup {NULL}
    <3>1. up \in D /\ e \in D /\ h[e] \in Int /\ h[e] - 1 \in Int /\ h \in [D -> Int]
      <4>1. up \in D /\ e \in D /\ h \in [D -> Int]
        BY <1>heavy, <1>10
      <4>2. h[e] \in Int
        BY <2>1
      <4>3. h[e] - 1 \in Int
        BY <4>2
      <4> HIDE DEF D
      <4> QED
        BY <4>1, <4>2, <4>3
    <3> HIDE DEF D
    <3> QED
      BY <1>3, <3>1 DEF D
  <2>3. \A n \in N \cup {NULL} : n # up /\ n # e => h2[n] = h[n]
    BY <1>10
  <2> QED
    BY <2>1, <2>2, <2>3
<1>12. /\ c2[up] = "black" /\ c2[e] = "red"
       /\ \A n \in N : n # up /\ n # e => c2[n] = c[n]
  BY <1>heavy, <1>3
<1>below. \A n \in N : pa[n] = e => n = up \/ n = ch[s][e]
  BY <1>1, <1>2, <1>9
<1>uncle. ch[s][e] # NULL => c[ch[s][e]] # "red"
  BY <1>heavy
<1> HIDE DEF M, ch, pa, ch2, pa2, p, moved, h2, c2
<1>13. h[e] = 1 + h[up] /\ h[up] = h[moved]
  <2>1. h[up] = Black(c, up) + h[moved]
    BY <1>heavy, <1>8 DEF moved
  <2>2. h[e] = Black(c, e) + h[up]
    BY <1>heavy, <1>1, <1>8, <1>9
  <2>3. h[up] \in Int /\ h[moved] \in Int
    BY <1>heavy, <1>2, <1>4, <1>10
  <2> QED
    BY <1>heavy, <2>1, <2>2, <2>3 DEF Black
<1>14. moved # up /\ moved # e /\ moved \in N \cup {NULL}
  BY <1>2, <1>4
<1>15. ASSUME NEW n \in N, NEW x \in Sides PROVE h2[n] = Black(c2, n) + h2[ch2[x][n]]
  <2>1. CASE n = e
    <3>1. CASE x = M
      <4>1. h2[ch2[x][n]] = h[e] - 1
        BY <1>2, <1>6, <1>11, <1>13, <1>14, <2>1, <3>1
      <4>2. Black(c2, n) = 0
        BY <1>12, <2>1 DEF Black
      <4> QED
        BY <1>2, <1>11, <2>1, <4>1, <4>2
    <3>2. CASE x = s
      <4>1. ch2[x][n] = ch[s][e]
        BY <1>1, <1>2, <1>3, <1>5, <1>6, <2>1, <3>2
      <4>2. ch[s][e] # up /\ ch[s][e] # e /\ ch[s][e] \in N \cup {NULL}
        <5>1. ch[s][e] \in N \cup {NULL}
          BY <1>2
        <5>2. ch[s][e] # up
          BY <1>2, <1>twins, <1>9
        <5>3. ch[s][e] # e
          BY <1>2, <1>3, <1>5 DEF p
        <5> QED
          BY <5>1, <5>2, <5>3
      <4>3. h[e] = 1 + h[ch[s][e]]
        BY <1>heavy, <1>8 DEF Black
      <4>4. h2[ch2[x][n]] = h[e] - 1
        BY <1>11, <4>1, <4>2, <4>3
      <4>5. Black(c2, n) = 0
        BY <1>12, <2>1 DEF Black
      <4> QED
        BY <1>2, <1>11, <2>1, <4>4, <4>5
    <3> QED
      BY <1>1, <3>1, <3>2
  <2>2. CASE n = up
    <3>1. CASE x = s
      <4>1. ch2[x][n] = e
        BY <1>1, <1>3, <1>6, <2>2, <3>1
      <4>2. Black(c2, n) = 1
        BY <1>12, <2>2 DEF Black
      <4> QED
        BY <1>11, <2>2, <4>1, <4>2
    <3>2. CASE x = M
      <4>1. ch2[x][n] = z
        BY <1>1, <1>2, <1>3, <1>5, <1>6, <1>9, <2>2, <3>2
      <4>2. pa[z] = up
        <5>1. z \in N /\ z # NULL
          BY <1>heavy, <1>2
        <5> QED
          BY <1>1, <1>2, <1>9, <5>1
      <4>3. z # e /\ z # up
        BY <1>2, <1>3, <1>5, <4>2 DEF p
      <4>4. h[up] = Black(c, up) + h[z]
        BY <1>heavy, <1>1, <1>8, <1>9, <1>heavy
      <4>5. h2[ch2[x][n]] = h[up]
        <5>1. z \in N \cup {NULL} /\ ch2[x][n] = z
          BY <1>heavy, <4>1
        <5>2. h2[z] = h[z]
          BY <1>11, <4>3, <5>1
        <5>3. Black(c, up) = 0
          BY <1>heavy DEF Black
        <5>4. h[z] \in Int
          BY <1>11, <5>1
        <5> QED
          BY <4>4, <5>1, <5>2, <5>3, <5>4
      <4>6. Black(c2, n) = 1
        BY <1>12, <2>2 DEF Black
      <4> QED
        BY <1>11, <1>13, <2>2, <4>5, <4>6
    <3> QED
      BY <1>1, <3>1, <3>2
  <2>3. CASE n # e /\ n # up
    <3>1. h2[n] = h[n] /\ Black(c2, n) = Black(c, n)
      BY <1>11, <1>12, <2>3 DEF Black
    <3>2. CASE n = p /\ ch[x][p] = e
      <4>1. ch2[x][n] = up
        BY <1>6, <2>3, <3>2
      <4> QED
        BY <1>8, <1>11, <3>1, <3>2, <4>1
    <3>3. CASE ~(n = p /\ ch[x][p] = e)
      <4>1. ch2[x][n] = ch[x][n] /\ ch[x][n] \in N \cup {NULL}
        BY <1>2, <1>6, <2>3, <3>3
      <4>2. ch[x][n] # NULL => pa[ch[x][n]] = n
        BY <1>2
      <4>3. ch[x][n] # e /\ ch[x][n] # up
        BY <1>2, <1>3, <2>3, <3>3, <4>2 DEF p
      <4> QED
        BY <1>8, <1>11, <3>1, <4>1, <4>3
    <3> QED
      BY <3>2, <3>3
  <2> QED
    BY <2>1, <2>2, <2>3
<1>16. h2[NULL] = 0
  BY <1>2, <1>10, <1>11
<1>17. Balanced(ch2, c2, N, h2)
  BY <1>11, <1>15, <1>16 DEF Balanced
<1>18. \A n \in N : c[n] = "red" /\ n # z => pa[n] # NULL /\ c[pa[n]] = "black"
  BY <1>heavy DEF Reds, pa
<1>19. Reds(pa2, c2, N, z)
  <2> SUFFICES ASSUME NEW n \in N, c2[n] = "red", n # z PROVE pa2[n] # NULL /\ c2[pa2[n]] = "black"
    BY DEF Reds
  <2>1. n # up
    BY <1>12
  <2>2. CASE n = e
    BY <1>2, <1>3, <1>7, <1>12, <2>2
  <2>3. CASE n # e
    <3>red. c[n] = "red"
      BY <1>12, <2>1, <2>3
    <3>1. c[n] = "red" /\ pa[n] # NULL /\ c[pa[n]] = "black" /\ pa[n] \in N
      <4>1. pa[n] # NULL /\ c[pa[n]] = "black"
        BY <1>18, <3>red
      <4>2. pa[n] \in N \cup {NULL}
        BY <1>2
      <4> QED
        BY <3>red, <4>1, <4>2
    <3>2. n # moved
      <4>1. c[up] = "red"
        BY <1>heavy
      <4>2. n # NULL
        BY <1>2
      <4> QED
        BY <1>4, <3>1, <4>1, <4>2
    <3>3. pa[n] # e
      BY <1>2, <1>below, <1>uncle, <2>1, <3>1
    <3>4. c2[pa[n]] = "black"
      BY <1>12, <3>1, <3>3
    <3> QED
      BY <1>7, <2>1, <2>3, <3>1, <3>2, <3>4
  <2> QED
    BY <2>2, <2>3
<1> QED
  BY <1>17, <1>19 DEF ch2, pa2, c2, Recolored

-----------------------------------------------------------------------------
(* The chains of the tree, RB_MIN and RB_NEXT.                             *)

\* A chain does not leave a set that its link does not lead out of.
LEMMA ChainStays ==
  ASSUME NEW link, NEW n, NEW c, IsChain(link, n, c),
         NEW S, n \in S, \A m \in S : link[m] # NULL => link[m] \in S
  PROVE  /\ c \in Seq(Keys) /\ Len(c) \in Nat /\ Len(c) >= 1
         /\ \A i \in 1..Len(c) : c[i] \in S /\ c[i] \in Keys
         /\ Last(c) \in S /\ Last(c) \in Keys /\ link[Last(c)] = NULL
<1>1. /\ c \in Seq(Keys) /\ Len(c) \in Nat /\ Len(c) >= 1 /\ c[1] = n
      /\ \A i \in 1..(Len(c) - 1) : link[c[i]] = c[i + 1]
      /\ link[c[Len(c)]] = NULL
  BY DEF IsChain
<1>2. \A i \in 1..Len(c) : c[i] \in Keys /\ c[i] # NULL
  BY <1>1, KeysAssumption DEF NULL
<1> DEFINE T == {i \in Nat : i + 1 \in 1..Len(c) => c[i + 1] \in S}
<1>3. 0 \in T
  BY <1>1
<1>4. ASSUME NEW i \in Nat, i \in T PROVE i + 1 \in T
  <2> SUFFICES ASSUME (i + 1) + 1 \in 1..Len(c) PROVE c[(i + 1) + 1] \in S
    OBVIOUS
  <2>1. i + 1 \in 1..(Len(c) - 1) /\ i + 1 \in 1..Len(c)
    BY <1>1
  <2>2. c[i + 1] \in S /\ link[c[i + 1]] = c[(i + 1) + 1]
    BY <1>1, <1>4, <2>1
  <2> QED
    BY <1>2, <2>2
<1>5. Nat \subseteq T
  <2> HIDE DEF T
  <2> QED
    BY <1>3, <1>4, Induction
<1>6. ASSUME NEW i \in 1..Len(c) PROVE c[i] \in S
  <2>1. i - 1 \in Nat /\ (i - 1) + 1 = i
    BY <1>1
  <2>2. i - 1 \in T
    BY <1>5, <2>1
  <2> QED
    BY <2>1, <2>2
<1>7. Len(c) \in 1..Len(c)
  BY <1>1
<1> QED
  BY <1>1, <1>2, <1>6, <1>7 DEF Last

\* The width of the interval of a node is the weight on every chain.
Width(N, b) == [k \in Keys |-> IF k \in N THEN b["right"][k] - b["left"][k] ELSE 0]

\* The width is a weight: a natural number that no interval exceeds.
LEMMA WidthType ==
  ASSUME NEW N \in SUBSET Keys, NEW b, b \in [Sides -> [Keys -> 0..Top]], Around(N, b)
  PROVE  /\ Width(N, b) \in [Keys -> Nat]
         /\ \A k \in Keys : Width(N, b)[k] < Top + 1
         /\ \A k \in N : /\ b["left"][k] \in Nat /\ b["right"][k] \in Nat
                         /\ b["left"][k] < k /\ k < b["right"][k]
                         /\ Width(N, b)[k] = b["right"][k] - b["left"][k]
<1>1. Top \in Nat /\ \A k \in Keys : k \in Nat
  BY TopBounds, KeysAssumption
<1>2. ASSUME NEW k \in N
      PROVE  /\ b["left"][k] \in 0..Top /\ b["right"][k] \in 0..Top
             /\ b["left"][k] < k /\ k < b["right"][k]
  BY DEF Around, Inside, On, Sides
<1>3. ASSUME NEW k \in N PROVE b["right"][k] - b["left"][k] \in 0..Top
  BY <1>1, <1>2
<1>4. \A k \in Keys : Width(N, b)[k] \in 0..Top
  BY <1>1, <1>3 DEF Width
<1> QED
  BY <1>1, <1>2, <1>4 DEF Width

\* The loops of RB_MIN and of the descent in RB_NEXT end: LeftSpine is the chain
\* of left children.
LEMMA LeftSpineIsChain ==
  ASSUME NEW b, Linked(tree, Nodes), Bounded(tree, Nodes, b), NEW n \in Keys
  PROVE  IsChain(child["left"], n, LeftSpine(n))
<1> DEFINE link == child["left"]
           w == Width(Nodes, b)
<1>1. Nodes \in SUBSET Keys /\ "left" \in Sides /\ Mirror("left") = "right"
  BY DEF Nodes, Sides, Mirror
<1>2. link \in [Keys -> Nodes \cup {NULL}] /\ \A k \in Keys \ Nodes : link[k] = NULL
  BY <1>1 DEF Linked, tree
<1>3. /\ w \in [Keys -> Nat] /\ Top + 1 \in Nat
      /\ \A k \in Keys : w[k] < Top + 1
      /\ \A k \in Nodes : /\ b["left"][k] \in Nat /\ b["right"][k] \in Nat
                          /\ b["left"][k] < k /\ k < b["right"][k]
                          /\ w[k] = b["right"][k] - b["left"][k]
  <2>1. b \in [Sides -> [Keys -> 0..Top]] /\ Around(Nodes, b)
    BY DEF Bounded
  <2>2. Top + 1 \in Nat
    BY TopBounds
  <2> QED
    BY <1>1, <2>1, <2>2, WidthType
<1> HIDE DEF w
<1>4. ASSUME NEW k \in Keys, link[k] # NULL PROVE w[link[k]] < w[k]
  <2>1. k \in Nodes /\ link[k] \in Nodes
    BY <1>2, <1>4
  <2>2. b["left"][link[k]] = b["left"][k] /\ b["right"][link[k]] = k
    BY <1>1, <1>4, <2>1 DEF Bounded, Hanging, tree
  <2>3. w[link[k]] = k - b["left"][k]
    BY <1>3, <2>1, <2>2
  <2> QED
    BY <1>1, <1>3, <2>1, <2>3, KeysAssumption
<1>5. link \in [Keys -> Keys \cup {NULL}]
  BY <1>1, <1>2
<1> HIDE DEF link
<1>6. IsChain(link, n, Chain(link, n))
  BY <1>3, <1>4, <1>5, ChainIsChain
<1> QED
  BY <1>6 DEF LeftSpine, link

\* The parent's interval is the wider one.
LEMMA ParentIsWider ==
  ASSUME NEW b, Linked(tree, Nodes), Bounded(tree, Nodes, b),
         NEW k \in Nodes, parent[k] # NULL
  PROVE  /\ parent[k] \in Nodes
         /\ \E x \in Sides : /\ child[x][parent[k]] = k
                             /\ b[x][k] = b[x][parent[k]] /\ b[Mirror(x)][k] = parent[k]
         /\ Top - Width(Nodes, b)[parent[k]] < Top - Width(Nodes, b)[k]
<1>1. Nodes \in SUBSET Keys
  BY DEF Nodes
<1>2. /\ \A i \in Keys : Width(Nodes, b)[i] < Top + 1
      /\ \A i \in Nodes : /\ b["left"][i] \in Nat /\ b["right"][i] \in Nat
                          /\ b["left"][i] < i /\ i < b["right"][i]
                          /\ Width(Nodes, b)[i] = b["right"][i] - b["left"][i]
  BY <1>1, WidthType DEF Bounded
<1> DEFINE p == parent[k]
<1>3. p \in Nodes /\ p \in Nat /\ Top \in Nat /\ k # NULL
  <2>1. p \in Nodes
    BY <1>1 DEF Linked, tree
  <2> QED
    BY <1>1, <2>1, TopBounds, KeysAssumption DEF NULL
<1>4. PICK x \in Sides : child[x][p] = k
  BY DEF Linked, tree
<1>5. b[x][k] = b[x][p] /\ b[Mirror(x)][k] = p
  BY <1>3, <1>4 DEF Bounded, Hanging, tree
<1> HIDE DEF p
<1>6. CASE x = "left"
  <2>1. b["left"][k] = b["left"][p] /\ b["right"][k] = p
    BY <1>5, <1>6 DEF Mirror
  <2>2. Top - Width(Nodes, b)[p] < Top - Width(Nodes, b)[k]
    BY <1>2, <1>3, <2>1
  <2> QED
    BY <1>3, <1>4, <1>5, <2>2 DEF p
<1>7. CASE x = "right"
  <2>1. b["right"][k] = b["right"][p] /\ b["left"][k] = p
    BY <1>5, <1>7 DEF Mirror
  <2>2. Top - Width(Nodes, b)[p] < Top - Width(Nodes, b)[k]
    BY <1>2, <1>3, <2>1
  <2> QED
    BY <1>3, <1>4, <1>5, <2>2 DEF p
<1> QED
  BY <1>6, <1>7 DEF Sides

\* A link that leads to parents, if it leads anywhere, comes to its end.
LEMMA UpwardIsChain ==
  ASSUME NEW b, Linked(tree, Nodes), Bounded(tree, Nodes, b), NEW n \in Keys,
         NEW link \in [Keys -> Keys \cup {NULL}],
         \A k \in Keys : link[k] # NULL => link[k] = parent[k]
  PROVE  IsChain(link, n, Chain(link, n))
<1> DEFINE v == Width(Nodes, b)
           w == [k \in Keys |-> Top - v[k]]
<1>1. Nodes \in SUBSET Keys /\ Top \in Nat /\ Top + 1 \in Nat
  BY TopBounds DEF Nodes
<1>2. v \in [Keys -> Nat] /\ \A k \in Keys : v[k] < Top + 1
  BY <1>1, WidthType DEF Bounded
<1> HIDE DEF v
<1>3. \A k \in Keys : w[k] = Top - v[k] /\ w[k] \in Nat /\ w[k] < Top + 1
  <2> SUFFICES ASSUME NEW k \in Keys PROVE Top - v[k] \in Nat /\ Top - v[k] < Top + 1
    OBVIOUS
  <2>1. v[k] \in Nat /\ v[k] < Top + 1
    BY <1>2
  <2> QED
    BY <1>1, <2>1
<1>4. w \in [Keys -> Nat]
  BY <1>3
<1>5. ASSUME NEW k \in Keys, link[k] # NULL PROVE w[link[k]] < w[k]
  <2>1. parent[k] # NULL /\ link[k] = parent[k]
    BY <1>5
  <2>2. k \in Nodes
    BY <2>1 DEF Linked, tree
  <2>3. parent[k] \in Nodes /\ Top - v[parent[k]] < Top - v[k]
    BY <2>1, <2>2, ParentIsWider DEF v
  <2> QED
    BY <1>1, <1>3, <2>1, <2>3
<1> HIDE DEF w
<1> QED
  BY <1>1, <1>3, <1>4, <1>5, ChainIsChain

\* The path from a node to the root is the chain of parents.
LEMMA PathIsChain ==
  ASSUME NEW b, Linked(tree, Nodes), Bounded(tree, Nodes, b), NEW n \in Keys
  PROVE  IsChain(parent, n, Path(n))
<1>1. parent \in [Keys -> Keys \cup {NULL}]
  BY DEF Linked, tree, Nodes
<1> QED
  BY <1>1, UpwardIsChain DEF Path

\* The climb of RB_NEXT ends: RightAncestry is the chain of the ancestors that
\* hold the node on their right.
LEMMA RightAncestryIsChain ==
  ASSUME NEW b, Linked(tree, Nodes), Bounded(tree, Nodes, b), NEW n \in Keys
  PROVE  IsChain(RightChildOf, n, RightAncestry(n))
<1>1. parent \in [Keys -> Keys \cup {NULL}]
  BY DEF Linked, tree, Nodes
<1>2. RightChildOf \in [Keys -> Keys \cup {NULL}]
  BY <1>1 DEF RightChildOf
<1>3. \A k \in Keys : RightChildOf[k] # NULL => RightChildOf[k] = parent[k]
  BY DEF RightChildOf
<1> QED
  BY <1>2, <1>3, UpwardIsChain DEF RightAncestry

\* The end of the left spine is the first node of the interval.
LEMMA LeftmostBelow ==
  ASSUME NEW b, Linked(tree, Nodes), Bounded(tree, Nodes, b), NEW n \in Nodes
  PROVE  LET m == Last(LeftSpine(n))
         IN  /\ m \in Nodes /\ b["left"][m] < m
             /\ \A k \in Nodes : b["left"][n] < k => m <= k
             /\ b["left"][m] = b["left"][n]
<1> DEFINE S == {m \in Nodes : b["left"][m] = b["left"][n]}
           m == Last(LeftSpine(n))
<1>1. Nodes \subseteq Keys /\ "left" \in Sides /\ \A k \in Keys : k \in Nat
  BY KeysAssumption DEF Nodes, Sides
<1>2. IsChain(child["left"], n, LeftSpine(n))
  BY <1>1, LeftSpineIsChain
<1>3. \A k \in S : child["left"][k] # NULL => child["left"][k] \in S
  BY <1>1 DEF Linked, Bounded, Hanging, tree
<1>4. m \in S /\ child["left"][m] = NULL
  <2> HIDE DEF S
  <2>1. n \in S
    BY DEF S
  <2> QED
    BY <1>2, <1>3, <2>1, ChainStays
<1> HIDE DEF m
<1>5. \A k \in Nodes : ~(k < m /\ b["left"][m] < k)
  BY <1>1, <1>4 DEF Bounded, Gaps, On, tree
<1>6. b["left"][m] < m
  BY <1>1, <1>4 DEF Bounded, Around, Inside, On
<1> QED
  BY <1>1, <1>4, <1>5, <1>6 DEF m

\* RB_MIN is the least node (tree.h:731-745).
LEMMA RB_MIN_IsLeast ==
  ASSUME NEW b, Linked(tree, Nodes), Bounded(tree, Nodes, b)
  PROVE  IF Nodes = {} THEN RB_MIN = NULL
         ELSE RB_MIN \in Nodes /\ \A k \in Nodes : RB_MIN <= k
<1>1. Nodes \subseteq Keys /\ "left" \in Sides /\ \A k \in Keys : k \in Nat /\ 0 < k
  BY KeysAssumption DEF Nodes, Sides
<1>2. CASE Nodes = {}
  <2>1. rbh_root = NULL
    BY <1>2 DEF Linked, tree
  <2> QED
    BY <1>2, <2>1 DEF RB_MIN
<1>3. CASE Nodes # {}
  <2>1. rbh_root \in Nodes /\ rbh_root # NULL
    BY <1>1, <1>3 DEF Linked, tree, NULL
  <2>2. b["left"][rbh_root] = 0
    BY <1>1, <2>1 DEF Bounded, Hanging, tree, Edge, NULL
  <2>3. RB_MIN = Last(LeftSpine(rbh_root))
    BY <2>1 DEF RB_MIN
  <2>4. RB_MIN \in Nodes /\ \A k \in Nodes : b["left"][rbh_root] < k => RB_MIN <= k
    BY <2>1, <2>3, LeftmostBelow
  <2> QED
    BY <1>1, <1>3, <2>2, <2>4
<1> QED
  BY <1>2, <1>3

\* RB_NEXT is the next greater node (tree.h:697-718).
LEMMA RB_NEXT_IsNext ==
  ASSUME NEW b, Linked(tree, Nodes), Bounded(tree, Nodes, b), NEW n \in Nodes
  PROVE  IF RB_NEXT(n) = NULL THEN \A k \in Nodes : k <= n
         ELSE RB_NEXT(n) \in Nodes /\ n < RB_NEXT(n) /\ \A k \in Nodes : n < k => RB_NEXT(n) <= k
<1>1. /\ Nodes \subseteq Keys /\ Sides = {"left", "right"}
      /\ \A k \in Keys : k \in Nat /\ 0 < k /\ k < Top /\ k # NULL
      /\ Top \in Nat /\ Mirror("left") = "right" /\ Mirror("right") = "left"
  BY KeysAssumption, TopBounds DEF Nodes, Sides, NULL, Mirror
<1>2. CASE child["right"][n] # NULL
  <2> DEFINE c == child["right"][n]
             m == Last(LeftSpine(c))
  <2>1. RB_NEXT(n) = m
    BY <1>2 DEF RB_NEXT
  <2>2. c \in Nodes /\ b["left"][c] = n
    BY <1>1, <1>2 DEF Linked, Bounded, Hanging, tree
  <2> HIDE DEF c
  <2>3. m \in Nodes /\ b["left"][m] < m /\ b["left"][m] = n /\ \A k \in Nodes : n < k => m <= k
    BY <2>2, LeftmostBelow
  <2> HIDE DEF m
  <2> QED
    BY <1>1, <2>1, <2>3
<1>3. CASE child["right"][n] = NULL
  <2> DEFINE S == {m \in Nodes : b["right"][m] = b["right"][n]}
             a == Last(RightAncestry(n))
  <2>1. RB_NEXT(n) = parent[a]
    BY <1>3 DEF RB_NEXT
  <2>2. IsChain(RightChildOf, n, RightAncestry(n))
    BY <1>1, RightAncestryIsChain
  <2>3. ASSUME NEW k \in S, RightChildOf[k] # NULL PROVE RightChildOf[k] \in S
    <3>1. /\ k \in Keys /\ parent[k] # NULL
           /\ child["right"][parent[k]] = k /\ RightChildOf[k] = parent[k]
      BY <1>1, <2>3 DEF RightChildOf
    <3>2. parent[k] \in Nodes
      BY <3>1 DEF Linked, tree
    <3>3. b["right"][k] = b["right"][parent[k]]
      BY <1>1, <3>1, <3>2 DEF Bounded, Hanging, tree
    <3> QED
      BY <3>1, <3>2, <3>3
  <2>4. a \in S /\ RightChildOf[a] = NULL
    <3> HIDE DEF S
    <3>1. n \in S
      BY DEF S
    <3> QED
      BY <2>2, <2>3, <3>1, ChainStays
  <2> HIDE DEF a
  <2>5. a \in Nodes /\ a \in Keys /\ b["right"][a] = b["right"][n]
    BY <1>1, <2>4
  <2>6. \A k \in Nodes : ~(n < k /\ k < b["right"][n])
    BY <1>1, <1>3 DEF Bounded, Gaps, On, tree
  <2>7. n < b["right"][n] /\ b["right"][n] \in Nat
    <3>1. n < b["right"][n]
      BY <1>1 DEF Bounded, Around, Inside, On
    <3>2. b["right"][n] \in 0..Top
      BY <1>1 DEF Bounded
    <3> QED
      BY <1>1, <3>1, <3>2
  <2>8. CASE parent[a] = NULL
    <3>1. a = rbh_root /\ a # NULL
      BY <1>1, <2>5, <2>8 DEF Linked, tree
    <3>2. b["right"][a] = Top
      BY <1>1, <3>1 DEF Bounded, Hanging, tree, Edge
    <3> QED
      BY <1>1, <2>1, <2>5, <2>6, <2>8, <3>2
  <2>9. CASE parent[a] # NULL
    <3>1. child["right"][parent[a]] # a
      BY <2>4, <2>5, <2>9 DEF RightChildOf
    <3>2. parent[a] \in Nodes /\ \E x \in Sides : child[x][parent[a]] = a
      BY <2>5, <2>9 DEF Linked, tree
    <3>3. child["left"][parent[a]] = a
      BY <1>1, <3>1, <3>2
    <3>4. b["right"][a] = parent[a]
      BY <1>1, <2>5, <3>2, <3>3 DEF Bounded, Hanging, tree
    <3> QED
      BY <1>1, <2>1, <2>5, <2>6, <2>7, <2>9, <3>2, <3>4
  <2> QED
    BY <2>8, <2>9
<1> QED
  BY <1>2, <1>3

-----------------------------------------------------------------------------
(* The inductive invariant.                                                *)

Types ==
  /\ color \in [Keys -> {"none", "red", "black"}]
  /\ pc \in {"idle", "find", "insert", "color", "check", "free", "done", "crashed"}
  /\ elm \in Keys \cup {NULL} /\ tmp \in Keys \cup {NULL} /\ above \in Keys \cup {NULL}

\* A search is at a node in whose interval the name falls, or at the free
\* place where the name belongs.
Searching(b) ==
  pc \in {"find", "insert"} =>
    /\ elm \in Keys
    /\ tmp # NULL => tmp \in Nodes /\ Inside(b, tmp, elm)
    /\ tmp = NULL =>
         IF above = NULL THEN Nodes = {}
         ELSE /\ above \in Nodes /\ elm # above
              /\ child[SideOf(elm, above)][above] = NULL /\ Inside(b, above, elm)

\* The intervals, and the colours: in RB_INSERT_COLOR elm alone may have a red
\* parent, or be a red root.
Shape == \E b : Bounded(tree, Nodes, b) /\ Searching(b)

Colors == \E h : /\ Balanced(child, color, Nodes, h)
                 /\ Reds(parent, color, Nodes, IF pc = "color" THEN elm ELSE NULL)

\* The nodes that a walk has left behind, and what each loop relies on.
Passed == {n \in Nodes : elm = NULL \/ n < elm}

Phases ==
  /\ pc = "insert" => elm \notin Nodes /\ answer = {<<elm, FALSE>>}
  /\ pc = "color" => elm \in Nodes /\ color[elm] = "red"
  /\ pc \in {"check", "free"} => elm \in Nodes \cup {NULL}
  /\ pc = "check" => visited = Passed
  /\ pc = "free" => freed = Passed /\ visited = Nodes
  /\ pc = "done" => freed = Nodes
  /\ pc = "crashed" => freed \subseteq Nodes
  /\ pc \notin {"free", "done", "crashed"} => freed = {}
  /\ pc \notin {"check", "free", "done", "crashed"} => visited = {}

\* The inductive invariant.
IInv == Types /\ Linked(tree, Nodes) /\ Shape /\ Colors /\ Phases

-----------------------------------------------------------------------------
(* Lookup, and the descent of an insertion.                                *)

\* The empty tree satisfies the invariant.
LEMMA InitKeeps == Init => IInv
<1> SUFFICES ASSUME Init PROVE IInv
  OBVIOUS
<1>1. Nodes = {}
  BY DEF Init, Nodes
<1>2. tree.root = NULL /\ tree.child = child /\ tree.parent = parent
      /\ \A x \in Sides, n \in Keys : child[x][n] = NULL
  BY DEF Init, tree
<1>3. Types
  BY DEF Init, Types
<1>4. Linked(tree, {})
  BY <1>2 DEF Init, Linked
<1>5. Shape
  <2> DEFINE b == [x \in Sides |-> [n \in Keys |-> 0]]
  <2>1. b \in [Sides -> [Keys -> 0..Top]]
    BY TopBounds
  <2> HIDE DEF b
  <2>2. Bounded(tree, {}, b)
    BY <1>2, <2>1 DEF Bounded, Hanging, Around, Gaps, Ends, Nested
  <2>3. Searching(b)
    BY DEF Init, Searching
  <2> QED
    BY <1>1, <2>2, <2>3 DEF Shape
<1>6. Colors
  <2> DEFINE h == [n \in Keys \cup {NULL} |-> 0]
  <2>1. Balanced(child, color, {}, h) /\ Reds(parent, color, {}, NULL)
    BY DEF Balanced, Reds
  <2> HIDE DEF h
  <2> QED
    BY <1>1, <2>1 DEF Colors, Init
<1>7. Phases
  BY DEF Init, Phases
<1> QED
  BY <1>1, <1>3, <1>4, <1>5, <1>6, <1>7 DEF IInv

\* A step that leaves the links alone.
LEMMA SameTree ==
  ASSUME UNCHANGED links
  PROVE  tree' = tree /\ Nodes' = Nodes /\ child' = child /\ color' = color /\ parent' = parent
  BY DEF links, tree, Nodes

\* On the way down from a node.
LEMMA DescendKeeps ==
  ASSUME IInv, pc \in {"find", "insert"}, tmp \notin {NULL, elm}, Descend
  PROVE  IInv'
<1>1. /\ tree' = tree /\ Nodes' = Nodes /\ child' = child /\ color' = color /\ parent' = parent
      /\ pc' = pc /\ elm' = elm /\ above' = tmp /\ tmp' = child[SideOf(elm, tmp)][tmp]
      /\ answer' = answer /\ visited' = visited /\ freed' = freed
  BY SameTree DEF Descend
<1>2. Nodes \subseteq Keys /\ elm \in Keys /\ tmp \in Nodes /\ \A k \in Keys : k \in Nat
  BY KeysAssumption DEF IInv, Shape, Searching, Nodes
<1>3. PICK b : Bounded(tree, Nodes, b) /\ Searching(b)
  BY DEF IInv, Shape
<1> DEFINE s == SideOf(elm, tmp)
           c == child[s][tmp]
<1>4. s \in Sides
  BY DEF SideOf, Sides
<1>5. Inside(b, tmp, elm)
  BY <1>3 DEF Searching
<1>6. On(s, elm, tmp)
  BY <1>2 DEF On, SideOf
<1> HIDE DEF s
<1>7. c \in Nodes \cup {NULL}
  BY <1>2, <1>4 DEF IInv, Linked, tree
<1>8. c # NULL => Inside(b, c, elm)
  <2> SUFFICES ASSUME c # NULL PROVE Inside(b, c, elm)
    OBVIOUS
  <2>1. b[s][c] = b[s][tmp] /\ b[Mirror(s)][c] = tmp
    BY <1>2, <1>3, <1>4 DEF Bounded, Hanging, tree
  <2>2. On(s, b[s][c], elm)
    BY <1>4, <1>5, <2>1 DEF Inside
  <2>3. On(Mirror(s), b[Mirror(s)][c], elm)
    BY <1>4, <1>6, <2>1 DEF On, Mirror, Sides
  <2> QED
    BY <1>4, <2>2, <2>3, SidesFacts DEF Inside
<1> HIDE DEF c
<1>9. /\ above' # NULL /\ above' \in Nodes /\ elm # above'
       /\ tmp' = c /\ c = child[SideOf(elm, above')][above']
  BY <1>1, <1>2 DEF c, s
<1>10. Searching(b)'
  BY <1>1, <1>2, <1>5, <1>7, <1>8, <1>9 DEF Searching
<1>11. Shape'
  BY <1>1, <1>3, <1>10 DEF Shape
<1>12. Colors'
  BY <1>1 DEF IInv, Colors
<1>13. Types' /\ Phases'
  <2>1. Types'
    BY <1>1, <1>2, <1>7, <1>9 DEF IInv, Types
  <2>2. Phases'
    BY <1>1 DEF IInv, Phases
  <2> QED
    BY <2>1, <2>2
<1> QED
  BY <1>1, <1>11, <1>12, <1>13 DEF IInv

\* Every name falls in the interval of the root.
LEMMA RootContains ==
  ASSUME NEW b, Bounded(tree, Nodes, b), rbh_root # NULL, NEW k \in Keys
  PROVE  Inside(b, rbh_root, k)
  BY TopBounds DEF Bounded, Hanging, tree, Inside, On, Edge, Sides, NULL

\* The start of a lookup, at the root.
LEMMA LookupKeeps ==
  ASSUME IInv, Lookup
  PROVE  IInv'
<1>1. PICK k \in Keys :
        /\ tree' = tree /\ Nodes' = Nodes /\ child' = child /\ color' = color /\ parent' = parent
        /\ pc = "idle" /\ pc' = "find" /\ elm' = k /\ tmp' = rbh_root /\ above' = NULL
        /\ visited' = visited /\ freed' = freed
  BY SameTree DEF Lookup
<1>2. PICK b : Bounded(tree, Nodes, b)
  BY DEF IInv, Shape
<1>3. /\ rbh_root \in Nodes \cup {NULL} /\ (Nodes # {} => rbh_root \in Nodes)
      /\ Nodes \subseteq Keys /\ NULL \notin Keys
  BY KeysAssumption DEF IInv, Linked, tree, Nodes, NULL
<1>4. Searching(b)'
  BY <1>1, <1>2, <1>3, RootContains DEF Searching
<1>5. Shape'
  BY <1>1, <1>2, <1>4 DEF Shape
<1>6. Colors'
  BY <1>1 DEF IInv, Colors
<1>7. Types' /\ Phases'
  BY <1>1, <1>3 DEF IInv, Types, Phases
<1> QED
  BY <1>1, <1>5, <1>6, <1>7 DEF IInv

\* A search that has come to nothing is for a name that is not in the tree.
LEMMA NotFound ==
  ASSUME IInv, pc \in {"find", "insert"}, tmp = NULL
  PROVE  elm \notin Nodes
<1>1. PICK b : Bounded(tree, Nodes, b) /\ Searching(b)
  BY DEF IInv, Shape
<1>2. CASE above = NULL
  BY <1>1, <1>2 DEF Searching
<1>3. CASE above # NULL
  <2> DEFINE s == SideOf(elm, above)
  <2>1. /\ elm \in Keys /\ above \in Nodes /\ elm # above /\ child[s][above] = NULL
        /\ Inside(b, above, elm) /\ above \in Keys
    BY <1>1, <1>3 DEF Searching, Nodes
  <2>2. s \in Sides /\ On(s, elm, above)
    BY <2>1, KeysAssumption DEF SideOf, Sides, On
  <2> HIDE DEF s
  <2>3. On(s, b[s][above], elm)
    BY <2>1, <2>2 DEF Inside
  <2> QED
    BY <1>1, <2>1, <2>2, <2>3 DEF Bounded, Gaps, tree
<1> QED
  BY <1>2, <1>3

\* The end of RB_FIND: the answer is whether the name is in the tree.
LEMMA FindEndKeeps ==
  ASSUME IInv, FindEnd
  PROVE  /\ IInv'
         /\ (tmp = elm) <=> (elm \in Nodes)
         /\ elm \in Keys
<1>1. /\ tree' = tree /\ Nodes' = Nodes /\ child' = child /\ color' = color /\ parent' = parent
      /\ pc = "find" /\ elm' = elm /\ above' = NULL /\ answer' = {<<elm, tmp = elm>>}
      /\ visited' = visited /\ freed' = freed /\ tmp \in {NULL, elm}
      /\ IF tmp = elm THEN pc' = "idle" /\ tmp' = tmp ELSE pc' = "insert" /\ tmp' = rbh_root
  BY SameTree DEF FindEnd
<1>2. PICK b : Bounded(tree, Nodes, b) /\ Searching(b)
  BY DEF IInv, Shape
<1>3. /\ rbh_root \in Nodes \cup {NULL} /\ (Nodes # {} => rbh_root \in Nodes)
      /\ Nodes \subseteq Keys /\ NULL \notin Keys
  BY KeysAssumption DEF IInv, Linked, tree, Nodes, NULL
<1>4. elm \in Keys /\ (tmp # NULL => tmp \in Nodes)
  BY <1>1, <1>2 DEF Searching
<1>5. IF tmp = elm THEN elm \in Nodes ELSE tmp = NULL /\ elm \notin Nodes
  BY <1>1, <1>3, <1>4, NotFound
<1>6. Searching(b)'
  BY <1>1, <1>2, <1>3, <1>4, RootContains DEF Searching
<1>7. Shape'
  BY <1>1, <1>2, <1>6 DEF Shape
<1>8. Colors'
  BY <1>1 DEF IInv, Colors
<1>9. Types' /\ Phases'
  <2>1. Types'
    BY <1>1, <1>3, <1>4 DEF IInv, Types
  <2>2. CASE tmp = elm
    BY <1>1, <2>1, <2>2 DEF IInv, Phases
  <2>3. CASE tmp # elm
    <3>1. answer' = {<<elm, FALSE>>}
      BY <1>1, <2>3
    <3> QED
      BY <1>1, <1>5, <2>1, <2>3, <3>1 DEF IInv, Phases
  <2> QED
    BY <2>2, <2>3
<1> QED
  BY <1>1, <1>4, <1>5, <1>7, <1>8, <1>9 DEF IInv

-----------------------------------------------------------------------------
(* The insertion.                                                          *)

\* RB_INSERT hangs the new name at the free place of its interval, and only a
\* name that the lookup did not find.
LEMMA LinkKeeps ==
  ASSUME IInv, Link
  PROVE  /\ IInv'
         /\ elm \in Keys \ Nodes /\ Nodes' = Nodes \cup {elm} /\ answer = {<<elm, FALSE>>}
<1>1. pc = "insert" /\ tmp \in {NULL, elm} /\ elm \notin Nodes /\ answer = {<<elm, FALSE>>}
  BY DEF Link, IInv, Phases
<1>2. PICK b : Bounded(tree, Nodes, b) /\ Searching(b)
  BY DEF IInv, Shape
<1>3. elm \in Keys /\ tmp = NULL /\ tmp # elm
  BY <1>1, <1>2, KeysAssumption DEF Searching, NULL
<1>4. /\ IF above = NULL THEN Nodes = {}
         ELSE /\ above \in Nodes /\ elm # above
              /\ child[SideOf(elm, above)][above] = NULL /\ Inside(b, above, elm)
  BY <1>1, <1>2, <1>3 DEF Searching
<1>5. /\ parent' = [parent EXCEPT ![elm] = above]
      /\ child' = [side \in Sides |->
               IF above # NULL /\ side = SideOf(elm, above)
               THEN [child[side] EXCEPT ![elm] = NULL, ![above] = elm]
               ELSE [child[side] EXCEPT ![elm] = NULL]]
      /\ rbh_root' = IF above = NULL THEN elm ELSE rbh_root
      /\ color' = [color EXCEPT ![elm] = "red"]
      /\ pc' = "color"
      /\ elm' = elm /\ tmp' = tmp /\ above' = above
      /\ answer' = answer /\ visited' = visited /\ freed' = freed
  BY <1>3 DEF Link, locals
<1>6. /\ Nodes \in SUBSET Keys /\ NULL \notin Keys
      /\ color \in [Keys -> {"none", "red", "black"}]
      /\ child \in [Sides -> [Keys -> Nodes \cup {NULL}]]
      /\ parent \in [Keys -> Nodes \cup {NULL}]
      /\ Linked(tree, Nodes)
  BY KeysAssumption DEF IInv, Types, Linked, tree, Nodes, NULL
<1>7. /\ \A n \in Keys : color'[n] = IF n = elm THEN "red" ELSE color[n]
      /\ color' \in [Keys -> {"none", "red", "black"}]
  BY <1>3, <1>5, <1>6
<1>8. Nodes' = Nodes \cup {elm}
  BY <1>3, <1>7 DEF Nodes
<1>9. tree' = WithLeaf(tree, elm, above)
  BY <1>5 DEF WithLeaf, tree
<1>10. Linked(tree', Nodes') /\ \E bb : Bounded(tree', Nodes', bb)
  <2>1. CASE above = NULL
    <3>1. Nodes = {} /\ Nodes' = {elm} /\ tree' = WithLeaf(tree, elm, NULL)
      BY <1>4, <1>8, <1>9, <2>1
    <3>2. Linked(tree, {}) /\ Bounded(tree, {}, b)
      BY <1>2, <1>6, <3>1
    <3> QED
      BY <1>3, <3>1, <3>2, LinkRoot
  <2>2. CASE above # NULL
    <3>1. tree.child[SideOf(elm, above)][above] = NULL
      BY <1>4, <2>2 DEF tree
    <3> QED
      BY <1>1, <1>2, <1>3, <1>4, <1>6, <1>8, <1>9, <2>2, <3>1, LinkBelow
  <2> QED
    BY <2>1, <2>2
<1>11. Shape'
  <2>1. \A bb : Searching(bb)'
    BY <1>5 DEF Searching
  <2> QED
    BY <1>10, <2>1 DEF Shape
<1>12. PICK h : Balanced(child, color, Nodes, h) /\ Reds(parent, color, Nodes, NULL)
  BY <1>1 DEF IInv, Colors
<1>13. \A x \in Sides, n \in Keys :
         child'[x][n] = IF above # NULL /\ x = SideOf(elm, above) /\ n = above THEN elm
                        ELSE IF n = elm THEN NULL ELSE child[x][n]
  <2> SUFFICES ASSUME NEW x \in Sides, NEW n \in Keys
               PROVE  child'[x][n] = IF above # NULL /\ x = SideOf(elm, above) /\ n = above THEN elm
                        ELSE IF n = elm THEN NULL ELSE child[x][n]
    OBVIOUS
  <2>1. child[x] \in [Keys -> Nodes \cup {NULL}]
    BY <1>6
  <2> QED
    BY <1>3, <1>4, <1>5, <2>1
<1>14. Colors'
  <2> DEFINE g == [h EXCEPT ![elm] = 0]
  <2>1. /\ h \in [Keys \cup {NULL} -> Int] /\ h[NULL] = 0
        /\ \A n \in Nodes, x \in Sides : h[n] = Black(color, n) + h[child[x][n]]
    BY <1>12 DEF Balanced
  <2>2. /\ g \in [Keys \cup {NULL} -> Int] /\ g[elm] = 0 /\ g[NULL] = 0
        /\ \A n \in Nodes \cup {NULL} : g[n] = h[n]
    BY <1>1, <1>3, <1>6, <2>1
  <2> HIDE DEF g
  <2>3. ASSUME NEW n \in Nodes', NEW x \in Sides
        PROVE  g[n] = Black(color', n) + g[child'[x][n]]
    <3>1. CASE n = elm
      <4>1. child'[x][n] = NULL
        BY <1>3, <1>4, <1>13, <3>1
      <4>2. Black(color', n) = 0
        BY <1>3, <1>7, <3>1 DEF Black
      <4> QED
        BY <2>2, <3>1, <4>1, <4>2
    <3>2. CASE n # elm
      <4>1. n \in Nodes /\ n \in Keys /\ Black(color', n) = Black(color, n)
        BY <1>6, <1>7, <1>8, <3>2 DEF Black
      <4>2. CASE above # NULL /\ x = SideOf(elm, above) /\ n = above
        <5>1. child'[x][n] = elm /\ child[x][n] = NULL
          BY <1>4, <1>13, <4>1, <4>2
        <5> QED
          BY <2>1, <2>2, <4>1, <5>1
      <4>3. CASE ~(above # NULL /\ x = SideOf(elm, above) /\ n = above)
        <5>1. child'[x][n] = child[x][n] /\ child[x][n] \in Nodes \cup {NULL}
          BY <1>6, <1>13, <3>2, <4>1, <4>3
        <5> QED
          BY <2>1, <2>2, <4>1, <5>1
      <4> QED
        BY <4>2, <4>3
    <3> QED
      BY <3>1, <3>2
  <2>4. Balanced(child', color', Nodes', g)
    BY <2>2, <2>3 DEF Balanced
  <2>5. Reds(parent', color', Nodes', elm)
    <3> SUFFICES ASSUME NEW n \in Nodes', color'[n] = "red", n # elm
                 PROVE  parent'[n] # NULL /\ color'[parent'[n]] = "black"
      BY DEF Reds
    <3>1. n \in Nodes /\ n \in Keys /\ color[n] = "red" /\ n # NULL
      BY <1>6, <1>7, <1>8
    <3>2. parent[n] # NULL /\ color[parent[n]] = "black" /\ parent[n] \in Nodes
      BY <1>6, <1>12, <3>1 DEF Reds
    <3>3. parent'[n] = parent[n]
      BY <1>5, <1>6, <3>1
    <3> QED
      BY <1>1, <1>6, <1>7, <3>2, <3>3
  <2> QED
    BY <1>5, <2>4, <2>5 DEF Colors
<1>15. Types'
  BY <1>5, <1>7 DEF IInv, Types
<1>16. Phases'
  BY <1>1, <1>3, <1>5, <1>7, <1>8 DEF IInv, Phases
<1> QED
  BY <1>1, <1>3, <1>8, <1>10, <1>11, <1>14, <1>15, <1>16 DEF IInv

\* What a red parent means: there is a black grandparent above it.
LEMMA Family ==
  ASSUME IInv, RedParent
  PROVE  /\ elm \in Nodes /\ Parent \in Nodes /\ Grandparent \in Nodes
         /\ elm # Parent /\ elm # Grandparent /\ Parent # Grandparent
         /\ color[elm] = "red" /\ color[Parent] = "red" /\ color[Grandparent] = "black"
         /\ ParentSide \in Sides /\ child[ParentSide][Grandparent] = Parent
         /\ \E x \in Sides : child[x][Parent] = elm
         /\ Uncle \in Nodes \cup {NULL} /\ Uncle # Parent
         /\ \A n \in Nodes : parent[n] = Grandparent => n = Parent \/ n = Uncle
         /\ Uncle # NULL => parent[Uncle] = Grandparent
<1>1. /\ pc = "color" /\ elm \in Nodes /\ color[elm] = "red"
       /\ Parent # NULL /\ color[Parent] = "red"
      /\ Nodes \in SUBSET Keys /\ NULL \notin Keys
  BY KeysAssumption DEF IInv, Phases, RedParent, Nodes, NULL
<1>2. PICK b : Bounded(tree, Nodes, b)
  BY DEF IInv, Shape
<1>3. /\ child \in [Sides -> [Keys -> Nodes \cup {NULL}]]
      /\ parent \in [Keys -> Nodes \cup {NULL}]
      /\ \A n \in Nodes, s \in Sides : child[s][n] # NULL => parent[child[s][n]] = n
      /\ \A n \in Nodes : parent[n] # NULL => \E s \in Sides : child[s][parent[n]] = n
  BY DEF IInv, Linked, tree
<1>4. Reds(parent, color, Nodes, elm)
  BY <1>1 DEF IInv, Colors
<1>5. \A n \in Nodes : parent[n] # NULL => parent[n] \in Nodes /\ parent[n] # n
  <2> SUFFICES ASSUME NEW n \in Nodes, parent[n] # NULL PROVE parent[n] \in Nodes /\ parent[n] # n
    OBVIOUS
  <2>1. parent[n] \in Nodes
    BY <1>1, <1>3
  <2>2. Top - Width(Nodes, b)[parent[n]] < Top - Width(Nodes, b)[n]
    BY <1>2, ParentIsWider DEF IInv
  <2>3. \A i \in Keys : Width(Nodes, b)[i] \in Nat
    BY <1>1, <1>2, WidthType DEF Bounded
  <2> QED
    BY <1>1, <2>1, <2>2, <2>3, TopBounds
<1>6. Parent \in Nodes /\ elm # Parent /\ \E x \in Sides : child[x][Parent] = elm
  BY <1>1, <1>3, <1>5 DEF Parent
<1>7. Grandparent # NULL /\ color[Grandparent] = "black"
  BY <1>1, <1>4, <1>6 DEF Reds, Grandparent
<1>8. /\ Grandparent \in Nodes /\ Grandparent # Parent
       /\ \E x \in Sides : child[x][Grandparent] = Parent
  BY <1>3, <1>5, <1>6, <1>7 DEF Grandparent
<1>9. ParentSide \in Sides /\ child[ParentSide][Grandparent] = Parent
  BY <1>8 DEF ParentSide, Sides
<1> DEFINE s == ParentSide
           g == Grandparent
<1> HIDE DEF s, g
<1>10. Mirror(s) \in Sides /\ Sides = {s, Mirror(s)}
  BY <1>9, SidesFacts DEF s
<1>11. Uncle = child[Mirror(s)][g] /\ child[s][g] = Parent
  BY <1>9 DEF Uncle, s, g
<1>12. Uncle \in Nodes \cup {NULL}
  BY <1>1, <1>3, <1>8, <1>10, <1>11 DEF g
<1>13. Uncle # Parent
  <2> SUFFICES ASSUME Uncle = Parent PROVE FALSE
    OBVIOUS
  <2>1. b[s][Parent] = b[s][g] /\ b[Mirror(s)][Parent] = g
    BY <1>1, <1>2, <1>8, <1>9, <1>11 DEF Bounded, Hanging, tree, s, g
  <2>2. b[Mirror(s)][Parent] = b[Mirror(s)][g]
    BY <1>1, <1>2, <1>8, <1>10, <1>11 DEF Bounded, Hanging, tree, g
  <2>3. On(Mirror(s), b[Mirror(s)][g], g)
    BY <1>2, <1>8, <1>10 DEF Bounded, Around, Inside, g
  <2>4. g \in Nat
    BY <1>1, <1>8, KeysAssumption DEF g
  <2> QED
    BY <2>1, <2>2, <2>3, <2>4 DEF On
<1>14. \A n \in Nodes : parent[n] = g => n = Parent \/ n = Uncle
  BY <1>3, <1>7, <1>10, <1>11 DEF g
<1>15. Uncle # NULL => parent[Uncle] = g
  BY <1>3, <1>8, <1>10, <1>11 DEF g
<1> QED
  BY <1>1, <1>6, <1>7, <1>8, <1>9, <1>12, <1>13, <1>14, <1>15 DEF g

\* The red uncle of RB_INSERT_COLOR: the red parent moves two levels up.
LEMMA RecolorKeeps ==
  ASSUME IInv, Recolor
  PROVE  IInv' /\ Nodes' = Nodes
<1> DEFINE P == Parent
           G == Grandparent
           U == Uncle
<1>1. /\ P \in Nodes /\ G \in Nodes /\ U \in Nodes /\ elm \in Nodes
      /\ elm # P /\ elm # G /\ P # G /\ U # P /\ U # G
      /\ color[elm] = "red" /\ color[P] = "red" /\ color[G] = "black" /\ color[U] = "red"
      /\ parent[elm] = P /\ parent[P] = G /\ parent[U] = G
      /\ \A n \in Nodes : parent[n] = G => n = P \/ n = U
      /\ P # NULL /\ G # NULL /\ U # NULL
  <2>1. RedParent /\ RedUncle
    BY DEF Recolor
  <2>2. U # NULL /\ color[U] = "red"
    BY <2>1 DEF RedUncle
  <2>3. NULL \notin Nodes
    BY KeysAssumption DEF NULL, Nodes
  <2> QED
    BY <2>1, <2>2, <2>3, Family DEF Parent, Grandparent
<1> HIDE DEF P, G, U
<1>2. /\ color' = [color EXCEPT ![U] = "black", ![P] = "black", ![G] = "red"]
      /\ elm' = G /\ rbh_root' = rbh_root /\ child' = child /\ parent' = parent
      /\ pc = "color" /\ pc' = "color" /\ tmp' = tmp /\ above' = above
      /\ answer' = answer /\ visited' = visited /\ freed' = freed
  BY DEF Recolor, RedParent, U, P, G
<1>3. /\ Nodes \in SUBSET Keys /\ NULL \notin Keys
      /\ color \in [Keys -> {"none", "red", "black"}]
      /\ child \in [Sides -> [Keys -> Nodes \cup {NULL}]]
      /\ \A n \in Nodes, x \in Sides : child[x][n] # NULL => parent[child[x][n]] = n
  BY KeysAssumption DEF IInv, Types, Linked, tree, Nodes, NULL
<1>4. /\ color' \in [Keys -> {"none", "red", "black"}]
      /\ \A n \in Keys : color'[n] = IF n = U \/ n = P THEN "black"
                                  ELSE IF n = G THEN "red" ELSE color[n]
  BY <1>1, <1>2, <1>3
<1>5. Nodes' = Nodes /\ tree' = tree
  BY <1>1, <1>2, <1>4 DEF Nodes, tree
<1>6. Shape'
  BY <1>2, <1>5 DEF IInv, Shape, Searching
<1>7. PICK h : Balanced(child, color, Nodes, h) /\ Reds(parent, color, Nodes, elm)
  BY <1>2 DEF IInv, Colors
<1>8. Colors'
  <2> DEFINE k == [n \in Keys \cup {NULL} |-> IF n = U \/ n = P THEN h[n] + 1 ELSE h[n]]
  <2>1. /\ h \in [Keys \cup {NULL} -> Int] /\ h[NULL] = 0
        /\ \A n \in Nodes, x \in Sides : h[n] = Black(color, n) + h[child[x][n]]
    BY <1>7 DEF Balanced
  <2>2. /\ k \in [Keys \cup {NULL} -> Int] /\ k[NULL] = 0
        /\ \A n \in Nodes \cup {NULL} : k[n] = IF n = U \/ n = P THEN h[n] + 1 ELSE h[n]
        /\ \A n \in Nodes \cup {NULL} : h[n] \in Int
    <3>1. \A n \in Keys \cup {NULL} : h[n] \in Int
      BY <2>1
    <3> QED
      BY <1>1, <1>3, <2>1, <3>1
  <2> HIDE DEF k
  <2>3. ASSUME NEW n \in Nodes, NEW x \in Sides
        PROVE  k[n] = Black(color', n) + k[child[x][n]]
    <3> DEFINE c == child[x][n]
    <3>1. c \in Nodes \cup {NULL} /\ (c # NULL => parent[c] = n) /\ n \in Keys
      BY <1>3
    <3>2. h[n] = Black(color, n) + h[c] /\ h[c] \in Int /\ h[n] \in Int
      BY <2>1, <2>2, <3>1
    <3> HIDE DEF c
    <3>3. CASE n = G
      <4>1. c = P \/ c = U
        <5>1. c # NULL
          <6> SUFFICES ASSUME c = NULL PROVE FALSE
            OBVIOUS
          <6>1. \E y \in Sides : child[y][G] = P
            BY <1>1 DEF IInv, Linked, tree
          <6>2. PICK y \in Sides : child[y][G] = P
            BY <6>1
          <6>3. h[G] = 1 + h[P] /\ h[G] = 1
            BY <1>1, <2>1, <3>2, <3>3, <6>2 DEF Black
          <6>4. \E z \in Sides : child[z][G] = U
            BY <1>1 DEF IInv, Linked, tree
          <6>5. child[x][G] = NULL
            BY <3>3 DEF c
          <6>6. y # x
            BY <1>1, <6>2, <6>5
          <6> QED
            BY <1>1, <6>2, <6>4, <6>5, <6>6 DEF Sides
        <5> QED
          BY <1>1, <3>1, <3>3, <5>1
      <4>2. k[c] = h[c] + 1 /\ k[n] = h[n]
        BY <1>1, <2>2, <3>1, <3>3, <4>1
      <4>3. Black(color, n) = 1 /\ Black(color', n) = 0
        BY <1>1, <1>4, <3>1, <3>3 DEF Black
      <4> QED
        BY <3>2, <4>2, <4>3 DEF c
    <3>4. CASE n # G
      <4>1. c # P /\ c # U
        BY <1>1, <3>1, <3>4
      <4>2. k[c] = h[c]
        BY <2>2, <3>1, <4>1
      <4>3. CASE n = U \/ n = P
        <5>1. k[n] = h[n] + 1 /\ Black(color, n) = 0 /\ Black(color', n) = 1
          BY <1>1, <1>4, <2>2, <3>1, <4>3 DEF Black
        <5> QED
          BY <3>2, <4>2, <5>1 DEF c
      <4>4. CASE n # U /\ n # P
        <5>1. k[n] = h[n] /\ Black(color', n) = Black(color, n)
          BY <1>4, <2>2, <3>1, <3>4, <4>4 DEF Black
        <5> QED
          BY <3>2, <4>2, <5>1 DEF c
      <4> QED
        BY <4>3, <4>4
    <3> QED
      BY <3>3, <3>4
  <2>4. Balanced(child, color', Nodes, k)
    BY <2>2, <2>3 DEF Balanced
  <2>5. Reds(parent, color', Nodes, G)
    <3> SUFFICES ASSUME NEW n \in Nodes, color'[n] = "red", n # G
                 PROVE  parent[n] # NULL /\ color'[parent[n]] = "black"
      BY DEF Reds
    <3>1. n # U /\ n # P /\ color[n] = "red"
      BY <1>3, <1>4
    <3>2. CASE n = elm
      BY <1>1, <1>3, <1>4, <3>2
    <3>3. CASE n # elm
      <4>1. parent[n] # NULL /\ color[parent[n]] = "black"
        BY <1>7, <3>1, <3>3 DEF Reds
      <4>2. parent[n] # G /\ parent[n] \in Keys
        BY <1>1, <3>1, <4>1 DEF IInv, Linked, tree, Nodes
      <4> QED
        BY <1>4, <4>1, <4>2
    <3> QED
      BY <3>2, <3>3
  <2> QED
    BY <1>2, <1>5, <2>4, <2>5 DEF Colors
<1>9. Types'
  BY <1>1, <1>2, <1>3, <1>4 DEF IInv, Types
<1>10. Phases'
  BY <1>1, <1>2, <1>3, <1>4, <1>5 DEF IInv, Phases
<1> QED
  BY <1>5, <1>6, <1>8, <1>9, <1>10 DEF IInv

\* The end of RB_INSERT_COLOR, which blackens the root.
LEMMA ColorEndKeeps ==
  ASSUME IInv, ColorEnd
  PROVE  IInv' /\ Nodes' = Nodes
<1> DEFINE r == rbh_root
<1>1. /\ color' = [color EXCEPT ![r] = "black"]
      /\ elm' = elm /\ rbh_root' = rbh_root /\ child' = child /\ parent' = parent
      /\ pc = "color" /\ pc' = "idle" /\ tmp' = tmp /\ above' = above
      /\ answer' = answer /\ visited' = visited /\ freed' = freed /\ ~RedParent
  BY DEF ColorEnd, locals
<1>2. /\ Nodes \in SUBSET Keys /\ NULL \notin Keys /\ elm \in Nodes
      /\ color \in [Keys -> {"none", "red", "black"}]
      /\ child \in [Sides -> [Keys -> Nodes \cup {NULL}]]
      /\ parent \in [Keys -> Nodes \cup {NULL}]
      /\ \A n \in Nodes, x \in Sides : child[x][n] # NULL => parent[child[x][n]] = n
      /\ \A n \in Nodes : parent[n] = NULL => n = r
      /\ color[elm] = "red"
  BY <1>1, KeysAssumption DEF IInv, Types, Linked, tree, Nodes, NULL, Phases
<1>3. r \in Nodes /\ parent[r] = NULL
  BY <1>2 DEF IInv, Linked, tree
<1> HIDE DEF r
<1>4. /\ color' \in [Keys -> {"none", "red", "black"}]
      /\ \A n \in Keys : color'[n] = IF n = r THEN "black" ELSE color[n]
  BY <1>1, <1>2, <1>3
<1>5. Nodes' = Nodes /\ tree' = tree
  BY <1>1, <1>2, <1>3, <1>4 DEF Nodes, tree
<1>6. Shape'
  BY <1>1, <1>5 DEF IInv, Shape, Searching
<1>7. PICK h : Balanced(child, color, Nodes, h) /\ Reds(parent, color, Nodes, elm)
  BY <1>1 DEF IInv, Colors
<1>8. Colors'
  <2> DEFINE k == [h EXCEPT ![r] = h[r] + 1 - Black(color, r)]
  <2>1. /\ h \in [Keys \cup {NULL} -> Int] /\ h[NULL] = 0
        /\ \A n \in Nodes, x \in Sides : h[n] = Black(color, n) + h[child[x][n]]
    BY <1>7 DEF Balanced
  <2>2. h[r] \in Int /\ h[r] + 1 - Black(color, r) \in Int
    <3>1. h[r] \in Int
      BY <1>2, <1>3, <2>1
    <3> QED
      BY <3>1 DEF Black
  <2>3. /\ k \in [Keys \cup {NULL} -> Int] /\ k[NULL] = 0 /\ k[r] = h[r] + 1 - Black(color, r)
        /\ \A n \in Nodes \cup {NULL} : n # r => k[n] = h[n]
    <3>1. r \in Keys /\ r # NULL
      BY <1>2, <1>3
    <3> QED
      BY <1>2, <2>1, <2>2, <3>1
  <2> HIDE DEF k
  <2>4. ASSUME NEW n \in Nodes, NEW x \in Sides
        PROVE  k[n] = Black(color', n) + k[child[x][n]]
    <3>1. child[x][n] \in Nodes \cup {NULL} /\ child[x][n] # r /\ n \in Keys
      BY <1>2, <1>3
    <3>2. h[n] = Black(color, n) + h[child[x][n]] /\ k[child[x][n]] = h[child[x][n]]
      BY <2>1, <2>3, <3>1
    <3>3. h[child[x][n]] \in Int
      BY <1>2, <2>1, <3>1
    <3>4. CASE n = r
      BY <1>4, <2>3, <3>1, <3>2, <3>3, <3>4 DEF Black
    <3>5. CASE n # r
      BY <1>4, <2>3, <3>1, <3>2, <3>5 DEF Black
    <3> QED
      BY <3>4, <3>5
  <2>5. Balanced(child, color', Nodes, k)
    BY <2>3, <2>4 DEF Balanced
  <2>6. Reds(parent, color', Nodes, NULL)
    <3> SUFFICES ASSUME NEW n \in Nodes, color'[n] = "red"
                 PROVE  parent[n] # NULL /\ color'[parent[n]] = "black"
      BY DEF Reds
    <3>1. n # r /\ color[n] = "red" /\ parent[n] # NULL /\ parent[n] \in Nodes
      BY <1>2, <1>4
    <3>2. color[parent[n]] = "black"
      <4>1. CASE n = elm
        <5>1. color[parent[n]] # "red" /\ color[parent[n]] # "none"
          BY <1>1, <3>1, <4>1 DEF RedParent, Parent, Nodes
        <5> QED
          BY <1>2, <3>1, <5>1
      <4>2. CASE n # elm
        BY <1>7, <3>1, <4>2 DEF Reds
      <4> QED
        BY <4>1, <4>2
    <3> QED
      BY <1>2, <1>4, <3>1, <3>2
  <2> QED
    BY <1>1, <1>5, <2>5, <2>6 DEF Colors
<1>9. Types'
  BY <1>1, <1>4 DEF IInv, Types
<1>10. Phases'
  BY <1>1, <1>5 DEF IInv, Phases
<1> QED
  BY <1>5, <1>6, <1>8, <1>9, <1>10 DEF IInv

\* The second rotation of an insertion, and the only one of an outer node.
LEMMA OutwardRebalances ==
  ASSUME IInv, RedParent, ~RedUncle,
         NEW t, NEW b, NEW h, Linked(t, Nodes), Bounded(t, Nodes, b),
         NEW middle \in Nodes, NEW z \in Nodes,
         t.child[ParentSide][Grandparent] = middle,
         t.child[ParentSide][middle] = z,
         t.child[Mirror(ParentSide)][Grandparent] = Uncle,
         Balanced(t.child, color, Nodes, h), Reds(t.parent, color, Nodes, z),
         color[middle] = "red",
         NEW u, u = Rotate(t, Grandparent, Mirror(ParentSide))
  PROVE  /\ Linked(u, Nodes) /\ \E bb : Bounded(u, Nodes, bb)
         /\ \E hh : Balanced(u.child, Recolored(color, middle, Grandparent), Nodes, hh)
         /\ Reds(u.parent, Recolored(color, middle, Grandparent), Nodes, z)
<1> DEFINE M == Mirror(ParentSide)
           e == Grandparent
<1>1. /\ M \in Sides /\ Mirror(M) = ParentSide /\ e \in Nodes /\ color[e] = "black"
      /\ Nodes \in SUBSET Keys /\ middle # NULL
      /\ color \in [Keys -> {"none", "red", "black"}]
  BY Family, SidesFacts, KeysAssumption DEF IInv, Types, Nodes, NULL
<1>2. t.child[M][e] # NULL => color[t.child[M][e]] # "red"
  BY DEF RedUncle
<1> HIDE DEF M, e
<1>3. t.child[Mirror(M)][e] = middle /\ t.child[Mirror(M)][middle] = z
  BY <1>1 DEF e
<1>4. u = Rotate(t, e, M)
  BY DEF M, e
<1>5. Linked(u, Nodes) /\ \E bb : Bounded(u, Nodes, bb)
  BY <1>1, <1>3, <1>4, RotateLinked
<1>6. TopHeavy(t, Nodes, color, e, M, middle, z)
  BY <1>1, <1>2, <1>3 DEF TopHeavy
<1>7. /\ \E hh : Balanced(u.child, Recolored(color, middle, e), Nodes, hh)
      /\ Reds(u.parent, Recolored(color, middle, e), Nodes, z)
  <2>1. e \in Nodes /\ M \in Sides /\ Nodes \in SUBSET Keys
    BY <1>1
  <2>2. /\ \E hh : Balanced(Rotate(t, e, M).child, Recolored(color, middle, e), Nodes, hh)
        /\ Reds(Rotate(t, e, M).parent, Recolored(color, middle, e), Nodes, z)
    BY <2>1, <1>6, RotateBlack
  <2> QED
    BY <1>4, <2>2
<1> QED
  BY <1>5, <1>7 DEF e

\* With the rotation outwards of an inner node before it.
LEMMA RebalanceKeeps ==
  ASSUME IInv, Rebalance
  PROVE  IInv' /\ Nodes' = Nodes
<1> DEFINE P == Parent
           G == Grandparent
           s == ParentSide
           inner == child[Mirror(s)][P] = elm
           outward == IF inner THEN Rotate(tree, P, s) ELSE tree
           after == Rotate(outward, G, Mirror(s))
           middle == IF inner THEN elm ELSE P
           z == IF inner THEN P ELSE elm
<1>1. /\ RedParent /\ ~RedUncle
      /\ rbh_root' = after.root /\ child' = after.child /\ parent' = after.parent
      /\ color' = Recolored(color, middle, G)
      /\ elm' = z /\ pc' = pc
      /\ tmp' = tmp /\ above' = above /\ answer' = answer /\ visited' = visited /\ freed' = freed
  BY DEF Rebalance, Recolored
<1>2. /\ elm \in Nodes /\ P \in Nodes /\ G \in Nodes
      /\ elm # P /\ elm # G /\ P # G
      /\ color[elm] = "red" /\ color[P] = "red" /\ color[G] = "black"
      /\ s \in Sides /\ child[s][G] = P /\ Uncle # P
      /\ \E x \in Sides : child[x][P] = elm
      /\ Uncle = child[Mirror(s)][G] /\ parent[P] = G
  BY <1>1, Family DEF Uncle, Grandparent
<1>3. Mirror(s) \in Sides /\ Sides = {s, Mirror(s)} /\ Mirror(s) # s /\ Mirror(Mirror(s)) = s
  BY <1>2, SidesFacts
<1>4. /\ Nodes \in SUBSET Keys /\ NULL \notin Keys /\ pc = "color"
      /\ color \in [Keys -> {"none", "red", "black"}]
      /\ child \in [Sides -> [Keys -> Nodes \cup {NULL}]]
  BY <1>1, KeysAssumption DEF IInv, Types, Linked, tree, Nodes, NULL, RedParent
<1>5. PICK b : Bounded(tree, Nodes, b)
  BY DEF IInv, Shape
<1>6. PICK h : Balanced(child, color, Nodes, h) /\ Reds(parent, color, Nodes, elm)
  BY <1>4 DEF IInv, Colors
<1>7. tree.child = child /\ tree.parent = parent /\ tree.root = rbh_root /\ Linked(tree, Nodes)
  BY DEF tree, IInv
<1> HIDE DEF P, G, s
<1>8. /\ Linked(outward, Nodes) /\ \E bb : Bounded(outward, Nodes, bb)
      /\ Balanced(outward.child, color, Nodes, h) /\ Reds(outward.parent, color, Nodes, z)
      /\ outward.child[s][G] = middle /\ outward.child[s][middle] = z
      /\ outward.child[Mirror(s)][G] = Uncle
  <2>1. CASE inner
    <3> DEFINE t == Rotate(tree, P, s)
    <3>1. outward = t /\ middle = elm /\ z = P
      BY <2>1
    <3>2. tree.child[Mirror(s)][P] = elm /\ elm # NULL
      BY <1>2, <1>4, <1>7, <2>1
    <3>3. Linked(t, Nodes) /\ \E bb : Bounded(t, Nodes, bb)
      BY <1>2, <1>4, <1>5, <1>7, <3>2, RotateLinked
    <3>4. Balanced(t.child, color, Nodes, h) /\ Reds(t.parent, color, Nodes, P)
      <4>1. tree.parent[P] # NULL /\ color[tree.parent[P]] = "black"
        BY <1>2, <1>4, <1>7
      <4>2. elm = tree.child[Mirror(s)][P]
        BY <3>2
      <4>3. Balanced(tree.child, color, Nodes, h) /\ Reds(tree.parent, color, Nodes, elm)
        BY <1>6, <1>7
      <4> QED
        BY <1>2, <1>4, <1>5, <1>7, <4>1, <4>2, <4>3, RotateReds
    <3>5. \A x \in Sides, n \in Keys :
            t.child[x][n] = IF n = P /\ x = Mirror(s) THEN child[s][elm]
                      ELSE IF n = elm /\ x = s THEN P
                      ELSE IF n = G /\ child[x][G] = P THEN elm
                      ELSE child[x][n]
      BY <1>2, <1>7, <3>2 DEF Rotate
    <3>6. t.child[s][G] = elm /\ t.child[s][elm] = P /\ t.child[Mirror(s)][G] = Uncle
      BY <1>2, <1>3, <1>4, <3>5
    <3> HIDE DEF t
    <3> QED
      BY <3>1, <3>3, <3>4, <3>6
  <2>2. CASE ~inner
    <3>1. outward = tree /\ middle = P /\ z = elm /\ child[s][P] = elm
      BY <1>2, <1>3, <2>2
    <3> HIDE DEF outward, middle, z, inner
    <3> QED
      BY <1>2, <1>5, <1>6, <1>7, <3>1
  <2> QED
    BY <2>1, <2>2
<1>9. /\ middle \in Nodes /\ z \in Nodes /\ color[middle] = "red" /\ color[z] = "red"
      /\ z # middle /\ z # G /\ middle # G
  BY <1>2
<1> HIDE DEF inner, outward, middle, z, after
<1>10. PICK bb : Bounded(outward, Nodes, bb)
  BY <1>8
<1>11. /\ Linked(after, Nodes) /\ \E ba : Bounded(after, Nodes, ba)
       /\ \E hh : Balanced(after.child, Recolored(color, middle, G), Nodes, hh)
       /\ Reds(after.parent, Recolored(color, middle, G), Nodes, z)
  <2>1. after = Rotate(outward, G, Mirror(s))
    BY DEF after
  <2> QED
    BY <1>1, <1>8, <1>9, <1>10, <2>1, OutwardRebalances DEF s, G
<1>12. tree' = after
  <2>1. after = [root |-> after.root, child |-> after.child, parent |-> after.parent]
    BY DEF after, Rotate
  <2>2. tree' = [root |-> rbh_root', child |-> child', parent |-> parent']
    BY DEF tree
  <2> QED
    BY <1>1, <2>1, <2>2
<1>13. /\ color' \in [Keys -> {"none", "red", "black"}]
       /\ \A n \in Keys : color'[n] = IF n = middle THEN "black"
                                    ELSE IF n = G THEN "red" ELSE color[n]
  BY <1>1, <1>2, <1>4, <1>9 DEF Recolored
<1>14. Nodes' = Nodes
  BY <1>2, <1>9, <1>13 DEF Nodes
<1>15. Shape'
  <2>1. \A ba : Searching(ba)'
    BY <1>1, <1>4 DEF Searching
  <2> QED
    BY <1>11, <1>12, <1>14, <2>1 DEF Shape
<1>16. Colors'
  <2>1. pc' = "color"
    BY <1>1, <1>4
  <2> QED
    BY <1>1, <1>11, <1>14, <2>1 DEF Colors
<1>17. Types'
  BY <1>1, <1>4, <1>9, <1>13 DEF IInv, Types
<1>18. Phases'
  <2>1. color'[elm'] = "red" /\ elm' \in Nodes'
    BY <1>1, <1>4, <1>9, <1>13, <1>14
  <2> QED
    BY <1>1, <1>4, <1>14, <2>1 DEF IInv, Phases
<1> QED
  BY <1>11, <1>12, <1>14, <1>15, <1>16, <1>17, <1>18 DEF IInv

-----------------------------------------------------------------------------
(* The walks.                                                              *)

\* A step that leaves the tree and the search alone.
LEMMA WalkKeeps ==
  ASSUME IInv, UNCHANGED links, pc \notin {"color"},
         pc' \in {"check", "free", "done", "crashed"},
         elm' \in Keys \cup {NULL}, tmp' = tmp, above' = above, Phases'
  PROVE  IInv'
<1>1. tree' = tree /\ Nodes' = Nodes /\ child' = child /\ color' = color /\ parent' = parent
  BY SameTree
<1>2. Shape'
  BY <1>1 DEF IInv, Shape, Searching
<1>3. Colors'
  BY <1>1 DEF IInv, Colors
<1>4. Types'
  BY <1>1 DEF IInv, Types
<1> QED
  BY <1>1, <1>2, <1>3, <1>4 DEF IInv

\* The names are positive numbers.
LEMMA WalkTypes ==
  ASSUME IInv
  PROVE  Nodes \subseteq Keys /\ (\A k \in Keys : k \in Nat /\ 0 < k) /\ NULL = 0 
  BY KeysAssumption DEF Nodes, NULL

\* Nothing is passed when a walk starts at RB_MIN.
LEMMA WalkStarts ==
  ASSUME IInv
  PROVE  RB_MIN \in Nodes \cup {NULL} /\ {n \in Nodes : RB_MIN = NULL \/ n < RB_MIN} = {}
<1>1. PICK b : Bounded(tree, Nodes, b)
  BY DEF IInv, Shape
<1>2. IF Nodes = {} THEN RB_MIN = NULL
      ELSE RB_MIN \in Nodes /\ \A k \in Nodes : RB_MIN <= k
  BY <1>1, RB_MIN_IsLeast DEF IInv
<1> QED
  BY <1>2, WalkTypes

\* A step with RB_NEXT passes the node it leaves, and that node only.
LEMMA WalkGoesOn ==
  ASSUME IInv, elm \in Nodes
  PROVE  /\ RB_NEXT(elm) \in Nodes \cup {NULL}
         /\ {n \in Nodes : RB_NEXT(elm) = NULL \/ n < RB_NEXT(elm)} = Passed \cup {elm}
         /\ elm \notin Passed
<1>1. PICK b : Bounded(tree, Nodes, b)
  BY DEF IInv, Shape
<1> DEFINE next == RB_NEXT(elm)
<1>2. IF next = NULL THEN \A k \in Nodes : k <= elm
      ELSE next \in Nodes /\ elm < next /\ \A k \in Nodes : elm < k => next <= k
  BY <1>1, RB_NEXT_IsNext DEF IInv
<1> HIDE DEF next
<1>3. Passed = {n \in Nodes : n < elm} /\ elm \in Nat /\ \A n \in Nodes : n \in Nat /\ n # NULL
  BY WalkTypes DEF Passed
<1>4. ASSUME NEW n \in Nodes PROVE (next = NULL \/ n < next) <=> (n < elm \/ n = elm)
  <2>1. n \in Nat
    BY <1>3
  <2>2. CASE next = NULL
    BY <1>2, <1>3, <2>1, <2>2
  <2>3. CASE next # NULL
    <3>1. next \in Nat /\ elm < next /\ (elm < n => next <= n)
      BY <1>2, <1>3, <2>3
    <3> QED
      BY <1>3, <2>1, <2>3, <3>1
  <2> QED
    BY <2>2, <2>3
<1>5. next \in Nodes \cup {NULL}
  BY <1>2
<1>6. {n \in Nodes : next = NULL \/ n < next} = Passed \cup {elm}
  BY <1>3, <1>4
<1>7. elm \notin Passed
  BY <1>3
<1> QED
  BY <1>5, <1>6, <1>7 DEF next

\* The walks of check_refs and of free_symbols, which leave the tree as it is.
LEMMA WalksKeep ==
  ASSUME IInv, CheckRefs \/ CheckStep \/ CheckEnd \/ FreeStep \/ FreeEnd
  PROVE  IInv' /\ Nodes' = Nodes /\ answer' = answer
<1>1. Nodes' = Nodes /\ UNCHANGED links /\ tmp' = tmp /\ above' = above /\ answer' = answer
  BY SameTree DEF CheckRefs, CheckStep, CheckEnd, FreeStep, FreeEnd, locals
<1>2. Passed' = {n \in Nodes : elm' = NULL \/ n < elm'}
  BY <1>1 DEF Passed
<1>3. Nodes \subseteq Keys /\ NULL \notin Nodes
  BY WalkTypes
<1>4. CASE CheckRefs
  <2>1. Phases' /\ elm' \in Keys \cup {NULL}
    BY <1>1, <1>2, <1>3, <1>4, WalkStarts DEF CheckRefs, IInv, Phases
  <2> QED
    BY <1>1, <1>4, <2>1, WalkKeeps DEF CheckRefs
<1>5. CASE CheckStep
  <2>at. elm \in Nodes
    BY <1>5 DEF CheckStep, IInv, Phases
  <2>1. Phases' /\ elm' \in Keys \cup {NULL}
    BY <1>1, <1>2, <1>3, <1>5, <2>at, WalkGoesOn DEF CheckStep, IInv, Phases
  <2> QED
    BY <1>1, <1>5, <2>1, WalkKeeps DEF CheckStep
<1>6. CASE CheckEnd
  <2>1. Phases' /\ elm' \in Keys \cup {NULL}
    BY <1>1, <1>2, <1>3, <1>6, WalkStarts DEF CheckEnd, IInv, Phases, Passed
  <2> QED
    BY <1>1, <1>6, <2>1, WalkKeeps DEF CheckEnd
<1>7. CASE FreeStep
  <2>at. elm \in Nodes /\ pc = "free"
    BY <1>7 DEF FreeStep, IInv, Phases
  <2>1. Phases' /\ elm' \in Keys \cup {NULL} /\ pc' \in {"free", "crashed"}
    <3>1. CASE pc' = "crashed"
      BY <1>1, <1>2, <1>3, <1>7, <2>at, <3>1, WalkGoesOn DEF FreeStep, IInv, Phases, Passed
    <3>2. CASE pc' # "crashed"
      BY <1>1, <1>2, <1>3, <1>7, <2>at, <3>2, WalkGoesOn DEF FreeStep, IInv, Phases
    <3> QED
      BY <3>1, <3>2
  <2> QED
    BY <1>1, <1>7, <2>at, <2>1, WalkKeeps
<1>8. CASE FreeEnd
  <2>1. Phases' /\ elm' \in Keys \cup {NULL}
    BY <1>1, <1>2, <1>3, <1>8 DEF FreeEnd, IInv, Phases, Passed, locals, Types
  <2> QED
    BY <1>1, <1>8, <2>1, WalkKeeps DEF FreeEnd
<1> QED
  BY <1>1, <1>4, <1>5, <1>6, <1>7, <1>8

-----------------------------------------------------------------------------
(* Theorems.                                                               *)

\* IInv holds at every step, whatever is looked up and in whatever order.
THEOREM Invariance == Spec => []IInv
<1>1. Init => IInv
  BY InitKeeps
<1>2. IInv /\ [Next]_tvars => IInv'
  <2> SUFFICES ASSUME IInv, [Next]_tvars PROVE IInv'
    OBVIOUS
  <2>1. CASE Lookup
    BY <2>1, LookupKeeps
  <2>2. CASE FindStep \/ InsertStep
    BY <2>2, DescendKeeps DEF FindStep, InsertStep
  <2>3. CASE FindEnd
    BY <2>3, FindEndKeeps
  <2>4. CASE Link
    BY <2>4, LinkKeeps
  <2>5. CASE Recolor
    BY <2>5, RecolorKeeps
  <2>6. CASE Rebalance
    BY <2>6, RebalanceKeeps
  <2>7. CASE ColorEnd
    BY <2>7, ColorEndKeeps
  <2>8. CASE CheckRefs \/ CheckStep \/ CheckEnd \/ FreeStep \/ FreeEnd
    BY <2>8, WalksKeep
  <2>9. CASE Finished \/ UNCHANGED tvars
    <3>1. tree' = tree /\ Nodes' = Nodes /\ child' = child /\ color' = color /\ parent' = parent
          /\ pc' = pc /\ elm' = elm /\ tmp' = tmp /\ above' = above
          /\ answer' = answer /\ visited' = visited /\ freed' = freed
      BY <2>9, SameTree DEF Finished, tvars, locals
    <3>2. Types' /\ Linked(tree', Nodes') /\ Colors'
      BY <3>1 DEF IInv, Types, Colors
    <3>3. Shape'
      BY <3>1 DEF IInv, Shape, Searching
    <3>4. Phases'
      BY <3>1 DEF IInv, Phases, Passed
    <3> QED
      BY <3>2, <3>3, <3>4 DEF IInv
  <2> QED
    BY <2>1, <2>2, <2>3, <2>4, <2>5, <2>6, <2>7, <2>8, <2>9 DEF Next, Loop
<1> QED
  BY <1>1, <1>2, PTL DEF Spec

\* Every variable keeps its type (tree.h:297-317).
THEOREM TypesHold == Spec => []TypeOK
<1>1. IInv => TypeOK
  <2> SUFFICES ASSUME IInv PROVE TypeOK
    OBVIOUS
  <2>1. /\ rbh_root \in Nodes \cup {NULL}
        /\ child \in [Sides -> [Keys -> Nodes \cup {NULL}]]
        /\ parent \in [Keys -> Nodes \cup {NULL}]
    BY DEF IInv, Linked, tree
  <2>2. freed \subseteq Nodes
    BY DEF IInv, Types, Phases, Passed
  <2> QED
    BY <2>1, <2>2 DEF IInv, Types, TypeOK
<1> QED
  BY <1>1, Invariance, PTL

\* code_check_refs sees every symbol, once and in order (code.c:113).
THEOREM WalkSeesAll == Spec => []ChecksEverySymbol
<1>1. IInv => ChecksEverySymbol
  BY DEF IInv, Phases, Passed, ChecksEverySymbol
<1> QED
  BY <1>1, Invariance, PTL

\* code_free leaves no symbol behind and frees none twice (code.c:50).
THEOREM FreesAll == Spec => []FreesEverySymbol
<1>1. IInv => FreesEverySymbol
  <2> SUFFICES ASSUME IInv PROVE FreesEverySymbol
    OBVIOUS
  <2>1. pc = "free" => elm \notin freed
    BY WalkTypes DEF IInv, Phases, Passed
  <2> QED
    BY <2>1 DEF IInv, Phases, FreesEverySymbol
<1> QED
  BY <1>1, Invariance, PTL

\* What a node's ancestors are.
LEMMA PathUp ==
  ASSUME IInv, NEW n \in Nodes
  PROVE  /\ Path(n) \in Seq(Keys) /\ Len(Path(n)) \in Nat /\ Len(Path(n)) >= 1 /\ Path(n)[1] = n
         /\ \A i \in 1..Len(Path(n)) : Path(n)[i] \in Nodes
         /\ \A i \in 1..(Len(Path(n)) - 1) : parent[Path(n)[i]] = Path(n)[i + 1]
         /\ Path(n)[Len(Path(n))] = rbh_root
<1>1. PICK b : Bounded(tree, Nodes, b)
  BY DEF IInv, Shape
<1>2. n \in Keys
  BY DEF Nodes
<1>3. IsChain(parent, n, Path(n))
  BY <1>1, <1>2, PathIsChain DEF IInv
<1>4. \A m \in Nodes : parent[m] # NULL => parent[m] \in Nodes
  BY DEF IInv, Linked, tree, Nodes
<1>5. /\ Path(n) \in Seq(Keys) /\ Len(Path(n)) \in Nat /\ Len(Path(n)) >= 1
      /\ \A i \in 1..Len(Path(n)) : Path(n)[i] \in Nodes
      /\ Last(Path(n)) \in Nodes /\ parent[Last(Path(n))] = NULL
  BY <1>3, <1>4, ChainStays
<1>6. Last(Path(n)) = rbh_root
  BY <1>5 DEF IInv, Linked, tree
<1> QED
  BY <1>3, <1>5, <1>6 DEF IsChain, Last

\* What is beyond a name on one side of another is on that side of the other.
LEMMA OnFurther ==
  ASSUME NEW x, NEW i \in Nat, NEW j \in Nat, NEW k \in Nat, On(x, i, j), On(x, j, k)
  PROVE  On(x, i, k)
<1>1. CASE x = "left"
  BY <1>1 DEF On
<1>2. CASE x # "left"
  BY <1>2 DEF On
<1> QED
  BY <1>1, <1>2

\* The links agree both ways and in the order of the names at every step, also
\* between the steps of an insertion (tree.h:340-378, 432-475).
THEOREM StaysSearchTree == Spec => []SearchTree
<1>1. ASSUME IInv, NEW n \in Nodes
      PROVE  IF parent[n] = NULL THEN n = rbh_root
             ELSE n \in {child[side][parent[n]] : side \in Sides}
  BY <1>1 DEF IInv, Linked, tree
<1>2. ASSUME IInv, NEW n \in Nodes, NEW i \in 1..(Len(Path(n)) - 1)
      PROVE  child[SideOf(n, Path(n)[i + 1])][Path(n)[i + 1]] = Path(n)[i]
  <2> USE <1>2
  <2> DEFINE p == Path(n)
  <2>1. /\ p \in Seq(Keys) /\ Len(p) \in Nat /\ Len(p) >= 1 /\ p[1] = n
        /\ \A j \in 1..Len(p) : p[j] \in Nodes
        /\ \A j \in 1..(Len(p) - 1) : parent[p[j]] = p[j + 1]
    BY PathUp
  <2>2. PICK b : Bounded(tree, Nodes, b)
    BY DEF IInv, Shape
  <2>3. Nodes \subseteq Keys /\ NULL \notin Nodes /\ \A k \in Nodes : k \in Nat
    BY WalkTypes
  <2> HIDE DEF p
  <2>4. ASSUME NEW j \in 1..(Len(p) - 1)
        PROVE  /\ p[j] \in Nodes /\ p[j + 1] \in Nodes
               /\ \E x \in Sides : child[x][p[j + 1]] = p[j]
                                   /\ b[x][p[j]] = b[x][p[j + 1]] /\ b[Mirror(x)][p[j]] = p[j + 1]
    <3>1. j \in 1..Len(p) /\ j + 1 \in 1..Len(p)
      BY <2>1
    <3>2. p[j] \in Nodes /\ p[j + 1] \in Nodes /\ parent[p[j]] = p[j + 1]
      BY <2>1, <3>1
    <3>3. parent[p[j]] # NULL
      BY <2>3, <3>2
    <3> QED
      BY <2>2, <3>2, <3>3, ParentIsWider DEF IInv
  <2>5. ASSUME NEW j \in 1..(Len(p) - 1), Inside(b, p[j], n)
        PROVE  /\ child[SideOf(n, p[j + 1])][p[j + 1]] = p[j]
               /\ Inside(b, p[j + 1], n)
    <3> DEFINE k == p[j]
               m == p[j + 1]
    <3>1. PICK x \in Sides : child[x][m] = k /\ b[x][k] = b[x][m] /\ b[Mirror(x)][k] = m
      BY <2>4
    <3>2. k \in Nodes /\ m \in Nodes /\ m \in Nat /\ n \in Nat
      BY <2>3, <2>4
    <3> HIDE DEF k, m
    <3>3. On(x, b[x][m], n) /\ On(Mirror(x), m, n)
      BY <2>5, <3>1, SidesFacts DEF Inside, k
    <3>4. On(Mirror(x), b[Mirror(x)][m], m)
      BY <2>2, <3>2, SidesFacts DEF Bounded, Around, Inside
    <3>5. b[Mirror(x)][m] \in Nat
      BY <2>2, <2>3, <3>2, SidesFacts, TopBounds DEF Bounded
    <3>6. On(Mirror(x), b[Mirror(x)][m], n)
      BY <3>2, <3>3, <3>4, <3>5, OnFurther
    <3>7. SideOf(n, m) = x
      BY <3>2, <3>3 DEF SideOf, On, Mirror, Sides
    <3> QED
      BY <3>1, <3>3, <3>6, <3>7, SidesFacts DEF Inside, k, m
  <2> DEFINE S == {j \in Nat : j + 1 \in 1..Len(p) => Inside(b, p[j + 1], n)}
  <2>6. 0 \in S
    BY <2>1, <2>2 DEF Bounded, Around
  <2>7. ASSUME NEW j \in Nat, j \in S PROVE j + 1 \in S
    <3> SUFFICES ASSUME (j + 1) + 1 \in 1..Len(p) PROVE Inside(b, p[(j + 1) + 1], n)
      OBVIOUS
    <3>1. j + 1 \in 1..(Len(p) - 1) /\ j + 1 \in 1..Len(p)
      BY <2>1
    <3>2. Inside(b, p[j + 1], n)
      BY <2>7, <3>1
    <3> QED
      BY <2>5, <3>1, <3>2
  <2>8. Nat \subseteq S
    <3> HIDE DEF S
    <3> QED
      BY <2>6, <2>7, Induction
  <2>9. i \in 1..(Len(p) - 1)
    BY DEF p
  <2>10. i - 1 \in Nat /\ (i - 1) + 1 = i /\ i \in 1..Len(p)
    BY <2>1, <2>9
  <2>11. Inside(b, p[i], n)
    <3>1. i - 1 \in S
      BY <2>8, <2>10
    <3> QED
      BY <2>10, <3>1
  <2> QED
    BY <2>5, <2>9, <2>11 DEF p
<1>3. IInv => SearchTree
  BY <1>1, <1>2 DEF SearchTree
<1> QED
  BY <1>3, Invariance, PTL

\* The way down to a node without a left or right child passes as many black
\* nodes as the root is high.
LEMMA BlackDepthIsHeight ==
  ASSUME IInv, NEW h, Balanced(child, color, Nodes, h),
         NEW n \in Nodes, NEW side \in Sides, child[side][n] = NULL
  PROVE  BlackDepth(n) = h[rbh_root]
<1> DEFINE p == Path(n)
           B(k) == {i \in 1..k : color[p[i]] = "black"}
<1>1. /\ p \in Seq(Keys) /\ Len(p) \in Nat /\ Len(p) >= 1 /\ p[1] = n
      /\ \A j \in 1..Len(p) : p[j] \in Nodes
      /\ \A j \in 1..(Len(p) - 1) : parent[p[j]] = p[j + 1]
      /\ p[Len(p)] = rbh_root
  BY PathUp
<1>2. BlackDepth(n) = Cardinality(B(Len(p)))
  <2>1. DOMAIN p = 1..Len(p)
    BY <1>1
  <2> QED
    BY <2>1 DEF BlackDepth
<1>3. /\ h[NULL] = 0 /\ Nodes \subseteq Keys /\ NULL \notin Nodes
      /\ \A m \in Nodes, x \in Sides : h[m] = Black(color, m) + h[child[x][m]]
      /\ \A m \in Nodes : h[m] \in Int
      /\ \A m \in Nodes : parent[m] # NULL => \E x \in Sides : child[x][parent[m]] = m
  BY WalkTypes DEF Balanced, IInv, Linked, tree
<1> HIDE DEF p
<1> DEFINE S == {k \in Nat : k + 1 \in 1..Len(p) =>
                   /\ IsFiniteSet(B(k + 1))
                   /\ Cardinality(B(k + 1)) = h[p[k + 1]]}
<1>4. h[n] = Black(color, n)
  BY <1>3 DEF Black
<1>5. 0 \in S
  <2>1. CASE color[n] = "black"
    <3>1. B(1) = {1}
      BY <1>1, <2>1
    <3> HIDE DEF B
    <3>2. IsFiniteSet(B(1)) /\ Cardinality(B(1)) = 1
      BY <3>1, FS_Singleton
    <3> QED
      BY <1>1, <1>4, <2>1, <3>2 DEF Black
  <2>2. CASE color[n] # "black"
    <3>1. B(1) = {}
      BY <1>1, <2>2
    <3> HIDE DEF B
    <3>2. IsFiniteSet(B(1)) /\ Cardinality(B(1)) = 0
      BY <3>1, FS_EmptySet
    <3> QED
      BY <1>1, <1>4, <2>2, <3>2 DEF Black
  <2> QED
    BY <2>1, <2>2
<1>6. ASSUME NEW k \in Nat, k \in S PROVE k + 1 \in S
  <2> SUFFICES ASSUME (k + 1) + 1 \in 1..Len(p)
               PROVE  /\ IsFiniteSet(B((k + 1) + 1))
                      /\ Cardinality(B((k + 1) + 1)) = h[p[(k + 1) + 1]]
    OBVIOUS
  <2> DEFINE j == k + 1
             m == p[j + 1]
  <2>1. j \in 1..(Len(p) - 1) /\ j \in 1..Len(p) /\ j + 1 \in 1..Len(p) /\ j \in Nat
    BY <1>1
  <2>2. IsFiniteSet(B(j)) /\ Cardinality(B(j)) = h[p[j]]
    BY <1>6, <2>1
  <2> HIDE DEF j
  <2>3. p[j] \in Nodes /\ m \in Nodes /\ parent[p[j]] = m
    BY <1>1, <2>1
  <2>4. h[m] = Black(color, m) + h[p[j]] /\ h[p[j]] \in Int
    <3>1. PICK x \in Sides : child[x][m] = p[j]
      BY <1>3, <2>3
    <3> QED
      BY <1>3, <2>3, <3>1
  <2>5. CASE color[m] = "black"
    <3>1. B(j + 1) = B(j) \cup {j + 1} /\ j + 1 \notin B(j)
      BY <2>1, <2>5
    <3> HIDE DEF B
    <3>2. IsFiniteSet(B(j + 1)) /\ Cardinality(B(j + 1)) = Cardinality(B(j)) + 1
      BY <2>2, <3>1, FS_AddElement
    <3> QED
      BY <2>2, <2>4, <2>5, <3>2 DEF Black, j
  <2>6. CASE color[m] # "black"
    <3>1. B(j + 1) = B(j)
      BY <2>1, <2>6
    <3> HIDE DEF B
    <3> QED
      BY <2>2, <2>4, <2>6, <3>1 DEF Black, j
  <2> QED
    BY <2>5, <2>6
<1>7. Nat \subseteq S
  <2> HIDE DEF S
  <2> QED
    BY <1>5, <1>6, Induction
<1>8. Cardinality(B(Len(p))) = h[p[Len(p)]]
  <2>1. Len(p) - 1 \in Nat /\ (Len(p) - 1) + 1 = Len(p) /\ Len(p) \in 1..Len(p)
    BY <1>1
  <2>2. Len(p) - 1 \in S
    BY <1>7, <2>1
  <2> QED
    BY <2>1, <2>2
<1> QED
  BY <1>1, <1>2, <1>8

\* Between operations the tree is a red-black tree (tree.h:432-475).
THEOREM StaysRedBlack == Spec => []RedBlack
<1>1. IInv => RedBlack
  <2> SUFFICES ASSUME IInv, pc = "idle" PROVE RedBlack
    BY DEF RedBlack
  <2>1. PICK h : Balanced(child, color, Nodes, h) /\ Reds(parent, color, Nodes, NULL)
    BY DEF IInv, Colors
  <2>2. \A n \in Nodes : color[n] = "red" => parent[n] # NULL /\ color[parent[n]] = "black"
    BY <2>1, WalkTypes DEF Reds
  <2>3. \A m \in {l \in Nodes : \E side \in Sides : child[side][l] = NULL} :
          BlackDepth(m) = h[rbh_root]
    BY <2>1, BlackDepthIsHeight
  <2> QED
    BY <2>2, <2>3 DEF RedBlack
<1> QED
  BY <1>1, Invariance, PTL

\* The tree implements the symbol table: a lookup finds the names that were
\* added and no others (code.c:58-76).
THEOREM TreeIsTable == Spec => ImplementsSymbolTable
<1>1. Init => ST!Init
  BY DEF Init, ST!Init, Nodes
<1>2. IInv /\ [Next]_tvars => [ST!Next]_<<Nodes, answer>>
  <2> SUFFICES ASSUME IInv, [Next]_tvars PROVE ST!Next \/ (Nodes' = Nodes /\ answer' = answer)
    OBVIOUS
  <2>1. CASE Lookup \/ FindStep \/ InsertStep
    BY <2>1, SameTree DEF Lookup, FindStep, InsertStep, Descend
  <2>2. CASE FindEnd
    <3>1. elm \in Keys /\ answer' = {<<elm, elm \in Nodes>>} /\ Nodes' = Nodes
      <4>1. ((tmp = elm) <=> (elm \in Nodes)) /\ elm \in Keys
        BY <2>2, FindEndKeeps
      <4>2. answer' = {<<elm, tmp = elm>>} /\ Nodes' = Nodes
        BY <2>2, SameTree DEF FindEnd
      <4>3. (tmp = elm) = (elm \in Nodes)
        BY <4>1
      <4> QED
        BY <4>1, <4>2, <4>3
    <3>2. ST!Lookup(elm)
      BY <3>1 DEF ST!Lookup
    <3> QED
      BY <3>1, <3>2 DEF ST!Next
  <2>3. CASE Link
    <3>1. elm \in Keys /\ Nodes' = Nodes \cup {elm} /\ answer = {<<elm, FALSE>>} /\ answer' = answer
      BY <2>3, LinkKeeps DEF Link
    <3>2. ST!Add(elm)
      BY <3>1 DEF ST!Add
    <3> QED
      BY <3>1, <3>2 DEF ST!Next
  <2>4. CASE Recolor
    BY <2>4, RecolorKeeps DEF Recolor
  <2>5. CASE Rebalance
    BY <2>5, RebalanceKeeps DEF Rebalance
  <2>6. CASE ColorEnd
    BY <2>6, ColorEndKeeps DEF ColorEnd
  <2>7. CASE CheckRefs \/ CheckStep \/ CheckEnd \/ FreeStep \/ FreeEnd
    BY <2>7, WalksKeep
  <2>8. CASE Finished \/ UNCHANGED tvars
    BY <2>8, SameTree DEF Finished, tvars
  <2> QED
    BY <2>1, <2>2, <2>3, <2>4, <2>5, <2>6, <2>7, <2>8 DEF Next, Loop
<1> QED
  BY <1>1, <1>2, Invariance, PTL DEF Spec, ImplementsSymbolTable, ST!Spec
=============================================================================
