---------------------------- MODULE MsInduction ----------------------------
(* What the proofs about data rest on: least elements and induction over the  *)
(* naturals, definition by recursion, and remainders.  A property is given as *)
(* the set of the numbers that have it, so that each fact is cited as it      *)
(* stands.                                                                    *)
EXTENDS Integers, FiniteSets, WellFoundedInduction, FiniteSetTheorems, TLAPS

Below == {p \in Nat \X Nat : p[1] < p[2]}

LEMMA BelowWellFounded == IsWellFoundedOn(Below, Nat)
BY NatLessThanWellFounded DEF OpToRel, Below

\* A set of naturals that is not empty has a least element.
LEMMA NatLeast ==
  ASSUME NEW T, T \subseteq Nat, T # {}
  PROVE  \E x \in T : \A y \in T : x <= y
<1>1. PICK x \in T : \A y \in T : <<y, x>> \notin Below
  BY BelowWellFounded, WFMin
<1>2. \A y \in T : ~(y < x)
  BY <1>1 DEF Below
<1> QED BY <1>2

\* Induction, for the set T of the numbers that have the property.
LEMMA NatInduces ==
  ASSUME NEW T, 0 \in T, \A n \in Nat : n \in T => n + 1 \in T
  PROVE  \A n \in Nat : n \in T
<1> SUFFICES ASSUME NEW b \in Nat, b \notin T PROVE FALSE
  OBVIOUS
<1> DEFINE B == Nat \ T
<1>0. B \subseteq Nat /\ B # {}
  OBVIOUS
<1> HIDE DEF B
<1>1. PICK x \in B : \A y \in B : x <= y
  BY <1>0, NatLeast
<1>2. x \in Nat /\ x # 0 /\ x \notin T
  BY <1>0, <1>1 DEF B
<1>3. x - 1 \in Nat /\ x - 1 \notin B
  BY <1>1, <1>2
<1>4. x - 1 \in T
  BY <1>3 DEF B
<1> QED BY <1>2, <1>3, <1>4

\* Induction up to a bound.
LEMMA UptoInduces ==
  ASSUME NEW m \in Nat, NEW T, 0 \in T, \A n \in 0..m - 1 : n \in T => n + 1 \in T
  PROVE  \A n \in 0..m : n \in T
<1> DEFINE U == {n \in Nat : n <= m => n \in T}
<1>1. 0 \in U
  OBVIOUS
<1>2. \A n \in Nat : n \in U => n + 1 \in U
  OBVIOUS
<1> HIDE DEF U
<1>3. \A n \in Nat : n \in U
  BY <1>1, <1>2, NatInduces
<1> QED BY <1>3 DEF U

\* The values of a loop of m rounds: the one before it, and each round from the one before.
Rounds(f, m, init, step, S) ==
  /\ f \in [0..m -> S] /\ f[0] = init
  /\ \A k \in 1..m : f[k] = step[k][f[k - 1]]

\* A loop of m rounds that stays in S has such values.
LEMMA RoundsExist ==
  ASSUME NEW m \in Nat, NEW S, NEW init \in S, NEW step \in [1..m -> [S -> S]]
  PROVE  \E f : Rounds(f, m, init, step, S)
<1> DEFINE T == {n \in 0..m : \E f : Rounds(f, n, init, step, S)}
<1>1. 0 \in T
  <2> DEFINE f == [k \in 0..0 |-> init]
  <2>1. f \in [0..0 -> S] /\ f[0] = init /\ 1..0 = {}
    OBVIOUS
  <2> HIDE DEF f
  <2>2. Rounds(f, 0, init, step, S)
    BY <2>1 DEF Rounds
  <2> QED BY <2>2
<1>2. ASSUME NEW n \in 0..m - 1, n \in T PROVE n + 1 \in T
  <2>0. n \in Nat /\ n + 1 \in 1..m /\ n \in 0..n
    OBVIOUS
  <2>1. PICK f : Rounds(f, n, init, step, S)
    BY <1>2
  <2> DEFINE last == step[n + 1][f[n]]
             g == [k \in 0..(n + 1) |-> IF k = n + 1 THEN last ELSE f[k]]
  <2>2. f \in [0..n -> S] /\ f[0] = init /\ \A k \in 1..n : f[k] = step[k][f[k - 1]]
    BY <2>1 DEF Rounds
  <2>3. last \in S
    <3>1. f[n] \in S /\ step[n + 1] \in [S -> S]
      BY <2>0, <2>2
    <3> QED BY <3>1
  <2> HIDE DEF last
  <2>4. g \in [0..(n + 1) -> S] /\ g[0] = init /\ g[n + 1] = last /\ \A k \in 0..n : g[k] = f[k]
    BY <2>0, <2>2, <2>3
  <2> HIDE DEF g
  <2>5. ASSUME NEW k \in 1..(n + 1) PROVE g[k] = step[k][g[k - 1]]
    <3>1. CASE k = n + 1
      <4>1. k - 1 = n /\ n \in 0..n
        BY <2>0, <3>1
      <4>2. g[k - 1] = f[n] /\ g[k] = last
        BY <2>4, <3>1, <4>1
      <4> QED BY <3>1, <4>2 DEF last
    <3>2. CASE k # n + 1
      <4>1. k \in 1..n /\ k \in 0..n /\ k - 1 \in 0..n
        BY <2>0, <3>2
      <4> QED BY <2>2, <2>4, <4>1
    <3> QED BY <3>1, <3>2
  <2>6. Rounds(g, n + 1, init, step, S)
    BY <2>4, <2>5 DEF Rounds
  <2> QED BY <2>0, <2>6
<1> HIDE DEF T
<1>3. \A n \in 0..m : n \in T
  BY <1>1, <1>2, UptoInduces
<1>4. m \in T
  BY <1>3
<1> QED BY <1>4 DEF T

\* Remainders.
LEMMA RemainderIn ==
  ASSUME NEW n \in Nat \ {0}, NEW x \in Int
  PROVE  x % n \in 0..n - 1
OBVIOUS

LEMMA RemainderUnique ==
  ASSUME NEW n \in Nat \ {0}, NEW k \in Int, NEW r \in 0..n - 1
  PROVE  (n * k + r) % n = r
OBVIOUS

LEMMA RemainderQuotient ==
  ASSUME NEW n \in Nat \ {0}, NEW x \in Int
  PROVE  \E k \in Int : x = n * k + (x % n)
<1>1. x \div n \in Int /\ x = n * (x \div n) + (x % n)
  OBVIOUS
<1> QED BY <1>1

\* The remainder of a sum may be taken of a term first.
LEMMA RemainderSum ==
  ASSUME NEW n \in Nat \ {0}, NEW x \in Int, NEW d \in Int
  PROVE  ((x % n) + d) % n = (x + d) % n
<1>1. PICK k \in Int : x = n * k + (x % n)
  BY RemainderQuotient
<1> DEFINE r == x % n
           s == (r + d) % n
<1>2. r \in 0..n - 1 /\ r + d \in Int
  BY RemainderIn
<1>3. PICK j \in Int : r + d = n * j + s
  BY <1>2, RemainderQuotient
<1>4. s \in 0..n - 1
  BY <1>2, RemainderIn
<1>5. x = n * k + r
  BY <1>1
<1> HIDE DEF r, s
<1>6. x + d = n * (k + j) + s
  <2>1. n * (k + j) = n * k + n * j /\ n * k \in Int /\ n * j \in Int /\ r \in Int /\ s \in Int
    BY <1>2, <1>4
  <2> QED BY <1>3, <1>5, <2>1
<1>7. k + j \in Int
  OBVIOUS
<1>8. (x + d) % n = s
  BY <1>4, <1>6, <1>7, RemainderUnique
<1> QED BY <1>8 DEF s, r

\* How far it is from bucket a to bucket b, going up and round.
LEMMA RemainderApart ==
  ASSUME NEW n \in Nat \ {0}, NEW a \in 0..n - 1, NEW b \in 0..n - 1
  PROVE  (b - a) % n = IF a <= b THEN b - a ELSE b - a + n
<1>1. CASE a <= b
  <2>1. b - a \in 0..n - 1
    BY <1>1
  <2> QED BY <1>1, <2>1
<1>2. CASE ~(a <= b)
  <2>1. b - a + n \in 0..n - 1 /\ b - a = n * (-1) + (b - a + n) /\ -1 \in Int
    BY <1>2
  <2>2. (n * (-1) + (b - a + n)) % n = b - a + n
    BY <2>1, RemainderUnique
  <2> QED BY <1>2, <2>1, <2>2
<1> QED BY <1>1, <1>2

\* And the bucket that lies d beyond bucket a.
LEMMA RemainderOn ==
  ASSUME NEW n \in Nat \ {0}, NEW a \in 0..n - 1, NEW d \in 0..n - 1
  PROVE  (a + d) % n = IF a + d < n THEN a + d ELSE a + d - n
<1>1. CASE a + d < n
  <2>1. a + d \in 0..n - 1
    BY <1>1
  <2> QED BY <1>1, <2>1
<1>2. CASE ~(a + d < n)
  <2>1. a + d - n \in 0..n - 1 /\ a + d = n * 1 + (a + d - n)
    BY <1>2
  <2>2. (n * 1 + (a + d - n)) % n = a + d - n
    BY <2>1, RemainderUnique
  <2> QED BY <1>2, <2>1, <2>2
<1> QED BY <1>1, <1>2

\* The values of a loop over S that goes on from the places in D and gives `stop` at the others.
Loop(f, S, D, next, stop) ==
  f \in [S -> S] /\ \A x \in S : f[x] = IF x \in D THEN f[next[x]] ELSE stop[x]

Climbs(rank, top, D, next) == \A x \in D : rank[x] < top /\ rank[x] < rank[next[x]]

\* A loop in which each round climbs, and none goes on from `top` up, has values.
LEMMA LoopExists ==
  ASSUME NEW S, NEW rank \in [S -> Nat], NEW top \in Nat, NEW D \in SUBSET S,
         NEW next \in [S -> S], NEW stop \in [S -> S],
         Climbs(rank, top, D, next)
  PROVE  \E f : Loop(f, S, D, next, stop)
<1> DEFINE Holds(f, x) == f[x] = IF x \in D THEN f[next[x]] ELSE stop[x]
           T == {n \in Nat : \E f \in [S -> S] : \A x \in S : rank[x] + n >= top => Holds(f, x)}
<1>1. 0 \in T
  <2>1. \A x \in S : rank[x] + 0 >= top => x \notin D
    BY DEF Climbs
  <2> QED BY <2>1
<1>2. ASSUME NEW n \in Nat, n \in T PROVE n + 1 \in T
  <2>1. PICK f \in [S -> S] : \A x \in S : rank[x] + n >= top => Holds(f, x)
    BY <1>2
  <2> DEFINE g == [x \in S |-> IF x \in D THEN f[next[x]] ELSE stop[x]]
  <2>2. g \in [S -> S] /\ \A x \in S : g[x] = IF x \in D THEN f[next[x]] ELSE stop[x]
    OBVIOUS
  <2> HIDE DEF g
  <2>3. ASSUME NEW x \in S, rank[x] + n >= top PROVE g[x] = f[x]
    BY <2>1, <2>2, <2>3
  <2>4. ASSUME NEW x \in S, rank[x] + (n + 1) >= top PROVE Holds(g, x)
    <3>1. CASE x \in D
      <4>1. next[x] \in S /\ rank[next[x]] \in Nat /\ rank[x] \in Nat /\ rank[x] < rank[next[x]]
        BY <3>1 DEF Climbs
      <4>2. g[next[x]] = f[next[x]]
        BY <2>3, <2>4, <4>1
      <4> QED BY <2>2, <3>1, <4>2
    <3>2. CASE x \notin D
      BY <2>2, <3>2
    <3> QED BY <3>1, <3>2
  <2> QED BY <2>2, <2>4
<1> HIDE DEF T
<1>3. top \in T
  BY <1>1, <1>2, NatInduces
<1>4. PICK f \in [S -> S] : \A x \in S : rank[x] + top >= top => Holds(f, x)
  BY <1>3 DEF T
<1>5. \A x \in S : rank[x] + top >= top
  OBVIOUS
<1>6. Loop(f, S, D, next, stop)
  BY <1>4, <1>5 DEF Loop
<1> QED BY <1>6

\* The same over the naturals, each a place in a text.
LEMMA ScanExists ==
  ASSUME NEW top \in Nat, NEW D \in SUBSET Nat, NEW next \in [Nat -> Nat], NEW stop \in [Nat -> Nat],
         \A p \in D : p < top /\ p < next[p]
  PROVE  \E f : Loop(f, Nat, D, next, stop)
<1> DEFINE rank == [p \in Nat |-> p]
<1>1. rank \in [Nat -> Nat] /\ \A p \in Nat : rank[p] = p
  OBVIOUS
<1> HIDE DEF rank
<1>2. Climbs(rank, top, D, next)
  BY <1>1 DEF Climbs
<1> QED BY <1>1, <1>2, LoopExists

\* Induction downwards, for the set T of the numbers that have the property.
LEMMA DownInduces ==
  ASSUME NEW top \in Nat, NEW T, \A p \in 0..top : (\A q \in (p + 1)..top : q \in T) => p \in T
  PROVE  \A p \in 0..top : p \in T
<1> SUFFICES ASSUME NEW b \in 0..top, b \notin T PROVE FALSE
  OBVIOUS
<1> DEFINE B == {n \in 0..top : top - n \notin T}
<1>1. B \subseteq Nat /\ top - b \in B
  OBVIOUS
<1> HIDE DEF B
<1>2. PICK n \in B : \A y \in B : n <= y
  BY <1>1, NatLeast
<1>3. n \in 0..top /\ top - n \notin T
  BY <1>2 DEF B
<1>4. ASSUME NEW q \in (top - n + 1)..top PROVE q \in T
  <2>1. top - q \in 0..top /\ top - q < n /\ top - (top - q) = q
    BY <1>3
  <2>2. top - q \notin B
    BY <1>1, <1>2, <1>3, <2>1
  <2> QED BY <2>1, <2>2 DEF B
<1>5. top - n \in 0..top
  BY <1>3
<1> QED BY <1>3, <1>4, <1>5
=============================================================================
