--------------------------- MODULE MsInternProofs ---------------------------
(* The intern table for every content, hash function, capacity and sequence   *)
(* of creations, refusals and deletions: no string is lost, none is made      *)
(* twice, and the table is the pool its header promises.                      *)
EXTENDS MsIntern, MsInduction

----------------------------------------------------------------------------
(* Buckets on a circle.                                                      *)

\* How far bucket b lies beyond bucket a, and the bucket d beyond a.
Gap(a, b, cap) == (b - a) % cap
On(a, d, cap) == (a + d) % cap

\* The probe that starts at bucket a passes x before it comes to p.
Before(x, a, p, cap) == Gap(a, x, cap) < Gap(a, p, cap)

LEMMA GapIs ==
  ASSUME NEW cap \in Nat \ {0}, NEW a \in 0..cap - 1, NEW b \in 0..cap - 1
  PROVE  Gap(a, b, cap) = IF a <= b THEN b - a ELSE b - a + cap
BY RemainderApart DEF Gap

LEMMA OnIs ==
  ASSUME NEW cap \in Nat \ {0}, NEW a \in 0..cap - 1, NEW d \in 0..cap - 1
  PROVE  On(a, d, cap) = IF a + d < cap THEN a + d ELSE a + d - cap
BY RemainderOn DEF On

LEMMA Around ==
  ASSUME NEW cap \in Nat \ {0}, NEW a \in 0..cap - 1, NEW b \in 0..cap - 1
  PROVE  Gap(a, b, cap) \in 0..cap - 1 /\ On(a, Gap(a, b, cap), cap) = b
<1>1. Gap(a, b, cap) \in 0..cap - 1
  BY GapIs
<1>2. On(a, Gap(a, b, cap), cap) = IF a + Gap(a, b, cap) < cap THEN a + Gap(a, b, cap)
                                   ELSE a + Gap(a, b, cap) - cap
  BY <1>1, OnIs
<1> QED BY <1>1, <1>2, GapIs

LEMMA Onward ==
  ASSUME NEW cap \in Nat \ {0}, NEW a \in 0..cap - 1, NEW d \in 0..cap - 1
  PROVE  On(a, d, cap) \in 0..cap - 1 /\ Gap(a, On(a, d, cap), cap) = d
<1>1. On(a, d, cap) \in 0..cap - 1
  BY OnIs
<1>2. Gap(a, On(a, d, cap), cap) = IF a <= On(a, d, cap) THEN On(a, d, cap) - a
                                   ELSE On(a, d, cap) - a + cap
  BY <1>1, GapIs
<1> QED BY <1>1, <1>2, OnIs

\* What lies between a hole on the probe path of p and p itself is on the path.
LEMMA AheadThrough ==
  ASSUME NEW cap \in Nat \ {0}, NEW a \in 0..cap - 1, NEW p \in 0..cap - 1,
         NEW hole \in 0..cap - 1, NEW z \in 0..cap - 1,
         Before(hole, a, p, cap), Before(z, hole, p, cap)
  PROVE  Before(z, a, p, cap)
BY GapIs DEF Before

\* Bucket z lies between the hole and k when, seen from idx, it is beyond the
\* hole and k is beyond z or before the hole.
LEMMA Beyond ==
  ASSUME NEW cap \in Nat \ {0}, NEW idx \in 0..cap - 1, NEW hole \in 0..cap - 1,
         NEW z \in 0..cap - 1, NEW k \in 0..cap - 1,
         Gap(idx, hole, cap) < Gap(idx, z, cap),
         Gap(idx, z, cap) < Gap(idx, k, cap) \/ Gap(idx, k, cap) < Gap(idx, hole, cap)
  PROVE  Before(z, hole, k, cap)
<1>1. Gap(idx, hole, cap) = IF idx <= hole THEN hole - idx ELSE hole - idx + cap
  BY GapIs
<1>2. Gap(idx, z, cap) = IF idx <= z THEN z - idx ELSE z - idx + cap
  BY GapIs
<1>3. Gap(idx, k, cap) = IF idx <= k THEN k - idx ELSE k - idx + cap
  BY GapIs
<1>4. Gap(hole, z, cap) = IF hole <= z THEN z - hole ELSE z - hole + cap
  BY GapIs
<1>5. Gap(hole, k, cap) = IF hole <= k THEN k - hole ELSE k - hole + cap
  BY GapIs
<1> QED BY <1>1, <1>2, <1>3, <1>4, <1>5 DEF Before

----------------------------------------------------------------------------
(* Probing.                                                                  *)

LEMMA MinLeast ==
  ASSUME NEW T, T \subseteq Nat, T # {}
  PROVE  Min(T) \in T /\ \A y \in T : Min(T) <= y
BY NatLeast DEF Min

\* A probe ends at the first bucket of its path that it is to stop at.
LEMMA ProbeStops ==
  ASSUME NEW cap \in Nat \ {0}, NEW slots, NEW h \in Nat, NEW stops,
         \E i \in 0..cap - 1 : slots[i] \in stops \cup {NULL}
  PROVE  /\ Probe(slots, cap, h, stops) \in 0..cap - 1
         /\ slots[Probe(slots, cap, h, stops)] \in stops \cup {NULL}
         /\ \A x \in 0..cap - 1 : Before(x, h % cap, Probe(slots, cap, h, stops), cap)
                                    => slots[x] \notin stops \cup {NULL}
<1> DEFINE a == h % cap
           S == {d \in 0..cap - 1 : slots[(h + d) % cap] \in stops \cup {NULL}}
           d0 == Min(S)
           p == (h + d0) % cap
<1>1. a \in 0..cap - 1
  BY RemainderIn
<1>2. ASSUME NEW d \in 0..cap - 1 PROVE (h + d) % cap = On(a, d, cap)
  <2>1. h \in Int /\ d \in Int
    OBVIOUS
  <2> QED BY <2>1, RemainderSum DEF On
<1>3. p = Probe(slots, cap, h, stops)
  BY DEF Probe
<1> HIDE DEF a
<1>4. S = {d \in 0..cap - 1 : slots[On(a, d, cap)] \in stops \cup {NULL}}
  BY <1>2
<1> HIDE DEF S
<1>5. S # {} /\ S \subseteq Nat
  <2>1. PICK i \in 0..cap - 1 : slots[i] \in stops \cup {NULL}
    OBVIOUS
  <2>2. Gap(a, i, cap) \in S
    BY <1>1, <1>4, <2>1, Around
  <2> QED BY <1>4, <2>2
<1>6. d0 \in S /\ \A y \in S : d0 <= y
  BY <1>5, MinLeast
<1> HIDE DEF d0
<1>7. d0 \in 0..cap - 1 /\ p = On(a, d0, cap)
  BY <1>2, <1>4, <1>6
<1>8. slots[p] \in stops \cup {NULL}
  BY <1>4, <1>6, <1>7
<1> HIDE DEF p
<1>9. p \in 0..cap - 1 /\ Gap(a, p, cap) = d0
  BY <1>1, <1>7, Onward
<1>10. ASSUME NEW x \in 0..cap - 1, Before(x, a, p, cap)
       PROVE  slots[x] \notin stops \cup {NULL}
  <2>1. Gap(a, x, cap) < d0
    BY <1>9, <1>10 DEF Before
  <2>2. Gap(a, x, cap) \in 0..cap - 1 /\ On(a, Gap(a, x, cap), cap) = x
    BY <1>1, Around
  <2>3. Gap(a, x, cap) \notin S
    BY <1>6, <1>7, <2>1, <2>2
  <2> QED BY <1>4, <2>2, <2>3
<1> QED BY <1>3, <1>8, <1>9, <1>10 DEF a

----------------------------------------------------------------------------
(* Tables.                                                                   *)

\* A table of cap buckets holds the objects O, of hashes H: each is in one
\* bucket, and no bucket that its probe passes on the way is empty.
Unbroken(slots, cap, H) ==
  \A i, x \in 0..cap - 1 :
    slots[i] # NULL /\ Before(x, H[slots[i]] % cap, i, cap) => slots[x] # NULL

Holding(slots, cap, O) ==
  /\ slots \in [0..cap - 1 -> O \cup {NULL}]
  /\ \A o \in O : \E i \in 0..cap - 1 : slots[i] = o
  /\ \A i, j \in 0..cap - 1 : slots[i] = slots[j] /\ slots[i] # NULL => i = j

TableOk(slots, cap, O, H) ==
  /\ Holding(slots, cap, O)
  /\ Unbroken(slots, cap, H)

LEMMA NotBeforeBoth ==
  ASSUME NEW cap \in Nat \ {0}, NEW a \in 0..cap - 1, NEW p \in 0..cap - 1, NEW q \in 0..cap - 1
  PROVE  p = q \/ Before(p, a, q, cap) \/ Before(q, a, p, cap)
BY GapIs DEF Before

\* A table of more buckets than objects has an empty bucket.
LEMMA SomeEmpty ==
  ASSUME NEW cap \in Nat \ {0}, NEW O, IsFiniteSet(O), Cardinality(O) < cap,
         NEW slots, Holding(slots, cap, O)
  PROVE  \E i \in 0..cap - 1 : slots[i] = NULL
<1> SUFFICES ASSUME \A i \in 0..cap - 1 : slots[i] # NULL PROVE FALSE
  OBVIOUS
<1>1. slots \in [0..cap - 1 -> O]
  BY DEF Holding
<1>2. IsFiniteSet(0..cap - 1) /\ Cardinality(0..cap - 1) = cap
  BY FS_Interval
<1>3. \E x, y \in 0..cap - 1 : x # y /\ slots[x] = slots[y]
  BY <1>1, <1>2, FS_PigeonHole
<1> QED BY <1>3 DEF Holding

\* The filled buckets are as many as the objects.
LEMMA CountFilled ==
  ASSUME NEW cap \in Nat \ {0}, NEW O, IsFiniteSet(O), NULL \notin O,
         NEW slots, Holding(slots, cap, O)
  PROVE  Cardinality({i \in 0..cap - 1 : slots[i] # NULL}) = Cardinality(O)
<1> DEFINE F == {i \in 0..cap - 1 : slots[i] # NULL}
           f == [i \in F |-> slots[i]]
<1>1. f \in [F -> O]
  BY DEF Holding
<1>2. \A i, j \in F : f[i] = f[j] => i = j
  BY DEF Holding
<1>3. \A o \in O : \E i \in F : f[i] = o
  BY DEF Holding
<1>4. f \in Bijection(F, O)
  BY <1>1, <1>2, <1>3 DEF Bijection, Injection, Surjection, IsInjective
<1>5. f \in Injection(F, O) /\ f \in Surjection(F, O)
  BY <1>4 DEF Bijection
<1>6. IsFiniteSet(F) /\ (Cardinality(F) = Cardinality(O) <=> f \in Surjection(F, O))
  BY <1>5, FS_Injection
<1> QED BY <1>5, <1>6

\* A probe finds the one object of the table that it is to stop at, ...
LEMMA Finds ==
  ASSUME NEW cap \in Nat \ {0}, NEW O, NULL \notin O, NEW slots, NEW H, TableOk(slots, cap, O, H),
         NEW o \in O, H[o] \in Nat, NEW stops, stops \cap O = {o}
  PROVE  slots[Probe(slots, cap, H[o], stops)] = o
<1> DEFINE p == Probe(slots, cap, H[o], stops)
<1>1. PICK i \in 0..cap - 1 : slots[i] = o
  BY DEF TableOk, Holding
<1>2. /\ p \in 0..cap - 1 /\ slots[p] \in stops \cup {NULL}
      /\ \A x \in 0..cap - 1 : Before(x, H[o] % cap, p, cap) => slots[x] \notin stops \cup {NULL}
  BY <1>1, ProbeStops
<1> HIDE DEF p
<1>3. ~Before(i, H[o] % cap, p, cap)
  BY <1>1, <1>2
<1>4. CASE p = i
  BY <1>1, <1>4 DEF p
<1>5. CASE Before(p, H[o] % cap, i, cap)
  <2>1. slots[p] # NULL
    BY <1>1, <1>2, <1>5 DEF TableOk, Unbroken
  <2>2. slots[p] \in stops \cap O
    BY <1>2, <2>1 DEF TableOk, Holding
  <2> QED BY <2>2 DEF p
<1>6. H[o] % cap \in 0..cap - 1
  <2>1. H[o] \in Int
    OBVIOUS
  <2> QED BY <2>1, RemainderIn
<1>7. p = i \/ Before(i, H[o] % cap, p, cap) \/ Before(p, H[o] % cap, i, cap)
  BY <1>2, <1>6, NotBeforeBoth
<1> QED BY <1>3, <1>4, <1>5, <1>7

\* ... and an empty bucket when the table holds none of them.
LEMMA FindsNone ==
  ASSUME NEW cap \in Nat \ {0}, NEW O, IsFiniteSet(O), Cardinality(O) < cap,
         NEW slots, Holding(slots, cap, O),
         NEW h \in Nat, NEW stops, stops \cap O = {}
  PROVE  slots[Probe(slots, cap, h, stops)] = NULL
<1>1. PICK i \in 0..cap - 1 : slots[i] = NULL
  BY SomeEmpty
<1>2. /\ Probe(slots, cap, h, stops) \in 0..cap - 1
      /\ slots[Probe(slots, cap, h, stops)] \in stops \cup {NULL}
  BY <1>1, ProbeStops
<1> QED BY <1>2 DEF Holding

\* Insertion fills the first empty bucket of the probe of the new object.
LEMMA Inserted ==
  ASSUME NEW cap \in Nat \ {0}, NEW O, IsFiniteSet(O), NULL \notin O, Cardinality(O) < cap,
         NEW slots, NEW H, TableOk(slots, cap, O, H),
         NEW o, o \notin O, o # NULL, H[o] \in Nat
  PROVE  TableOk(InternInsert(slots, cap, H[o], o), cap, O \cup {o}, H)
<1> DEFINE p == Probe(slots, cap, H[o], {})
           after == [slots EXCEPT ![p] = o]
<1>1. \E i \in 0..cap - 1 : slots[i] \in {} \cup {NULL}
  BY SomeEmpty DEF TableOk
<1>2. /\ p \in 0..cap - 1 /\ slots[p] = NULL
      /\ \A x \in 0..cap - 1 : Before(x, H[o] % cap, p, cap) => slots[x] # NULL
  BY <1>1, ProbeStops
<1> HIDE DEF p
<1>3. /\ after \in [0..cap - 1 -> O \cup {o} \cup {NULL}]
      /\ after[p] = o /\ \A i \in 0..cap - 1 : i # p => after[i] = slots[i]
  BY <1>2 DEF TableOk, Holding
<1> HIDE DEF after
<1>4. Holding(after, cap, O \cup {o})
  <2>1. ASSUME NEW q \in O \cup {o} PROVE \E i \in 0..cap - 1 : after[i] = q
    <3>1. CASE q = o
      BY <1>2, <1>3, <3>1
    <3>2. CASE q \in O
      <4>1. PICK i \in 0..cap - 1 : slots[i] = q
        BY <3>2 DEF TableOk, Holding
      <4>2. i # p
        BY <1>2, <3>2, <4>1
      <4> QED BY <1>3, <4>1, <4>2
    <3> QED BY <3>1, <3>2
  <2>2. ASSUME NEW i \in 0..cap - 1, NEW j \in 0..cap - 1, after[i] = after[j], after[i] # NULL
        PROVE  i = j
    <3>1. \A k \in 0..cap - 1 : slots[k] # o
      BY DEF TableOk, Holding
    <3> QED BY <1>3, <2>2, <3>1 DEF TableOk, Holding
  <2> QED BY <1>3, <2>1, <2>2 DEF Holding
<1>5. Unbroken(after, cap, H)
  <2> SUFFICES ASSUME NEW i \in 0..cap - 1, NEW x \in 0..cap - 1,
                      after[i] # NULL, Before(x, H[after[i]] % cap, i, cap), x # p
               PROVE  slots[x] # NULL
    BY <1>3 DEF Unbroken
  <2>1. CASE i = p
    BY <1>2, <1>3, <2>1
  <2>2. CASE i # p
    BY <1>3, <2>2 DEF TableOk, Unbroken
  <2> QED BY <2>1, <2>2
<1> QED BY <1>4, <1>5 DEF TableOk, InternInsert, after, p

----------------------------------------------------------------------------
(* Rehashing.                                                                *)

\* The objects in the first n buckets.
FirstOf(n) == {internSlots[j] : j \in 0..n - 1} \ {NULL}

Carried(n, prior) ==
  IF internSlots[n - 1] = NULL THEN prior
  ELSE InternInsert(prior, 2 * internCap, HashOf(internSlots[n - 1]), internSlots[n - 1])

\* The recursion of Moved has a solution.
LEMMA MovedIs ==
  ASSUME NEW O, internCap \in Nat \ {0}, Holding(internSlots, internCap, O)
  PROVE  /\ Moved[0] = Empty(2 * internCap)
         /\ \A n \in 1..internCap : Moved[n] = Carried(n, Moved[n - 1])
<1> DEFINE S == [0..2 * internCap - 1 -> O \cup {NULL}]
           step == [n \in 1..internCap |-> [prior \in S |-> Carried(n, prior)]]
           Body(g) == [n \in 0..internCap |->
                        IF n = 0 THEN Empty(2 * internCap)
                        ELSE IF internSlots[n - 1] = NULL THEN g[n - 1]
                        ELSE InternInsert(g[n - 1], 2 * internCap, HashOf(internSlots[n - 1]),
                                          internSlots[n - 1])]
<1>1. Empty(2 * internCap) \in S
  BY DEF Empty
<1>2. ASSUME NEW n \in 1..internCap, NEW prior \in S PROVE Carried(n, prior) \in S
  <2>1. n - 1 \in 0..internCap - 1
    OBVIOUS
  <2>2. internSlots[n - 1] = NULL \/ internSlots[n - 1] \in O
    BY <2>1 DEF Holding
  <2>3. CASE internSlots[n - 1] = NULL
    BY <2>3 DEF Carried
  <2>4. CASE internSlots[n - 1] # NULL /\ internSlots[n - 1] \in O
    BY <2>4 DEF Carried, InternInsert
  <2> QED BY <2>2, <2>3, <2>4
<1>3. step \in [1..internCap -> [S -> S]]
  BY <1>2
<1> HIDE DEF S
<1>4. PICK f : Rounds(f, internCap, Empty(2 * internCap), step, S)
  BY <1>1, <1>3, RoundsExist
<1>5. /\ f \in [0..internCap -> S] /\ f[0] = Empty(2 * internCap)
      /\ \A n \in 1..internCap : f[n] = step[n][f[n - 1]]
  BY <1>4 DEF Rounds
<1>6. ASSUME NEW n \in 1..internCap PROVE f[n] = Carried(n, f[n - 1])
  <2>1. n - 1 \in 0..internCap
    OBVIOUS
  <2>2. f[n - 1] \in S
    BY <1>5, <2>1
  <2> QED BY <1>5, <2>2
<1>7. f = Body(f)
  BY <1>5, <1>6 DEF Carried
<1>8. Moved = CHOOSE g : g = Body(g)
  BY DEF Moved
<1> HIDE DEF Body
<1>9. Moved = Body(Moved)
  BY <1>7, <1>8
<1> QED BY <1>9 DEF Body, Carried

\* A table of twice the size holds the same objects.
LEMMA Rehashes ==
  ASSUME NEW O, IsFiniteSet(O), NULL \notin O, internCap \in Nat \ {0}, Cardinality(O) < 2 * internCap,
         Holding(internSlots, internCap, O),
         NEW H, \A o \in O : H[o] = HashOf(o) /\ H[o] \in Nat
  PROVE  TableOk(Rehashed, 2 * internCap, O, H)
<1> DEFINE big == 2 * internCap
           Step(n) == TableOk(Moved[n], big, FirstOf(n), H)
           T == {n \in 0..internCap : Step(n)}
<1>1. big \in Nat \ {0}
  OBVIOUS
<1>2. 0 \in T
  <2>1. Moved[0] = Empty(big)
    BY MovedIs
  <2>2. FirstOf(0) = {}
    BY DEF FirstOf
  <2>3. TableOk(Empty(big), big, {}, H)
    <3>1. /\ Empty(big) \in [0..big - 1 -> {} \cup {NULL}]
          /\ \A i \in 0..big - 1 : Empty(big)[i] = NULL
      BY DEF Empty
    <3> HIDE DEF big
    <3> QED BY <3>1 DEF TableOk, Holding, Unbroken
  <2>4. Step(0)
    BY <2>1, <2>2, <2>3
  <2> HIDE DEF Step
  <2> QED BY <2>4
<1>3. ASSUME NEW n \in 0..internCap - 1, n \in T PROVE n + 1 \in T
  <2>0. n + 1 \in 1..internCap /\ n + 1 - 1 = n /\ n \in 0..internCap - 1
    OBVIOUS
  <2>1. Moved[n + 1] = Carried(n + 1, Moved[n])
    BY <2>0, MovedIs
  <2>2. FirstOf(n + 1) = FirstOf(n) \cup ({internSlots[n]} \ {NULL})
    BY DEF FirstOf
  <2>5. Step(n)
    <3> HIDE DEF Step
    <3> QED BY <1>3
  <2>3. CASE internSlots[n] = NULL
    <3>1. Moved[n + 1] = Moved[n] /\ FirstOf(n + 1) = FirstOf(n)
      <4>1. internSlots[n + 1 - 1] = NULL
        BY <2>3
      <4>2. Carried(n + 1, Moved[n]) = Moved[n]
        BY <4>1 DEF Carried
      <4> QED BY <2>1, <2>2, <2>3, <4>2
    <3>2. Step(n + 1)
      BY <2>5, <3>1
    <3> HIDE DEF Step
    <3> QED BY <2>0, <3>2
  <2>4. CASE internSlots[n] # NULL
    <3> DEFINE o == internSlots[n]
    <3>1. FirstOf(n) \subseteq O /\ o \in O /\ o \notin FirstOf(n) /\ NULL \notin FirstOf(n)
      BY <2>4 DEF FirstOf, Holding
    <3>2. IsFiniteSet(FirstOf(n)) /\ Cardinality(FirstOf(n)) <= Cardinality(O)
      BY <3>1, FS_Subset
    <3>3. Cardinality(O) \in Nat /\ Cardinality(FirstOf(n)) \in Nat
      BY <3>2, FS_CardinalityType
    <3>4. H[o] = HashOf(o) /\ H[o] \in Nat /\ o # NULL
      BY <3>1
    <3>5. Moved[n + 1] = InternInsert(Moved[n], big, H[o], o)
      BY <2>0, <2>1, <2>4, <3>4 DEF Carried
    <3>6. FirstOf(n + 1) = FirstOf(n) \cup {o}
      BY <2>2, <3>4
    <3> HIDE DEF o, big, T
    <3>7. TableOk(InternInsert(Moved[n], big, H[o], o), big, FirstOf(n) \cup {o}, H)
      <4>1. Cardinality(FirstOf(n)) < big
        BY <3>2, <3>3 DEF big
      <4> QED BY <1>1, <2>5, <3>1, <3>2, <3>4, <4>1, Inserted
    <3>8. Step(n + 1)
      BY <3>5, <3>6, <3>7
    <3> HIDE DEF Step
    <3> QED BY <2>0, <3>8 DEF T
  <2> QED BY <2>3, <2>4
<1> HIDE DEF T
<1>4. \A n \in 0..internCap : n \in T
  BY <1>2, <1>3, UptoInduces
<1>5. internCap \in T
  BY <1>4
<1>6. FirstOf(internCap) = O
  BY DEF FirstOf, Holding
<1>7. Step(internCap)
  <2> HIDE DEF Step
  <2> QED BY <1>5 DEF T
<1> QED BY <1>6, <1>7 DEF Rehashed

----------------------------------------------------------------------------
(* Deletion.                                                                 *)

Scans(O) == [slots : [0..internCap - 1 -> O \cup {NULL}], hole : 0..internCap - 1, done : BOOLEAN]

\* The rounds of the scan, and the table it leaves.
Scanned(scan, slots, idx) ==
  /\ scan[0] = [slots |-> slots, hole |-> idx, done |-> FALSE]
  /\ \A d \in 1..internCap - 1 : scan[d] = Shift(idx, scan[d - 1], d)
  /\ BackShift(slots, idx) = [scan[internCap - 1].slots EXCEPT ![scan[internCap - 1].hole] = NULL]

\* The recursion of BackShift has a solution.
LEMMA BackShiftIs ==
  ASSUME NEW O, internCap \in Nat \ {0}, NEW slots \in [0..internCap - 1 -> O \cup {NULL}],
         NEW idx \in 0..internCap - 1
  PROVE  \E scan \in [0..internCap - 1 -> Scans(O)] : Scanned(scan, slots, idx)
<1> DEFINE S == Scans(O)
           m == internCap - 1
           first == [slots |-> slots, hole |-> idx, done |-> FALSE]
           step == [d \in 1..m |-> [acc \in S |-> Shift(idx, acc, d)]]
           Body(g) == [d \in 0..m |-> IF d = 0 THEN first ELSE Shift(idx, g[d - 1], d)]
           scan == CHOOSE g : g = Body(g)
<1>1. first \in S /\ m \in Nat
  BY DEF Scans
<1>2. ASSUME NEW d \in 1..m, NEW acc \in S PROVE Shift(idx, acc, d) \in S
  <2> DEFINE i == (idx + d) % internCap
             home == HashOf(acc.slots[i]) % internCap
  <2>1. idx + d \in Int
    OBVIOUS
  <2>2. i \in 0..internCap - 1
    BY <2>1, RemainderIn
  <2> HIDE DEF i
  <2>3. /\ acc.slots \in [0..internCap - 1 -> O \cup {NULL}] /\ acc.hole \in 0..internCap - 1
        /\ acc = [slots |-> acc.slots, hole |-> acc.hole, done |-> acc.done]
    BY DEF Scans
  <2>4. Shift(idx, acc, d) =
          IF acc.done \/ acc.slots[i] = NULL THEN [acc EXCEPT !.done = TRUE]
          ELSE IF (acc.hole - home) % internCap < (i - home) % internCap
          THEN [acc EXCEPT !.slots[acc.hole] = acc.slots[i], !.hole = i]
          ELSE acc
    BY DEF Shift, i
  <2> HIDE DEF home
  <2>5. [acc EXCEPT !.done = TRUE] \in S
    BY DEF Scans
  <2>6. [acc EXCEPT !.slots[acc.hole] = acc.slots[i], !.hole = i] \in S
    BY <2>2, <2>3 DEF Scans
  <2> QED BY <2>4, <2>5, <2>6
<1>3. step \in [1..m -> [S -> S]]
  BY <1>2
<1> HIDE DEF S, first, m
<1>4. PICK f : Rounds(f, m, first, step, S)
  BY <1>1, <1>3, RoundsExist
<1>5. /\ f \in [0..m -> S] /\ f[0] = first
      /\ \A d \in 1..m : f[d] = step[d][f[d - 1]]
  BY <1>4 DEF Rounds
<1>6. ASSUME NEW d \in 1..m PROVE f[d] = Shift(idx, f[d - 1], d)
  <2>1. d - 1 \in 0..m
    BY <1>1
  <2>2. f[d - 1] \in S
    BY <1>5, <2>1
  <2> QED BY <1>5, <2>2
<1>7. f = Body(f)
  BY <1>1, <1>5, <1>6
<1>8. BackShift(slots, idx) = [scan[m].slots EXCEPT ![scan[m].hole] = NULL]
  BY DEF BackShift, first, m
<1> HIDE DEF Body
<1>9. scan = Body(scan)
  BY <1>7
<1> HIDE DEF scan
<1>10. /\ scan[0] = first
       /\ \A d \in 1..m : scan[d] = Shift(idx, scan[d - 1], d)
  BY <1>1, <1>9 DEF Body
<1>11. scan \in [0..m -> S]
  <2> DEFINE T == {n \in 0..m : scan[n] \in S}
  <2>1. 0 \in T
    BY <1>1, <1>10
  <2>2. ASSUME NEW n \in 0..m - 1, n \in T PROVE n + 1 \in T
    <3>1. n + 1 \in 1..m /\ n + 1 - 1 = n
      BY <1>1
    <3>2. scan[n + 1] = Shift(idx, scan[n], n + 1)
      BY <1>10, <3>1
    <3>3. scan[n] \in S
      BY <2>2
    <3>4. scan[n + 1] \in S
      BY <1>2, <3>1, <3>2, <3>3
    <3> QED BY <3>1, <3>4
  <2> HIDE DEF T
  <2>3. \A n \in 0..m : n \in T
    BY <1>1, <2>1, <2>2, UptoInduces
  <2>4. \A n \in 0..m : scan[n] \in S
    BY <2>3 DEF T
  <2>5. scan = [n \in 0..m |-> scan[n]]
    BY <1>9 DEF Body
  <2> QED BY <2>4, <2>5
<1> QED BY <1>8, <1>10, <1>11 DEF S, m, first, Scanned

\* The table v while d buckets behind the deleted one have been looked at: it
\* holds all but the deleted object, one bucket of the old table is a hole, and
\* only an entry that is not looked at yet may have the hole on its probe path.
Closing(v, hole, done, d, slots, idx, cap, O, H) ==
  /\ Holding(v, cap, O \ {slots[idx]})
  /\ hole \in 0..cap - 1 /\ v[hole] = NULL /\ slots[hole] # NULL
  /\ \A i \in 0..cap - 1 : i # hole => (v[i] = NULL <=> slots[i] = NULL)
  /\ \A i, x \in 0..cap - 1 : v[i] # NULL /\ Before(x, H[v[i]] % cap, i, cap) => slots[x] # NULL
  /\ Gap(idx, hole, cap) <= d
  /\ ~done => \A i \in 0..cap - 1 :
                /\ Gap(idx, i, cap) <= d => slots[i] # NULL
                /\ v[i] # NULL /\ Gap(idx, hole, cap) < Gap(idx, i, cap) /\ Gap(idx, i, cap) <= d
                     => ~Before(hole, H[v[i]] % cap, i, cap)
  /\ done => \A i \in 0..cap - 1 : v[i] # NULL => ~Before(hole, H[v[i]] % cap, i, cap)

LEMMA ClosingStarts ==
  ASSUME NEW cap \in Nat \ {0}, NEW O, NULL \notin O, NEW H, NEW slots, TableOk(slots, cap, O, H),
         NEW idx \in 0..cap - 1, slots[idx] \in O
  PROVE  Closing([slots EXCEPT ![idx] = NULL], idx, FALSE, 0, slots, idx, cap, O, H)
<1> DEFINE v == [slots EXCEPT ![idx] = NULL]
<1>1. /\ slots \in [0..cap - 1 -> O \cup {NULL}]
      /\ \A o \in O : \E i \in 0..cap - 1 : slots[i] = o
      /\ \A i, j \in 0..cap - 1 : slots[i] = slots[j] /\ slots[i] # NULL => i = j
  BY DEF TableOk, Holding
<1>2. /\ v[idx] = NULL /\ slots[idx] # NULL /\ DOMAIN v = 0..cap - 1 /\ v = [i \in 0..cap - 1 |-> v[i]]
      /\ \A i \in 0..cap - 1 : i # idx => v[i] = slots[i]
  BY <1>1
<1> HIDE DEF v
<1>3. Holding(v, cap, O \ {slots[idx]})
  <2>1. v \in [0..cap - 1 -> (O \ {slots[idx]}) \cup {NULL}]
    <3>1. ASSUME NEW i \in 0..cap - 1 PROVE v[i] \in (O \ {slots[idx]}) \cup {NULL}
      BY <1>1, <1>2
    <3> QED BY <1>2, <3>1
  <2>2. ASSUME NEW o \in O \ {slots[idx]} PROVE \E i \in 0..cap - 1 : v[i] = o
    BY <1>1, <1>2
  <2>3. ASSUME NEW i \in 0..cap - 1, NEW j \in 0..cap - 1, v[i] = v[j], v[i] # NULL PROVE i = j
    BY <1>1, <1>2, <2>3
  <2> QED BY <2>1, <2>2, <2>3 DEF Holding
<1>4. \A i, x \in 0..cap - 1 : v[i] # NULL /\ Before(x, H[v[i]] % cap, i, cap) => slots[x] # NULL
  BY <1>2 DEF TableOk, Unbroken
<1>5. /\ Gap(idx, idx, cap) = 0
      /\ \A i \in 0..cap - 1 : Gap(idx, i, cap) >= 0 /\ (Gap(idx, i, cap) <= 0 => i = idx)
  BY GapIs
<1> QED BY <1>2, <1>3, <1>4, <1>5 DEF Closing, v

\* An entry with the hole on its path moves into it and leaves a hole behind.
LEMMA ClosingMoves ==
  ASSUME NEW cap \in Nat \ {0}, NEW O, NULL \notin O, NEW H, \A o \in O : H[o] \in Nat,
         NEW slots, NEW idx \in 0..cap - 1,
         NEW v, NEW hole, NEW d \in Nat, d + 1 \in 0..cap - 1,
         Closing(v, hole, FALSE, d, slots, idx, cap, O, H),
         NEW i \in 0..cap - 1, Gap(idx, i, cap) = d + 1, v[i] # NULL,
         Before(hole, H[v[i]] % cap, i, cap)
  PROVE  Closing([v EXCEPT ![hole] = v[i], ![i] = NULL], i, FALSE, d + 1, slots, idx, cap, O, H)
<1> DEFINE w == [v EXCEPT ![hole] = v[i], ![i] = NULL]
<1>1. /\ v \in [0..cap - 1 -> (O \ {slots[idx]}) \cup {NULL}]
      /\ \A o \in O \ {slots[idx]} : \E k \in 0..cap - 1 : v[k] = o
      /\ \A k, j \in 0..cap - 1 : v[k] = v[j] /\ v[k] # NULL => k = j
  BY DEF Closing, Holding
<1>2. /\ hole \in 0..cap - 1 /\ v[hole] = NULL /\ slots[hole] # NULL
      /\ \A k \in 0..cap - 1 : k # hole => (v[k] = NULL <=> slots[k] = NULL)
      /\ Gap(idx, hole, cap) <= d
      /\ \A k, x \in 0..cap - 1 : v[k] # NULL /\ Before(x, H[v[k]] % cap, k, cap) => slots[x] # NULL
      /\ \A k \in 0..cap - 1 : Gap(idx, k, cap) <= d => slots[k] # NULL
  BY DEF Closing
<1>3. i # hole
  BY <1>2
<1>4. /\ w[i] = NULL /\ w[hole] = v[i] /\ w = [k \in 0..cap - 1 |-> w[k]]
      /\ \A k \in 0..cap - 1 : k # i /\ k # hole => w[k] = v[k]
  BY <1>1, <1>2, <1>3
<1> HIDE DEF w
<1>5. Holding(w, cap, O \ {slots[idx]})
  <2>1. ASSUME NEW k \in 0..cap - 1 PROVE w[k] \in (O \ {slots[idx]}) \cup {NULL}
    BY SMTT(30), <1>1, <1>2, <1>4
  <2>2. ASSUME NEW o \in O \ {slots[idx]} PROVE \E k \in 0..cap - 1 : w[k] = o
    <3>1. PICK k \in 0..cap - 1 : v[k] = o
      BY <1>1
    <3>2. k # hole
      BY <1>2, <3>1
    <3> QED BY <1>2, <1>4, <3>1, <3>2
  <2>3. ASSUME NEW k \in 0..cap - 1, NEW j \in 0..cap - 1, w[k] = w[j], w[k] # NULL PROVE k = j
    <3>1. k # i /\ j # i
      BY <1>4, <2>3
    <3>2. CASE k = hole
      <4>1. CASE j # hole
        <5>1. v[i] = v[j]
          BY <1>4, <2>3, <3>1, <3>2, <4>1
        <5> QED BY <1>1, <3>1, <5>1
      <4> QED BY <3>2, <4>1
    <3>3. CASE j = hole
      BY <1>1, <1>2, <1>4, <2>3, <3>1, <3>3
    <3>4. CASE k # hole /\ j # hole
      BY <1>1, <1>4, <2>3, <3>1, <3>4
    <3> QED BY <3>2, <3>3, <3>4
  <2> QED BY <1>4, <2>1, <2>2, <2>3 DEF Holding
<1>6. ASSUME NEW k \in 0..cap - 1, NEW x \in 0..cap - 1, w[k] # NULL, Before(x, H[w[k]] % cap, k, cap)
      PROVE  slots[x] # NULL
  <2>1. CASE k = hole
    <3>1. Gap(H[v[i]] % cap, x, cap) < Gap(H[v[i]] % cap, hole, cap)
      BY <1>4, <1>6, <2>1 DEF Before
    <3>2. v[i] \in O
      BY <1>1
    <3>3. H[v[i]] \in Int
      BY <3>2
    <3>4. H[v[i]] % cap \in 0..cap - 1
      BY <3>3, RemainderIn
    <3>5. \A y \in 0..cap - 1 : Gap(H[v[i]] % cap, y, cap) \in Int
      BY <3>4, Around
    <3>6. Before(x, H[v[i]] % cap, i, cap)
      BY <1>2, <3>1, <3>5 DEF Before
    <3> QED BY <1>2, <3>6
  <2>2. CASE k # hole
    <3>1. k # i
      BY <1>4, <1>6
    <3>2. w[k] = v[k]
      BY <1>4, <2>2, <3>1
    <3> QED BY <1>2, <1>6, <3>2
  <2> QED BY <2>1, <2>2
<1>7. slots[i] # NULL
  BY <1>2, <1>3
<1>8. \A k \in 0..cap - 1 : k # i => (w[k] = NULL <=> slots[k] = NULL)
  BY <1>2, <1>4
<1>9. ASSUME NEW k \in 0..cap - 1, Gap(idx, k, cap) <= d + 1 PROVE slots[k] # NULL
  <2>1. Gap(idx, k, cap) \in Int
    BY Around
  <2>2. CASE Gap(idx, k, cap) = d + 1
    <3>1. k = i
      BY <2>2, Around
    <3> QED BY <1>7, <3>1
  <2>3. CASE Gap(idx, k, cap) <= d
    BY <1>2, <2>3
  <2> QED BY <1>9, <2>1, <2>2, <2>3
<1>10. \A k \in 0..cap - 1 : ~(Gap(idx, i, cap) < Gap(idx, k, cap) /\ Gap(idx, k, cap) <= d + 1)
  <2>1. \A k \in 0..cap - 1 : Gap(idx, k, cap) \in Int
    BY Around
  <2> QED BY <2>1
<1>11. Gap(idx, i, cap) <= d + 1
  OBVIOUS
<1> QED BY <1>4, <1>5, <1>6, <1>7, <1>8, <1>9, <1>10, <1>11 DEF Closing, w

\* An entry whose path the hole is not on stays.
LEMMA ClosingKeeps ==
  ASSUME NEW cap \in Nat \ {0}, NEW O, NEW H, NEW slots, NEW idx \in 0..cap - 1,
         NEW v, NEW hole, NEW d \in Nat,
         Closing(v, hole, FALSE, d, slots, idx, cap, O, H),
         NEW i \in 0..cap - 1, Gap(idx, i, cap) = d + 1, v[i] # NULL,
         ~Before(hole, H[v[i]] % cap, i, cap)
  PROVE  Closing(v, hole, FALSE, d + 1, slots, idx, cap, O, H)
<1>1. \A k \in 0..cap - 1 : Gap(idx, k, cap) \in Int /\ (Gap(idx, k, cap) = d + 1 => k = i)
  BY Around
<1>2. /\ hole \in 0..cap - 1 /\ v[hole] = NULL /\ Gap(idx, hole, cap) <= d
      /\ \A k \in 0..cap - 1 : k # hole => (v[k] = NULL <=> slots[k] = NULL)
      /\ \A k \in 0..cap - 1 :
           /\ Gap(idx, k, cap) <= d => slots[k] # NULL
           /\ v[k] # NULL /\ Gap(idx, hole, cap) < Gap(idx, k, cap) /\ Gap(idx, k, cap) <= d
                => ~Before(hole, H[v[k]] % cap, k, cap)
  BY DEF Closing
<1>3. slots[i] # NULL
  BY <1>2
<1>4. ASSUME NEW k \in 0..cap - 1, Gap(idx, k, cap) <= d + 1
      PROVE  /\ slots[k] # NULL
             /\ v[k] # NULL /\ Gap(idx, hole, cap) < Gap(idx, k, cap)
                  => ~Before(hole, H[v[k]] % cap, k, cap)
  <2>1. CASE k = i
    BY <1>3, <2>1
  <2>2. CASE Gap(idx, k, cap) <= d
    BY <1>2, <2>2
  <2> QED BY <1>1, <1>4, <2>1, <2>2
<1>5. Gap(idx, hole, cap) <= d + 1
  BY <1>1, <1>2
<1> QED BY <1>4, <1>5 DEF Closing

\* At the first empty bucket no entry has the hole on its path: the path of one
\* further on, or of one before the hole, would lead through that bucket.
LEMMA ClosingStops ==
  ASSUME NEW cap \in Nat \ {0}, NEW O, NEW H, \A o \in O : H[o] \in Nat,
         NEW slots, NEW idx \in 0..cap - 1,
         NEW v, NEW hole, NEW d \in Nat,
         Closing(v, hole, FALSE, d, slots, idx, cap, O, H),
         NEW z \in 0..cap - 1, Gap(idx, z, cap) = d + 1, v[z] = NULL
  PROVE  Closing(v, hole, TRUE, d + 1, slots, idx, cap, O, H)
<1>1. \A k \in 0..cap - 1 : Gap(idx, k, cap) \in Int /\ (Gap(idx, k, cap) = d + 1 => k = z)
  BY Around
<1>2. /\ hole \in 0..cap - 1 /\ v[hole] = NULL /\ Gap(idx, hole, cap) <= d
      /\ \A k \in 0..cap - 1 : k # hole => (v[k] = NULL <=> slots[k] = NULL)
      /\ \A k, x \in 0..cap - 1 : v[k] # NULL /\ Before(x, H[v[k]] % cap, k, cap) => slots[x] # NULL
      /\ \A k \in 0..cap - 1 :
           v[k] # NULL /\ Gap(idx, hole, cap) < Gap(idx, k, cap) /\ Gap(idx, k, cap) <= d
             => ~Before(hole, H[v[k]] % cap, k, cap)
  BY DEF Closing
<1>3. v \in [0..cap - 1 -> (O \ {slots[idx]}) \cup {NULL}]
  BY DEF Closing, Holding
<1>4. slots[z] = NULL
  <2>1. z # hole
    BY <1>1, <1>2
  <2> QED BY <1>2, <2>1
<1>5. ASSUME NEW k \in 0..cap - 1, v[k] # NULL PROVE ~Before(hole, H[v[k]] % cap, k, cap)
  <2> SUFFICES ASSUME Before(hole, H[v[k]] % cap, k, cap) PROVE FALSE
    OBVIOUS
  <2>1. v[k] \in O
    BY <1>3, <1>5
  <2>2. H[v[k]] \in Int
    BY <2>1
  <2>3. H[v[k]] % cap \in 0..cap - 1
    BY <2>2, RemainderIn
  <2>4. k # hole /\ k # z
    BY <1>2, <1>5
  <2>5. Gap(idx, k, cap) > d + 1 \/ Gap(idx, k, cap) < Gap(idx, hole, cap)
    <3>1. Gap(idx, k, cap) # d + 1 /\ Gap(idx, k, cap) \in Int /\ Gap(idx, hole, cap) \in Int
      BY <1>1, <1>2, <2>4
    <3>2. Gap(idx, k, cap) # Gap(idx, hole, cap)
      BY <1>2, <2>4, Around
    <3>3. ~(Gap(idx, hole, cap) < Gap(idx, k, cap) /\ Gap(idx, k, cap) <= d)
      BY <1>2, <1>5
    <3> QED BY <3>1, <3>2, <3>3
  <2>6. Before(z, hole, k, cap)
    <3>1. Gap(idx, hole, cap) < Gap(idx, z, cap)
      BY <1>1, <1>2
    <3>2. Gap(idx, z, cap) < Gap(idx, k, cap) \/ Gap(idx, k, cap) < Gap(idx, hole, cap)
      BY <2>5
    <3> QED BY <1>2, <3>1, <3>2, Beyond
  <2>7. Before(z, H[v[k]] % cap, k, cap)
    BY <1>2, <2>3, <2>6, AheadThrough
  <2> QED BY <1>2, <1>4, <1>5, <2>7
<1>6. Gap(idx, hole, cap) <= d + 1
  BY <1>1, <1>2
<1> QED BY <1>5, <1>6 DEF Closing

\* When the scan has stopped, the hole may be left empty.
LEMMA ClosingEnds ==
  ASSUME NEW cap \in Nat \ {0}, NEW O, NEW H, NEW slots, NEW idx \in 0..cap - 1,
         NEW v, NEW hole, NEW d, Closing(v, hole, TRUE, d, slots, idx, cap, O, H)
  PROVE  TableOk(v, cap, O \ {slots[idx]}, H)
<1>1. Unbroken(v, cap, H)
  <2> SUFFICES ASSUME NEW i \in 0..cap - 1, NEW x \in 0..cap - 1,
                      v[i] # NULL, Before(x, H[v[i]] % cap, i, cap)
               PROVE  v[x] # NULL
    BY DEF Unbroken
  <2>1. x # hole /\ slots[x] # NULL
    BY DEF Closing
  <2> QED BY <2>1 DEF Closing
<1> QED BY <1>1 DEF Closing, TableOk

\* It does stop: the table is never full.
LEMMA ClosingStopped ==
  ASSUME NEW cap \in Nat \ {0}, NEW O, NEW H, NEW slots, NEW idx \in 0..cap - 1,
         NEW v, NEW hole, Closing(v, hole, FALSE, cap - 1, slots, idx, cap, O, H),
         \E i \in 0..cap - 1 : slots[i] = NULL
  PROVE  FALSE
<1>1. \A i \in 0..cap - 1 : Gap(idx, i, cap) <= cap - 1
  BY Around
<1>2. \A i \in 0..cap - 1 : Gap(idx, i, cap) <= cap - 1 => slots[i] # NULL
  BY DEF Closing
<1> QED BY <1>1, <1>2

\* Deletion keeps the table whole for the objects that are left.
LEMMA Deleted ==
  ASSUME NEW O, IsFiniteSet(O), NULL \notin O, internCap \in Nat \ {0}, Cardinality(O) < internCap,
         NEW slots, NEW H, \A o \in O : H[o] = HashOf(o) /\ H[o] \in Nat,
         TableOk(slots, internCap, O, H), NEW idx \in 0..internCap - 1, slots[idx] \in O
  PROVE  TableOk(BackShift(slots, idx), internCap, O \ {slots[idx]}, H)
<1> DEFINE cap == internCap
           m == cap - 1
<1>0. \A o \in O : H[o] \in Nat
  OBVIOUS
<1>a. Holding(slots, internCap, O)
  BY DEF TableOk
<1>1. \E i \in 0..internCap - 1 : slots[i] = NULL
  BY <1>a, SomeEmpty
<1>b. slots \in [0..internCap - 1 -> O \cup {NULL}]
  BY <1>a DEF Holding
<1>c. PICK scan \in [0..internCap - 1 -> Scans(O)] : Scanned(scan, slots, idx)
  BY <1>b, BackShiftIs
<1>2. /\ scan[0] = [slots |-> slots, hole |-> idx, done |-> FALSE]
      /\ \A d \in 1..m : scan[d] = Shift(idx, scan[d - 1], d)
      /\ BackShift(slots, idx) = [scan[m].slots EXCEPT ![scan[m].hole] = NULL]
      /\ scan \in [0..m -> Scans(O)]
  BY <1>c DEF Scanned
<1> DEFINE Left(acc) == [acc.slots EXCEPT ![acc.hole] = NULL]
           Good(d) == Closing(Left(scan[d]), scan[d].hole, scan[d].done, d, slots, idx, cap, O, H)
           T == {d \in 0..m : Good(d)}
<1>3. Good(0)
  <2>1. Left(scan[0]) = [slots EXCEPT ![idx] = NULL] /\ scan[0].hole = idx /\ scan[0].done = FALSE
    BY <1>2
  <2>2. Closing([slots EXCEPT ![idx] = NULL], idx, FALSE, 0, slots, idx, cap, O, H)
    BY ClosingStarts
  <2> HIDE DEF Left
  <2> QED BY <2>1, <2>2
<1>4. ASSUME NEW d \in 0..m - 1, Good(d) PROVE Good(d + 1)
  <2> DEFINE acc == scan[d]
             next == scan[d + 1]
             i == (idx + (d + 1)) % cap
             v == Left(acc)
  <2>1. d \in Nat /\ d + 1 \in 1..m /\ d + 1 - 1 = d /\ d + 1 \in 0..cap - 1 /\ d \in 0..m
    OBVIOUS
  <2>2. next = Shift(idx, acc, d + 1)
    BY <1>2, <2>1
  <2>3. /\ acc.slots \in [0..cap - 1 -> O \cup {NULL}] /\ acc.hole \in 0..cap - 1 /\ acc.done \in BOOLEAN
        /\ acc = [slots |-> acc.slots, hole |-> acc.hole, done |-> acc.done]
    <3>1. acc \in Scans(O)
      BY <1>2, <2>1
    <3> HIDE DEF acc
    <3> QED BY <3>1 DEF Scans
  <2>4. i \in 0..cap - 1 /\ Gap(idx, i, cap) = d + 1
    <3>1. i = On(idx, d + 1, cap)
      BY DEF On
    <3> QED BY <2>1, <3>1, Onward
  <2>5. Closing(v, acc.hole, acc.done, d, slots, idx, cap, O, H)
    BY <1>4
  <2>6. i # acc.hole
    <3>1. Gap(idx, acc.hole, cap) <= d
      BY <2>5 DEF Closing
    <3> QED BY <2>1, <2>4, <3>1
  <2>7. v = [acc.slots EXCEPT ![acc.hole] = NULL] /\ v[i] = acc.slots[i]
    BY <2>3, <2>4, <2>6
  <2>8. next = IF acc.done \/ acc.slots[i] = NULL THEN [acc EXCEPT !.done = TRUE]
               ELSE IF Before(acc.hole, HashOf(acc.slots[i]) % cap, i, cap)
               THEN [acc EXCEPT !.slots[acc.hole] = acc.slots[i], !.hole = i]
               ELSE acc
    BY <2>2 DEF Shift, Before, Gap
  <2> SUFFICES Closing(Left(next), next.hole, next.done, d + 1, slots, idx, cap, O, H)
    OBVIOUS
  <2> HIDE DEF acc, next, i, Good, T
  <2>9. CASE acc.done
    <3>1. next = [slots |-> acc.slots, hole |-> acc.hole, done |-> TRUE]
      BY <2>3, <2>8, <2>9
    <3>2. Left(next) = v /\ next.hole = acc.hole /\ next.done = TRUE
      BY <2>7, <3>1
    <3> HIDE DEF v, Left
    <3>3. Closing(v, acc.hole, TRUE, d + 1, slots, idx, cap, O, H)
      <4>1. Gap(idx, acc.hole, cap) \in Int
        BY <2>3, Around
      <4> QED BY <2>1, <2>5, <2>9, <4>1 DEF Closing
    <3> QED BY <3>2, <3>3
  <2>10. CASE ~acc.done /\ acc.slots[i] = NULL
    <3>1. next = [slots |-> acc.slots, hole |-> acc.hole, done |-> TRUE]
      BY <2>3, <2>8, <2>10
    <3>2. Left(next) = v /\ next.hole = acc.hole /\ next.done = TRUE
      BY <2>7, <3>1
    <3> HIDE DEF v, Left
    <3>3. acc.done = FALSE /\ v[i] = NULL
      BY <2>3, <2>7, <2>10
    <3>4. Closing(v, acc.hole, TRUE, d + 1, slots, idx, cap, O, H)
      BY <1>0, <2>1, <2>4, <2>5, <3>3, ClosingStops
    <3> QED BY <3>2, <3>4
  <2>11. CASE ~acc.done /\ acc.slots[i] # NULL
    <3>1. v[i] # NULL /\ v[i] \in O /\ acc.done = FALSE
      BY <2>3, <2>4, <2>7, <2>11
    <3>2. HashOf(acc.slots[i]) = H[v[i]]
      BY <2>7, <3>1
    <3>3. CASE Before(acc.hole, H[v[i]] % cap, i, cap)
      <4>1. next = [slots |-> [acc.slots EXCEPT ![acc.hole] = acc.slots[i]], hole |-> i, done |-> FALSE]
        BY <2>3, <2>8, <2>11, <3>1, <3>2, <3>3
      <4>2. Left(next) = [v EXCEPT ![acc.hole] = v[i], ![i] = NULL] /\ next.hole = i /\ next.done = FALSE
        BY <2>3, <2>4, <2>6, <2>7, <4>1
      <4> HIDE DEF v, Left
      <4>4. Closing(v, acc.hole, FALSE, d, slots, idx, cap, O, H)
        BY <2>5, <3>1
      <4> DEFINE hole == acc.hole
      <4> HIDE DEF hole
      <4>5. Closing(v, hole, FALSE, d, slots, idx, cap, O, H) /\ Before(hole, H[v[i]] % cap, i, cap)
        BY <3>3, <4>4 DEF hole
      <4>6. Closing([v EXCEPT ![hole] = v[i], ![i] = NULL], i, FALSE, d + 1, slots, idx, cap, O, H)
        BY <1>0, <2>1, <2>4, <3>1, <4>5, ClosingMoves
      <4>3. Closing([v EXCEPT ![acc.hole] = v[i], ![i] = NULL], i, FALSE, d + 1, slots, idx, cap, O, H)
        BY <4>6 DEF hole
      <4> QED BY <4>2, <4>3
    <3>4. CASE ~Before(acc.hole, H[v[i]] % cap, i, cap)
      <4>1. next = acc
        BY <2>8, <2>11, <3>2, <3>4
      <4>2. Left(next) = v /\ next.hole = acc.hole /\ next.done = FALSE
        BY <3>1, <4>1
      <4> HIDE DEF v, Left
      <4>3. Closing(v, acc.hole, FALSE, d + 1, slots, idx, cap, O, H)
        BY ZenonT(20), <2>1, <2>4, <2>5, <3>1, <3>4, ClosingKeeps
      <4> QED BY <4>2, <4>3
    <3> QED BY <3>3, <3>4
  <2> QED BY <2>9, <2>10, <2>11
<1> HIDE DEF Good
<1>5. m \in Nat /\ m \in 0..m /\ 0 \in 0..m
  OBVIOUS
<1>6. \A d \in 0..m : d \in T
  <2>1. 0 \in T
    BY <1>3, <1>5
  <2>2. \A d \in 0..m - 1 : d \in T => d + 1 \in T
    BY <1>4
  <2> HIDE DEF T, m
  <2> QED BY <1>5, <2>1, <2>2, UptoInduces
<1>7. Good(m)
  BY <1>5, <1>6
<1>8. Closing(Left(scan[m]), scan[m].hole, scan[m].done, cap - 1, slots, idx, cap, O, H)
  BY <1>7 DEF Good
<1>9. scan[m].done \in BOOLEAN
  BY <1>2, <1>5 DEF Scans
<1> HIDE DEF Left
<1>10. scan[m].done = TRUE
  <2>1. CASE scan[m].done = FALSE
    <3>1. Closing(Left(scan[m]), scan[m].hole, FALSE, cap - 1, slots, idx, cap, O, H)
      BY <1>8, <2>1
    <3> QED BY <1>1, <3>1, ClosingStopped
  <2> QED BY <1>9, <2>1
<1>11. TableOk(Left(scan[m]), cap, O \ {slots[idx]}, H)
  <2>1. Closing(Left(scan[m]), scan[m].hole, TRUE, cap - 1, slots, idx, cap, O, H)
    BY <1>8, <1>10
  <2> QED BY <2>1, ClosingEnds
<1> QED BY <1>2, <1>11 DEF Left

----------------------------------------------------------------------------
(* The inductive invariant.                                                  *)

Shorts == {o \in Live : text[o] \in Short}
Hashes == [o \in Live |-> HashOf(o)]

TypeOk ==
  /\ phase \in {"down", "naming", "up"} /\ named \in Nat
  /\ hash \in [Texts -> Nat]
  /\ Live \subseteq Objects /\ text \in [Live -> Texts]

\* The table holds exactly the short strings, no two of them of one content,
\* none behind an empty bucket, and at least a quarter of it is empty.
Whole ==
  /\ internCap \in Nat \ {0, 1}
  /\ TableOk(internSlots, internCap, Shorts, Hashes)
  /\ internLen = Cardinality(Shorts) /\ internLen * 4 <= internCap * 3
  /\ \A o, p \in Shorts : text[o] = text[p] => o = p

IInv ==
  /\ TypeOk /\ Balanced
  /\ phase = "down" => Live = {}
  /\ phase # "down" => Whole

LEMMA HashesAgree ==
  ASSUME NEW slots, NEW cap, NEW O, NEW H, TableOk(slots, cap, O, H),
         NEW G, \A o \in O : G[o] = H[o]
  PROVE  TableOk(slots, cap, O, G)
<1>1. \A i \in 0..cap - 1 : slots[i] # NULL => G[slots[i]] = H[slots[i]]
  BY DEF TableOk, Holding
<1> QED BY <1>1 DEF TableOk, Unbroken

\* What the invariant says of the objects alive.
LEMMA LiveFacts ==
  ASSUME TypeOk
  PROVE  /\ IsFiniteSet(Live) /\ Cardinality(Live) \in Nat
         /\ NULL \notin Live
         /\ IsFiniteSet(Shorts) /\ Cardinality(Shorts) \in Nat
         /\ Shorts \subseteq Live /\ NULL \notin Shorts
         /\ \A o \in Live : HashOf(o) \in Nat /\ Hashes[o] = HashOf(o)
<1>1. IsFiniteSet(1..MaxObjects)
  BY CapAssumption, FS_Interval
<1>2. IsFiniteSet(Live)
  BY <1>1, FS_Subset DEF TypeOk, Objects
<1>3. Shorts \subseteq Live
  BY DEF Shorts
<1>4. IsFiniteSet(Shorts)
  BY <1>2, <1>3, FS_Subset
<1>5. Cardinality(Live) \in Nat /\ Cardinality(Shorts) \in Nat
  BY <1>2, <1>4, FS_CardinalityType
<1>6. NULL \notin Live
  BY DEF TypeOk, NULL, Objects
<1>7. \A o \in Live : HashOf(o) \in Nat /\ Hashes[o] = HashOf(o)
  BY DEF TypeOk, HashOf, Hashes
<1> QED BY <1>2, <1>3, <1>4, <1>5, <1>6, <1>7

\* The table is never full.
LEMMA Roomy ==
  ASSUME TypeOk, Whole
  PROVE  Cardinality(Shorts) < internCap /\ internCap \in Nat \ {0}
<1>1. Cardinality(Shorts) \in Nat
  BY LiveFacts
<1> QED BY <1>1 DEF Whole

\* A short content is found when some object has it, and only then.
LEMMA Lookup ==
  ASSUME TypeOk, Whole, NEW t \in Short
  PROVE  /\ \A o \in Live : text[o] = t => InternFind(t) = o
         /\ InternFind(t) # NULL => InternFind(t) \in Live /\ text[InternFind(t)] = t
<1> DEFINE stops == {o \in Live : text[o] = t}
<1>0. /\ IsFiniteSet(Shorts) /\ NULL \notin Shorts /\ Cardinality(Shorts) < internCap
      /\ internCap \in Nat \ {0} /\ NULL \notin Live
  BY LiveFacts, Roomy
<1>1. ASSUME NEW o \in Live, text[o] = t PROVE InternFind(t) = o
  <2>1. o \in Shorts
    BY <1>1 DEF Shorts
  <2>2. stops \cap Shorts = {o}
    BY <1>1, <2>1 DEF Whole
  <2>3. Hashes[o] = hash[t] /\ Hashes[o] \in Nat
    BY <1>1, LiveFacts DEF HashOf
  <2>4. TableOk(internSlots, internCap, Shorts, Hashes)
    BY DEF Whole
  <2> HIDE DEF stops
  <2>5. internSlots[Probe(internSlots, internCap, Hashes[o], stops)] = o
    BY <1>0, <2>1, <2>2, <2>3, <2>4, Finds
  <2> QED BY <2>3, <2>5 DEF InternFind, stops
<1>2. hash[t] \in Nat
  BY DEF TypeOk, Texts
<1>3. \E i \in 0..internCap - 1 : internSlots[i] = NULL
  BY <1>0, SomeEmpty DEF Whole, TableOk
<1>4. internSlots[Probe(internSlots, internCap, hash[t], stops)] \in stops \cup {NULL}
  <2> HIDE DEF stops
  <2>1. \E i \in 0..internCap - 1 : internSlots[i] \in stops \cup {NULL}
    BY <1>3
  <2> QED BY <1>0, <1>2, <2>1, ProbeStops
<1>5. InternFind(t) \in stops \cup {NULL}
  BY <1>4 DEF InternFind
<1> QED BY <1>1, <1>5

----------------------------------------------------------------------------
(* Creation.                                                                 *)

\* The new object is alive afterwards and every other keeps its content.
LEMMA Born ==
  ASSUME TypeOk, UNCHANGED hash, Live # Objects,
         NEW t \in Texts, NEW o \in Objects, NewObject(t, o)
  PROVE  /\ o \in Objects /\ o \notin Live /\ o # NULL
         /\ Live' = Live \cup {o} /\ Live' \subseteq Objects
         /\ text' \in [Live' -> Texts] /\ text'[o] = t /\ \A p \in Live : text'[p] = text[p]
         /\ hash' \in [Texts -> Nat]
         /\ Cardinality(Live') = Cardinality(Live) + 1
         /\ \A p \in Live' : Hashes'[p] = hash[text'[p]]
         /\ \A p \in Live : Hashes'[p] = Hashes[p]
<1>1. Objects \ Live \subseteq Nat /\ Objects \ Live # {}
  <2>1. Objects \subseteq Nat
    BY CapAssumption DEF Objects
  <2> QED BY <2>1 DEF TypeOk
<1>2. o \in Objects \ Live
  BY <1>1, MinLeast DEF NewObject
<1>3. Live' = Live \cup {o} /\ text' = [p \in Live \cup {o} |-> IF p = o THEN t ELSE text[p]]
  BY DEF NewObject, Live
<1>4. Cardinality(Live \cup {o}) = Cardinality(Live) + 1
  BY <1>2, LiveFacts, FS_AddElement
<1>5. text' \in [Live' -> Texts] /\ text'[o] = t /\ \A p \in Live : text'[p] = text[p]
  BY <1>2, <1>3 DEF TypeOk
<1>6. \A p \in Live' : Hashes'[p] = hash[text'[p]]
  BY DEF Hashes, HashOf
<1>7. \A p \in Live : Hashes'[p] = Hashes[p]
  BY <1>3, <1>5, <1>6 DEF Hashes, HashOf
<1>8. o # NULL /\ Live' \subseteq Objects /\ hash' \in [Texts -> Nat]
  BY <1>2, <1>3 DEF TypeOk, NULL, Objects
<1>9. Cardinality(Live') = Cardinality(Live) + 1
  BY <1>3, <1>4
<1> QED BY <1>2, <1>3, <1>5, <1>6, <1>7, <1>8, <1>9

\* A short string that misses goes into the table, or into one twice as large.
LEMMA ShortBorn ==
  ASSUME TypeOk, Whole, blocks \in Int, UNCHANGED hash, NEW t \in Short, MadeShort(t)
  PROVE  /\ Live' \subseteq Objects /\ text' \in [Live' -> Texts] /\ Whole'
         /\ Cardinality(Live') = Cardinality(Live) + 1 /\ blocks' = blocks + 1
<1>1. PICK o \in Objects :
        /\ NewObject(t, o)
        /\ IF TooFull
           THEN /\ Table(InternInsert(Rehashed, 2 * internCap, hash[t], o), 2 * internCap, internLen + 1)
                /\ blocks' = GrowBlocks + 1
           ELSE /\ Table(InternInsert(internSlots, internCap, hash[t], o), internCap, internLen + 1)
                /\ blocks' = blocks + 1
  BY DEF MadeShort
<1>2. t \in Texts /\ Live # Objects /\ (t \notin Long => InternFind(t) = NULL) /\ t \notin Long
  BY ContentsAssumption DEF MadeShort, Misses, Texts
<1>3. /\ o \notin Live /\ o # NULL /\ Live' = Live \cup {o} /\ Live' \subseteq Objects
      /\ text' \in [Live' -> Texts] /\ text'[o] = t /\ (\A p \in Live : text'[p] = text[p])
      /\ Cardinality(Live') = Cardinality(Live) + 1
      /\ (\A p \in Live' : Hashes'[p] = hash[text'[p]]) /\ (\A p \in Live : Hashes'[p] = Hashes[p])
  BY <1>1, <1>2, Born
<1>4. /\ IsFiniteSet(Shorts) /\ Cardinality(Shorts) \in Nat /\ Shorts \subseteq Live
      /\ NULL \notin Shorts /\ o \notin Shorts /\ NULL \notin Live
      /\ \A p \in Live : HashOf(p) \in Nat /\ Hashes[p] = HashOf(p)
  BY <1>3, LiveFacts
<1>5. Shorts' = Shorts \cup {o} /\ Cardinality(Shorts \cup {o}) = Cardinality(Shorts) + 1
  <2>1. Shorts' = Shorts \cup {o}
    BY <1>3 DEF Shorts
  <2> QED BY <1>4, <2>1, FS_AddElement
<1>6. hash[t] \in Nat /\ Hashes'[o] = hash[t] /\ o \in Live'
  BY <1>2, <1>3 DEF TypeOk
<1> DEFINE G == [p \in Shorts \cup {o} |-> Hashes'[p]]
<1>7. /\ G[o] = hash[t] /\ \A p \in Shorts : G[p] = Hashes[p] /\ G[p] = HashOf(p) /\ G[p] \in Nat
      /\ \A p \in Shorts \cup {o} : Hashes'[p] = G[p]
  BY <1>3, <1>4, <1>6
<1> HIDE DEF G
<1>8. internCap \in Nat \ {0, 1} /\ Cardinality(Shorts) < internCap /\ TableOk(internSlots, internCap, Shorts, Hashes)
  BY Roomy DEF Whole
<1>9. TableOk(internSlots, internCap, Shorts, G)
  BY <1>7, <1>8, HashesAgree
<1>10. \A p, q \in Shorts' : text'[p] = text'[q] => p = q
  <2>1. \A p \in Shorts : text[p] # t
    BY <1>2, <1>4, Lookup
  <2>2. \A p \in Shorts : text'[p] = text[p]
    BY <1>3, <1>4
  <2> QED BY <1>3, <1>5, <2>1, <2>2 DEF Whole
<1>11. internLen = Cardinality(Shorts) /\ internLen * 4 <= internCap * 3 /\ internLen \in Nat
  BY <1>4 DEF Whole
<1>12. CASE TooFull
  <2> DEFINE big == 2 * internCap
  <2>1. big \in Nat \ {0, 1} /\ big \in Nat \ {0} /\ Cardinality(Shorts) < big /\ internCap \in Nat \ {0}
    BY <1>4, <1>8
  <2>2. Holding(internSlots, internCap, Shorts)
    BY <1>8 DEF TableOk
  <2>3. TableOk(Rehashed, big, Shorts, G)
    BY <1>4, <1>7, <2>1, <2>2, Rehashes
  <2>4. /\ internSlots' = InternInsert(Rehashed, big, G[o], o) /\ internCap' = big
        /\ internLen' = internLen + 1 /\ blocks' = GrowBlocks + 1
    BY <1>1, <1>7, <1>12 DEF Table
  <2>5. (internLen + 1) * 4 <= big * 3
    BY <1>8, <1>11
  <2> HIDE DEF big
  <2>6. TableOk(InternInsert(Rehashed, big, G[o], o), big, Shorts \cup {o}, G)
    <3>1. G[o] \in Nat
      BY <1>6, <1>7
    <3> QED BY <1>3, <1>4, <2>1, <2>3, <3>1, Inserted
  <2>7. TableOk(internSlots', internCap', Shorts', Hashes')
    BY <1>5, <1>7, <2>4, <2>6, HashesAgree
  <2>8. Whole'
    BY <1>5, <1>10, <1>11, <2>1, <2>4, <2>5, <2>7 DEF Whole
  <2>9. blocks' = blocks + 1
    BY <2>4 DEF GrowBlocks
  <2> QED BY <1>3, <2>8, <2>9
<1>13. CASE ~TooFull
  <2>1. /\ internSlots' = InternInsert(internSlots, internCap, G[o], o) /\ internCap' = internCap
        /\ internLen' = internLen + 1 /\ blocks' = blocks + 1
    BY <1>1, <1>7, <1>13 DEF Table
  <2>2. (internLen + 1) * 4 <= internCap * 3
    BY <1>8, <1>11, <1>13 DEF TooFull
  <2>3. TableOk(InternInsert(internSlots, internCap, G[o], o), internCap, Shorts \cup {o}, G)
    <3>1. G[o] \in Nat /\ internCap \in Nat \ {0}
      BY <1>6, <1>7, <1>8
    <3> QED BY <1>3, <1>4, <1>8, <1>9, <3>1, Inserted
  <2>4. TableOk(internSlots', internCap', Shorts', Hashes')
    BY <1>5, <1>7, <2>1, <2>3, HashesAgree
  <2>5. Whole'
    BY <1>5, <1>8, <1>10, <1>11, <2>1, <2>2, <2>4 DEF Whole
  <2> QED BY <1>3, <2>1, <2>5
<1> QED BY <1>12, <1>13

\* A long string stays out of the table.
LEMMA LongBorn ==
  ASSUME TypeOk, Whole, UNCHANGED hash, NEW t \in Long, MadeLong(t)
  PROVE  /\ Live' \subseteq Objects /\ text' \in [Live' -> Texts] /\ Whole'
         /\ Cardinality(Live') = Cardinality(Live) + 1 /\ blocks' = blocks + 1
<1>1. PICK o \in Objects : NewObject(t, o)
  BY DEF MadeLong
<1>2. t \in Texts /\ Live # Objects /\ t \notin Short
  BY ContentsAssumption DEF MadeLong, Texts
<1>3. /\ o \notin Live /\ Live' = Live \cup {o} /\ Live' \subseteq Objects
      /\ text' \in [Live' -> Texts] /\ text'[o] = t /\ (\A p \in Live : text'[p] = text[p])
      /\ Cardinality(Live') = Cardinality(Live) + 1 /\ (\A p \in Live : Hashes'[p] = Hashes[p])
  BY <1>1, <1>2, Born
<1>4. Shorts' = Shorts
  BY <1>2, <1>3 DEF Shorts
<1>5. Shorts \subseteq Live
  BY DEF Shorts
<1>6. internSlots' = internSlots /\ internCap' = internCap /\ internLen' = internLen /\ blocks' = blocks + 1
  BY DEF MadeLong, KeepTable
<1>7. TableOk(internSlots', internCap', Shorts', Hashes')
  BY <1>3, <1>4, <1>5, <1>6, HashesAgree DEF Whole
<1>8. \A p, q \in Shorts' : text'[p] = text'[q] => p = q
  BY <1>3, <1>4, <1>5 DEF Whole
<1> QED BY <1>3, <1>4, <1>6, <1>7, <1>8 DEF Whole

----------------------------------------------------------------------------
(* The other steps.                                                          *)

LEMMA WholeKept ==
  ASSUME Whole, UNCHANGED <<internSlots, internCap, internLen, text, hash>>
  PROVE  Whole'
<1>1. Live' = Live /\ Shorts' = Shorts /\ Hashes' = Hashes
  BY DEF Live, Shorts, Hashes, HashOf
<1> QED BY <1>1 DEF Whole

\* A refused object after the table has grown: the same strings in more buckets.
LEMMA GrownOnly ==
  ASSUME TypeOk, Whole, UNCHANGED <<text, hash>>, Table(Rehashed, 2 * internCap, internLen)
  PROVE  Whole'
<1> DEFINE big == 2 * internCap
<1>1. Live' = Live /\ Shorts' = Shorts /\ Hashes' = Hashes
  BY DEF Live, Shorts, Hashes, HashOf
<1>2. /\ IsFiniteSet(Shorts) /\ NULL \notin Shorts /\ Cardinality(Shorts) \in Nat
      /\ internCap \in Nat \ {0, 1} /\ Cardinality(Shorts) < internCap
  BY LiveFacts, Roomy DEF Whole
<1>3. \A o \in Shorts : Hashes[o] = HashOf(o) /\ Hashes[o] \in Nat
  BY LiveFacts
<1>4. /\ internCap \in Nat \ {0} /\ Cardinality(Shorts) < big /\ big \in Nat \ {0, 1}
      /\ internLen * 4 <= big * 3
  BY <1>2 DEF Whole
<1>5. Holding(internSlots, internCap, Shorts)
  BY DEF Whole, TableOk
<1>6. TableOk(Rehashed, big, Shorts, Hashes)
  BY <1>2, <1>3, <1>4, <1>5, Rehashes
<1>7. internSlots' = Rehashed /\ internCap' = big /\ internLen' = internLen
  BY DEF Table
<1> HIDE DEF big
<1> QED BY <1>1, <1>4, <1>6, <1>7 DEF Whole

\* A freed string leaves the table, and a long one leaves it as it is.
LEMMA Freed ==
  ASSUME TypeOk, Whole, UNCHANGED hash, NEW o \in Live, InternRemove(o),
         text' = [p \in Live \ {o} |-> text[p]]
  PROVE  /\ Live' = Live \ {o} /\ text' \in [Live' -> Texts] /\ Whole'
         /\ Cardinality(Live') = Cardinality(Live) - 1
<1> DEFINE idx == Probe(internSlots, internCap, HashOf(o), {o})
<1>1. Live' = Live \ {o}
  BY DEF Live
<1>2. text' \in [Live' -> Texts] /\ \A p \in Live' : text'[p] = text[p]
  BY <1>1 DEF TypeOk
<1>3. /\ IsFiniteSet(Live) /\ IsFiniteSet(Shorts) /\ Cardinality(Shorts) \in Nat /\ Shorts \subseteq Live
      /\ NULL \notin Shorts /\ NULL \notin Live
      /\ \A p \in Live : HashOf(p) \in Nat /\ Hashes[p] = HashOf(p)
  BY LiveFacts
<1>4. Cardinality(Live') = Cardinality(Live) - 1
  BY <1>1, <1>3, FS_RemoveElement
<1>5. Shorts' = Shorts \ {o}
  BY <1>1, <1>2 DEF Shorts
<1>6. \A p \in Live' : Hashes'[p] = Hashes[p]
  BY <1>1, <1>2 DEF Hashes, HashOf
<1>7. /\ internCap \in Nat \ {0, 1} /\ internCap \in Nat \ {0} /\ Cardinality(Shorts) < internCap
      /\ TableOk(internSlots, internCap, Shorts, Hashes) /\ Holding(internSlots, internCap, Shorts)
  BY Roomy DEF Whole, TableOk
<1>8. \A p, q \in Shorts' : text'[p] = text'[q] => p = q
  BY <1>1, <1>2, <1>3, <1>5 DEF Whole
<1>9. HashOf(o) \in Nat /\ Hashes[o] = HashOf(o)
  BY <1>3
<1>10. CASE o \in Shorts
  <2>1. {o} \cap Shorts = {o}
    BY <1>10
  <2>2. internSlots[Probe(internSlots, internCap, Hashes[o], {o})] = o
    BY <1>3, <1>7, <1>9, <1>10, <2>1, Finds
  <2>3. internSlots[idx] = o
    BY <1>9, <2>2
  <2>4. idx \in 0..internCap - 1
    <3>1. \E i \in 0..internCap - 1 : internSlots[i] \in {o} \cup {NULL}
      BY <1>7, <1>10 DEF Holding
    <3> QED BY <1>7, <1>9, <3>1, ProbeStops
  <2>5. o # NULL
    BY <1>3
  <2>6. Table(BackShift(internSlots, idx), internCap, internLen - 1)
    BY <2>3, <2>5 DEF InternRemove
  <2> HIDE DEF idx
  <2>7. TableOk(BackShift(internSlots, idx), internCap, Shorts \ {internSlots[idx]}, Hashes)
    BY <1>3, <1>7, <1>10, <2>3, <2>4, Deleted
  <2>8. TableOk(internSlots', internCap', Shorts', Hashes)
    BY <1>5, <2>3, <2>6, <2>7 DEF Table
  <2>9. TableOk(internSlots', internCap', Shorts', Hashes')
    BY <1>1, <1>3, <1>5, <1>6, <2>8, HashesAgree
  <2>10. Cardinality(Shorts') = Cardinality(Shorts) - 1
    BY <1>3, <1>5, <1>10, FS_RemoveElement
  <2>11. internLen' = internLen - 1 /\ internCap' = internCap
    BY <2>6 DEF Table
  <2>12. internLen' = Cardinality(Shorts') /\ internLen' * 4 <= internCap' * 3
    BY <1>3, <1>7, <2>10, <2>11 DEF Whole
  <2>13. Whole'
    BY <1>7, <1>8, <2>9, <2>11, <2>12 DEF Whole
  <2> QED BY <1>1, <1>2, <1>4, <2>13
<1>11. CASE o \notin Shorts
  <2>1. {o} \cap Shorts = {}
    BY <1>11
  <2>2. internSlots[idx] = NULL
    BY <1>3, <1>7, <1>9, <2>1, FindsNone
  <2>3. internSlots' = internSlots /\ internCap' = internCap /\ internLen' = internLen
    BY <2>2 DEF InternRemove, KeepTable
  <2>4. Shorts' = Shorts
    BY <1>5, <1>11
  <2>5. TableOk(internSlots', internCap', Shorts', Hashes')
    BY <1>1, <1>3, <1>5, <1>6, <1>7, <2>3, <2>4, HashesAgree
  <2>6. Whole'
    BY <1>8, <2>3, <2>4, <2>5 DEF Whole
  <2> QED BY <1>1, <1>2, <1>4, <2>6
<1> QED BY <1>10, <1>11

\* A new heap has an empty table.
LEMMA Opened ==
  ASSUME TypeOk, Live = {}, UNCHANGED <<text, hash>>, Table(Empty(InitialCap), InitialCap, 0)
  PROVE  Whole'
<1>1. Live' = {} /\ Shorts' = {}
  BY DEF Live, Shorts
<1>2. internSlots' = Empty(InitialCap) /\ internCap' = InitialCap /\ internLen' = 0 /\ InitialCap \in Nat \ {0, 1}
  BY CapAssumption DEF Table
<1>3. Cardinality({}) = 0
  BY FS_EmptySet
<1>4. /\ Empty(InitialCap) \in [0..InitialCap - 1 -> {} \cup {NULL}]
      /\ \A i \in 0..InitialCap - 1 : Empty(InitialCap)[i] = NULL
  BY DEF Empty
<1>5. TableOk(Empty(InitialCap), InitialCap, {}, Hashes')
  BY <1>4 DEF TableOk, Holding, Unbroken
<1>6. TableOk(internSlots', internCap', Shorts', Hashes')
  BY <1>1, <1>2, <1>5
<1>7. \A o, p \in Shorts' : text'[o] = text'[p] => o = p
  BY <1>1
<1>8. internLen' = Cardinality(Shorts') /\ internLen' * 4 <= internCap' * 3 /\ internCap' \in Nat \ {0, 1}
  BY <1>1, <1>2, <1>3
<1> QED BY <1>6, <1>7, <1>8 DEF Whole

----------------------------------------------------------------------------
(* Every step keeps the invariant.                                           *)

LEMMA InvStart == Init => IInv
<1> SUFFICES ASSUME Init PROVE IInv
  OBVIOUS
<1>1. phase = "down" /\ named = 0 /\ text = <<>> /\ blocks = 0
  BY DEF Init
<1>2. Live = {}
  BY <1>1 DEF Live
<1>3. hash \in [Texts -> Nat]
  BY ContentsAssumption DEF Init
<1>4. text \in [Live -> Texts]
  BY <1>1, <1>2
<1>5. Balanced
  BY <1>1, <1>2, FS_EmptySet DEF Balanced
<1> QED BY <1>1, <1>2, <1>3, <1>4, <1>5 DEF IInv, TypeOk

\* Tearing a heap down leaves no string and no block.
LEMMA Closed ==
  ASSUME IInv, phase # "down", HeapDestroy
  PROVE  IInv'
<1>1. phase' = "down" /\ named' = 0 /\ text' = <<>> /\ hash' = hash /\ blocks' = blocks - Cardinality(Live) - 1
  BY DEF HeapDestroy
<1>2. Live' = {}
  BY <1>1 DEF Live
<1>3. text' \in [Live' -> Texts]
  BY <1>1, <1>2
<1>4. Cardinality(Live) \in Nat /\ blocks = Cardinality(Live) + 1
  BY LiveFacts DEF IInv, Balanced
<1>5. blocks' = 0
  BY <1>1, <1>4
<1>6. Balanced'
  BY <1>1, <1>2, <1>5, FS_EmptySet DEF Balanced
<1> QED BY <1>1, <1>2, <1>3, <1>6 DEF IInv, TypeOk

\* A call that makes a string.
LEMMA Made ==
  ASSUME IInv, phase # "down", phase' # "down", phase' \in {"down", "naming", "up"}, named' \in Nat,
         UNCHANGED hash, NEW t \in Texts, MadeShort(t) \/ MadeLong(t)
  PROVE  IInv'
<1>1. /\ TypeOk /\ Whole /\ Cardinality(Live) \in Nat /\ blocks = Cardinality(Live) + 1 /\ blocks \in Int
  BY LiveFacts DEF IInv, Balanced
<1>2. /\ Live' \subseteq Objects /\ text' \in [Live' -> Texts] /\ Whole'
      /\ Cardinality(Live') = Cardinality(Live) + 1 /\ blocks' = blocks + 1
  <2>1. CASE MadeShort(t)
    BY <1>1, <2>1, ShortBorn DEF MadeShort
  <2>2. CASE MadeLong(t)
    BY <1>1, <2>2, LongBorn DEF MadeLong
  <2> QED BY <2>1, <2>2
<1>3. Balanced'
  BY <1>1, <1>2 DEF Balanced
<1>4. TypeOk'
  BY <1>1, <1>2 DEF TypeOk
<1> QED BY <1>2, <1>3, <1>4 DEF IInv

\* A call that leaves the objects as they are.
LEMMA Kept ==
  ASSUME IInv, phase # "down", phase' # "down", phase' \in {"down", "naming", "up"}, named' \in Nat,
         UNCHANGED <<text, blocks, hash>>,
         \/ UNCHANGED <<internSlots, internCap, internLen>>
         \/ Table(Rehashed, 2 * internCap, internLen)
  PROVE  IInv'
<1>1. TypeOk /\ Whole
  BY DEF IInv
<1>2. Whole'
  BY <1>1, WholeKept, GrownOnly
<1>3. Live' = Live
  BY DEF Live
<1>4. TypeOk' /\ Balanced'
  BY <1>1, <1>3 DEF TypeOk, Balanced, IInv
<1> QED BY <1>2, <1>4 DEF IInv

LEMMA InvStep == IInv /\ [Next]_vars => IInv'
<1> SUFFICES ASSUME IInv, [Next]_vars PROVE IInv'
  OBVIOUS
<1>0. phase \in {"down", "naming", "up"} /\ named \in Nat /\ TypeNames \in Seq(Short)
  BY ContentsAssumption DEF IInv, TypeOk
<1>1. CASE HeapInit
  <2>1. /\ phase = "down" /\ phase' = "naming" /\ Live = {} /\ TypeOk /\ blocks' = blocks + 1
        /\ Table(Empty(InitialCap), InitialCap, 0) /\ UNCHANGED <<named, text, hash>>
    BY <1>1 DEF HeapInit, IInv
  <2>2. Whole'
    BY <2>1, Opened
  <2>3. Live' = Live /\ blocks = Cardinality(Live)  /\ Cardinality(Live) \in Nat
    BY <2>1, LiveFacts DEF Live, IInv, Balanced
  <2>4. Balanced' /\ TypeOk'
    BY <2>1, <2>3 DEF Balanced, TypeOk
  <2> QED BY <2>1, <2>2, <2>4 DEF IInv
<1>2. CASE NameType
  <2>1. phase = "naming" /\ named < Len(TypeNames)
    BY <1>2 DEF NameType
  <2>2. TypeNames[named + 1] \in Short /\ TypeNames[named + 1] \in Texts /\ named + 1 \in Nat
    BY <1>0, <2>1 DEF Texts
  <2>3. CASE HeapDestroy
    BY <2>1, <2>3, Closed
  <2>4. CASE Hit(TypeNames[named + 1]) /\ named' = named + 1 /\ UNCHANGED <<phase, hash>>
    BY <1>0, <2>1, <2>2, <2>4, Kept DEF Hit, KeepTable
  <2>5. CASE MadeShort(TypeNames[named + 1]) /\ named' = named + 1 /\ UNCHANGED <<phase, hash>>
    BY <1>0, <2>1, <2>2, <2>5, Made
  <2> QED BY <1>2, <2>3, <2>4, <2>5 DEF NameType
<1>3. CASE HeapReady
  BY <1>0, <1>3, Kept DEF HeapReady
<1>4. CASE Close
  BY <1>4, Closed DEF Close
<1>5. ASSUME NEW t \in Texts, StringNew(t) PROVE IInv'
  <2>1. phase = "up" /\ UNCHANGED <<phase, named, hash>>
    BY <1>5 DEF StringNew
  <2>2. CASE Hit(t) \/ Refused(t)
    BY <1>0, <2>1, <2>2, Kept DEF Hit, Refused, KeepTable
  <2>3. CASE MadeShort(t) \/ MadeLong(t)
    BY <1>0, <2>1, <2>3, Made
  <2> QED BY <1>5, <2>2, <2>3 DEF StringNew
<1>6. ASSUME NEW o \in Live, ObjectFree(o) PROVE IInv'
  <2>1. /\ phase = "up" /\ InternRemove(o) /\ text' = [p \in Live \ {o} |-> text[p]]
        /\ blocks' = blocks - 1 /\ UNCHANGED <<phase, named, hash>>
    BY <1>6 DEF ObjectFree
  <2>2. /\ TypeOk /\ Whole /\ Cardinality(Live) \in Nat /\ blocks = Cardinality(Live) + 1
    BY <2>1, LiveFacts DEF IInv, Balanced
  <2>3. /\ Live' = Live \ {o} /\ text' \in [Live' -> Texts] /\ Whole'
        /\ Cardinality(Live') = Cardinality(Live) - 1
    BY <2>1, <2>2, Freed
  <2>4. Balanced' /\ TypeOk'
    BY <2>1, <2>2, <2>3 DEF Balanced, TypeOk
  <2> QED BY <2>1, <2>3, <2>4 DEF IInv
<1>7. CASE UNCHANGED vars
  <2>1. UNCHANGED <<phase, named, internSlots, internCap, internLen, text, blocks, hash>>
    BY <1>7 DEF vars
  <2>2. CASE phase = "down"
    <3>1. Live' = Live /\ Live = {}
      BY <2>1, <2>2 DEF Live, IInv
    <3> QED BY <2>1, <2>2, <3>1 DEF IInv, TypeOk, Balanced
  <2>3. CASE phase # "down"
    BY <1>0, <2>1, <2>3, Kept
  <2> QED BY <2>2, <2>3
<1> QED BY <1>1, <1>2, <1>3, <1>4, <1>5, <1>6, <1>7 DEF Next

LEMMA InvAlways == Spec => []IInv
<1> QED BY InvStart, InvStep, PTL DEF Spec

----------------------------------------------------------------------------
(* The theorems.                                                             *)

\* Of every table that holds the live short strings, each can be found.
LEMMA InvFinds == IInv => Findable
<1> SUFFICES ASSUME IInv, phase # "down" PROVE Findable
  BY DEF Findable
<1>1. TypeOk /\ Whole
  BY DEF IInv
<1>2. /\ Holding(internSlots, internCap, Shorts) /\ internCap \in Nat \ {0}
      /\ IsFiniteSet(Shorts) /\ NULL \notin Shorts
  BY <1>1, LiveFacts DEF Whole, TableOk
<1>3. DOMAIN internSlots = 0..internCap - 1
  BY <1>2 DEF Holding
<1>4. Cardinality({i \in 0..internCap - 1 : internSlots[i] # NULL}) = Cardinality(Shorts)
  BY <1>2, CountFilled
<1>5. Cardinality(Occupied) = Cardinality(Shorts)
  BY <1>3, <1>4 DEF Occupied
<1>6. {internSlots[i] : i \in Occupied} = Shorts
  BY <1>2, <1>3 DEF Occupied, Holding
<1>7. \A o \in Live : text[o] \in Short => InternFind(text[o]) = o
  BY <1>1, Lookup
<1>8. internLen = Cardinality(Occupied) /\ internLen * 4 <= internCap * 3
  BY <1>1, <1>5 DEF Whole
<1> QED BY <1>6, <1>7, <1>8 DEF Findable, Shorts

\* Whatever the contents and their hashes, and however strings are made and
\* freed, refused and rehashed: the table holds exactly the live short strings,
\* finds each from its own hash, and is never more than three quarters full
\* (msStringNew, msStringInternGrow and msStringInternRemove).
THEOREM TableFindable == Spec => []Findable
<1> QED BY InvAlways, InvFinds, PTL

\* One block for each live string and one for the table; none after
\* msHeapDestroy, and none after a msHeapInit that failed half-way.
THEOREM BlocksBalanced == Spec => []Balanced
<1>1. IInv => Balanced
  BY DEF IInv
<1> QED BY <1>1, InvAlways, PTL

\* A string is handed out when there is one of that content, ...
LEMMA PoolHit ==
  ASSUME TypeOk, Whole, NEW t \in Short, Hit(t)
  PROVE  Pool!Shared(t)
<1>1. answer' \in Live /\ text[answer'] = t /\ UNCHANGED text
  BY Lookup DEF Hit
<1> QED BY <1>1 DEF Pool!Shared, Pool!Sharable, Pool!Holders, Pool!Live, Live

\* ... and made or refused only when there is none.
LEMMA PoolMiss ==
  ASSUME TypeOk, Whole, NEW t \in Texts, Misses(t)
  PROVE  ~Pool!Sharable(t)
<1>1. CASE t \in Long
  BY <1>1, ContentsAssumption DEF Pool!Sharable
<1>2. CASE t \in Short /\ t \notin Long
  <2>1. \A o \in Live : text[o] # t
    BY <1>2, Lookup, LiveFacts DEF Misses
  <2> QED BY <2>1 DEF Pool!Sharable, Pool!Holders, Pool!Live, Live
<1> QED BY <1>1, <1>2 DEF Texts

LEMMA PoolMade ==
  ASSUME TypeOk, Whole, UNCHANGED hash, NEW t \in Texts, MadeShort(t) \/ MadeLong(t)
  PROVE  Pool!Fresh(t)
<1>1. Misses(t)
  BY DEF MadeShort, MadeLong, Misses
<1>2. ~Pool!Sharable(t)
  BY <1>1, PoolMiss
<1>3. Live # Objects
  BY DEF MadeShort, MadeLong
<1>4. PICK o \in Objects : NewObject(t, o)
  BY DEF MadeShort, MadeLong
<1>5. o \notin Live
  BY <1>3, <1>4, Born
<1> QED BY <1>2, <1>4, <1>5 DEF NewObject, Pool!Fresh, Pool!Live, Live

LEMMA PoolStep ==
  IInv /\ [Next]_vars => [Pool!Next]_<<text, asked, answer>>
<1> SUFFICES ASSUME IInv, [Next]_vars PROVE Pool!Next \/ UNCHANGED <<text, asked, answer>>
  OBVIOUS
<1>1. CASE HeapInit
  BY <1>1 DEF HeapInit
<1>2. CASE HeapDestroy
  BY <1>2 DEF HeapDestroy, Pool!Next, Pool!Destroy
<1>3. CASE NameType /\ ~HeapDestroy
  <2> DEFINE t == TypeNames[named + 1]
  <2>1. phase = "naming" /\ named < Len(TypeNames) /\ asked' = t /\ UNCHANGED hash /\ (Hit(t) \/ MadeShort(t))
    BY <1>3 DEF NameType
  <2>2. TypeOk /\ Whole /\ named \in Nat
    BY <2>1 DEF IInv, TypeOk
  <2>3. t \in Short /\ t \in Texts
    BY <2>1, <2>2, ContentsAssumption DEF Texts
  <2> HIDE DEF t
  <2>4. Pool!Shared(t) \/ Pool!Fresh(t)
    BY <2>1, <2>2, <2>3, PoolHit, PoolMade
  <2>5. t \in Pool!Texts
    BY <2>3 DEF Pool!Texts
  <2> QED BY <2>1, <2>4, <2>5 DEF Pool!Next
<1>4. CASE HeapReady
  BY <1>4 DEF HeapReady
<1>5. CASE Close
  BY <1>2, <1>5 DEF Close
<1>6. ASSUME NEW t \in Texts, StringNew(t) PROVE Pool!Next
  <2>1. TypeOk /\ Whole /\ asked' = t /\ UNCHANGED hash
    BY <1>6 DEF StringNew, IInv
  <2>2. Pool!Shared(t) \/ Pool!Fresh(t) \/ Pool!Refused(t)
    <3>1. CASE Hit(t)
      BY <2>1, <3>1, PoolHit DEF Hit
    <3>2. CASE MadeShort(t) \/ MadeLong(t)
      BY <2>1, <3>2, PoolMade
    <3>3. CASE Refused(t)
      BY <2>1, <3>3, PoolMiss DEF Refused, Pool!Refused
    <3> QED BY <1>6, <3>1, <3>2, <3>3 DEF StringNew
  <2>3. t \in Pool!Texts
    BY DEF Texts, Pool!Texts
  <2> QED BY <2>1, <2>2, <2>3 DEF Pool!Next
<1>7. ASSUME NEW o \in Live, ObjectFree(o) PROVE Pool!Next
  BY <1>7 DEF ObjectFree, Pool!Next, Pool!Free, Pool!Live, Live
<1>8. CASE UNCHANGED vars
  BY <1>8 DEF vars
<1> QED BY <1>1, <1>2, <1>3, <1>4, <1>5, <1>6, <1>7, <1>8 DEF Next

\* The table is the pool of ms_string.h: equal short contents are one object,
\* longer ones are always fresh, and an allocation is refused only when there
\* is nothing to share.
THEOREM TableIsPool == Spec => IsPool
<1>1. Init => Pool!Init
  BY DEF Init, Pool!Init
<1> QED BY <1>1, InvAlways, PoolStep, PTL DEF Spec, IsPool, Pool!Spec
=============================================================================
