------------------------- MODULE MsOperationsProofs -------------------------
(* Proofs about the operations on values, for words and floats of any width,  *)
(* lists of any length, any keys, and any refusals.                           *)
EXTENDS MsOperations, MsInduction, SequenceTheorems

----------------------------------------------------------------------------
(* Powers.                                                                   *)

\* The values of a loop that multiplies by b.
Powers(p, b, m) == p \in [0..m -> Int] /\ p[0] = 1 /\ \A k \in 1..m : p[k] = b * p[k - 1]

LEMMA PowersExist ==
  ASSUME NEW b \in Int, NEW m \in Nat
  PROVE  \E p : Powers(p, b, m)
<1> DEFINE step == [k \in 1..m |-> [x \in Int |-> b * x]]
<1>1. step \in [1..m -> [Int -> Int]] /\ 1 \in Int
  OBVIOUS
<1>2. PICK p : Rounds(p, m, 1, step, Int)
  BY <1>1, RoundsExist
<1>3. p \in [0..m -> Int] /\ p[0] = 1 /\ \A k \in 1..m : p[k] = step[k][p[k - 1]]
  BY <1>2 DEF Rounds
<1>4. ASSUME NEW k \in 1..m PROVE p[k] = b * p[k - 1]
  <2>1. k - 1 \in 0..m
    OBVIOUS
  <2>2. p[k - 1] \in Int
    BY <1>3, <2>1
  <2> QED BY <1>3, <2>2
<1> QED BY <1>3, <1>4 DEF Powers

LEMMA PowersAgree ==
  ASSUME NEW b \in Int, NEW m \in Nat, NEW n \in 0..m, NEW p, Powers(p, b, m)
  PROVE  PowerOf(b, n) = p[n]
<1> DEFINE Body(g) == [k \in 0..n |-> IF k = 0 THEN 1 ELSE b * g[k - 1]]
           g == CHOOSE f : f = Body(f)
           q == [k \in 0..n |-> p[k]]
           T == {k \in 0..n : g[k] = p[k]}
<1>1. p[0] = 1 /\ \A k \in 1..n : p[k] = b * p[k - 1]
  BY DEF Powers
<1>2. q = Body(q)
  BY <1>1
<1>3. PowerOf(b, n) = g[n]
  BY DEF PowerOf
<1> HIDE DEF Body
<1>4. g = Body(g)
  BY <1>2
<1> HIDE DEF g
<1>5. g[0] = 1 /\ \A k \in 1..n : g[k] = b * g[k - 1]
  BY <1>4 DEF Body
<1>6. 0 \in T
  BY <1>1, <1>5
<1>7. ASSUME NEW k \in 0..n - 1, k \in T PROVE k + 1 \in T
  <2>1. k + 1 \in 1..n /\ k + 1 - 1 = k
    OBVIOUS
  <2> QED BY <1>1, <1>5, <1>7, <2>1
<1> HIDE DEF T
<1>8. \A k \in 0..n : k \in T
  BY <1>6, <1>7, UptoInduces
<1>9. g[n] = p[n]
  BY <1>8 DEF T
<1> QED BY <1>3, <1>9

LEMMA PowerZero ==
  ASSUME NEW b \in Int
  PROVE  PowerOf(b, 0) = 1
<1>1. PICK p : Powers(p, b, 0)
  BY PowersExist
<1>2. PowerOf(b, 0) = p[0]
  BY <1>1, PowersAgree
<1> QED BY <1>1, <1>2 DEF Powers

LEMMA PowerNext ==
  ASSUME NEW b \in Int, NEW n \in Nat
  PROVE  /\ PowerOf(b, n) \in Int
         /\ PowerOf(b, n + 1) = b * PowerOf(b, n)
<1>0. n + 1 \in Nat /\ n \in 0..(n + 1) /\ n + 1 \in 0..(n + 1) /\ n + 1 \in 1..(n + 1) /\ n + 1 - 1 = n
  OBVIOUS
<1>1. PICK p : Powers(p, b, n + 1)
  BY <1>0, PowersExist
<1>2. PowerOf(b, n) = p[n] /\ PowerOf(b, n + 1) = p[n + 1]
  BY <1>0, <1>1, PowersAgree
<1>3. p[n] \in Int /\ p[n + 1] = b * p[n]
  BY <1>0, <1>1 DEF Powers
<1> QED BY <1>2, <1>3

LEMMA PowerSum ==
  ASSUME NEW b \in Int, NEW n \in Nat, NEW m \in Nat
  PROVE  PowerOf(b, n + m) = PowerOf(b, n) * PowerOf(b, m)
<1> DEFINE T == {k \in Nat : PowerOf(b, n + k) = PowerOf(b, n) * PowerOf(b, k)}
<1>1. 0 \in T
  BY PowerZero, PowerNext
<1>2. ASSUME NEW k \in Nat, k \in T PROVE k + 1 \in T
  <2>1. n + (k + 1) = (n + k) + 1 /\ n + k \in Nat
    OBVIOUS
  <2>2. PowerOf(b, n + (k + 1)) = b * PowerOf(b, n + k) /\ PowerOf(b, k + 1) = b * PowerOf(b, k)
    BY <2>1, PowerNext
  <2>3. PowerOf(b, n + k) = PowerOf(b, n) * PowerOf(b, k)
    BY <1>2
  <2> DEFINE x == PowerOf(b, n)
             y == PowerOf(b, k)
  <2>4. x \in Int /\ y \in Int
    BY PowerNext
  <2> HIDE DEF x, y
  <2>5. b * (x * y) = x * (b * y)
    BY <2>4
  <2> QED BY <2>2, <2>3, <2>5 DEF x, y
<1> HIDE DEF T
<1>3. \A k \in Nat : k \in T
  BY <1>1, <1>2, NatInduces
<1> QED BY <1>3 DEF T

LEMMA TwoZero == TwoTo(0) = 1
BY PowerZero DEF TwoTo

LEMMA TwoType ==
  ASSUME NEW n \in Nat
  PROVE  TwoTo(n) \in Nat \ {0}
<1> DEFINE T == {k \in Nat : TwoTo(k) \in Nat \ {0}}
<1>1. 0 \in T
  BY TwoZero
<1>2. ASSUME NEW k \in Nat, k \in T PROVE k + 1 \in T
  <2>1. TwoTo(k + 1) = 2 * TwoTo(k)
    BY PowerNext DEF TwoTo
  <2> QED BY <1>2, <2>1
<1> HIDE DEF T
<1>3. \A k \in Nat : k \in T
  BY <1>1, <1>2, NatInduces
<1> QED BY <1>3 DEF T

LEMMA TwoNext ==
  ASSUME NEW n \in Nat
  PROVE  TwoTo(n + 1) = 2 * TwoTo(n)
BY PowerNext DEF TwoTo

LEMMA TwoSum ==
  ASSUME NEW n \in Nat, NEW m \in Nat
  PROVE  TwoTo(n + m) = TwoTo(n) * TwoTo(m)
BY PowerSum DEF TwoTo

\* Products.
LEMMA TimesMonotone ==
  ASSUME NEW x \in Int, NEW y \in Int, NEW z \in Nat, x <= y
  PROVE  x * z <= y * z
OBVIOUS

LEMMA TimesStrict ==
  ASSUME NEW x \in Int, NEW y \in Int, NEW z \in Nat \ {0}, x < y
  PROVE  x * z < y * z
OBVIOUS

LEMMA TimesCancel ==
  ASSUME NEW x \in Int, NEW y \in Int, NEW z \in Nat \ {0}, x * z <= y * z
  PROVE  x <= y
<1> SUFFICES ASSUME y < x PROVE FALSE
  OBVIOUS
<1>1. y * z < x * z
  BY TimesStrict
<1>2. x * z \in Int /\ y * z \in Int
  OBVIOUS
<1> QED BY <1>1, <1>2

LEMMA TimesType ==
  ASSUME NEW x \in Int, NEW y \in Int
  PROVE  x * y \in Int /\ x * y = y * x /\ (-x) * y = -(x * y) /\ x * (-y) = -(x * y)
OBVIOUS

LEMMA TimesNat ==
  ASSUME NEW x \in Nat, NEW y \in Nat
  PROVE  x * y \in Nat
OBVIOUS

LEMMA TimesAssociative ==
  ASSUME NEW x \in Int, NEW y \in Int, NEW z \in Int
  PROVE  (x * y) * z = x * (y * z) /\ x * (y + z) = x * y + x * z /\ x * (y - z) = x * y - x * z
OBVIOUS

LEMMA TwoMonotone ==
  ASSUME NEW n \in Nat, NEW m \in Nat, n <= m
  PROVE  TwoTo(n) <= TwoTo(m)
<1>1. m - n \in Nat /\ m = n + (m - n)
  OBVIOUS
<1>2. TwoTo(m) = TwoTo(n) * TwoTo(m - n)
  BY <1>1, TwoSum
<1>3. TwoTo(m - n) \in Nat \ {0} /\ TwoTo(n) \in Nat \ {0}
  BY <1>1, TwoType
<1> DEFINE x == TwoTo(n)
           y == TwoTo(m - n)
<1> HIDE DEF x, y
<1>4. x \in Nat /\ y \in Int /\ 1 <= y
  BY <1>3 DEF x, y
<1>5. 1 * x <= y * x
  BY <1>4, TimesMonotone
<1>6. x <= x * y
  BY <1>4, <1>5
<1> QED BY <1>2, <1>6 DEF x, y

LEMMA TwoStrict ==
  ASSUME NEW n \in Nat, NEW m \in Nat, n < m
  PROVE  2 * TwoTo(n) <= TwoTo(m)
<1>1. n + 1 <= m /\ n + 1 \in Nat
  OBVIOUS
<1> QED BY <1>1, TwoMonotone, TwoNext

\* Quotients.
LEMMA QuotientUnique ==
  ASSUME NEW n \in Nat \ {0}, NEW k \in Int, NEW r \in 0..n - 1
  PROVE  (n * k + r) \div n = k
OBVIOUS

LEMMA QuotientFacts ==
  ASSUME NEW n \in Nat \ {0}, NEW x \in Int
  PROVE  x \div n \in Int /\ n * (x \div n) <= x /\ x < n * (x \div n) + n
OBVIOUS

LEMMA QuotientNat ==
  ASSUME NEW n \in Nat \ {0}, NEW x \in Nat
  PROVE  x \div n \in Nat
OBVIOUS

\* The quotient is the one number that lies there.
LEMMA QuotientIs ==
  ASSUME NEW n \in Nat \ {0}, NEW x \in Int, NEW k \in Int, n * k <= x, x < n * k + n
  PROVE  x \div n = k
<1> DEFINE r == x - n * k
<1>1. n * k \in Int
  OBVIOUS
<1>2. r \in 0..n - 1 /\ x = n * k + r
  BY <1>1
<1> HIDE DEF r
<1> QED BY <1>2, QuotientUnique

----------------------------------------------------------------------------
(* Words.                                                                    *)

LEMMA HalfType == Half \in Nat /\ Half >= 2
<1>1. WordBits - 1 \in Nat /\ 1 <= WordBits - 1
  BY NumberAssumption
<1>2. TwoTo(1) = 2
  BY TwoZero, TwoNext
<1> QED BY <1>1, <1>2, TwoMonotone, TwoType DEF Half

LEMMA WordsAre ==
  /\ Words \subseteq Int /\ MinWord \in Words /\ MaxWord \in Words
  /\ \A x \in Int : x \in Words <=> -Half <= x /\ x < Half
BY HalfType DEF Words, MinWord, MaxWord

LEMMA WrapKeeps ==
  ASSUME NEW x \in Words
  PROVE  Wrap(x) = x
<1> DEFINE n == 2 * Half
<1>1. n \in Nat \ {0} /\ x + Half \in 0..n - 1 /\ x \in Int
  BY HalfType, WordsAre
<1> HIDE DEF n
<1>2. (n * 0 + (x + Half)) % n = x + Half
  BY <1>1, RemainderUnique
<1>3. n * 0 + (x + Half) = x + Half
  BY <1>1, HalfType
<1>4. (x + Half) % n = x + Half
  BY <1>2, <1>3
<1>5. Wrap(x) = ((x + Half) % n) - Half
  BY DEF Wrap, n
<1> QED BY <1>1, <1>4, <1>5, HalfType

LEMMA UnsignedKeeps ==
  ASSUME NEW x \in 0..(2 * Half) - 1
  PROVE  Unsigned(x) = x
<1> DEFINE n == 2 * Half
<1>1. n \in Nat \ {0} /\ x \in 0..n - 1 /\ n * 0 + x = x
  BY HalfType
<1> HIDE DEF n
<1>2. x % n = x
  BY <1>1, RemainderUnique
<1> QED BY <1>2 DEF Unsigned, n

LEMMA AddExact ==
  ASSUME NEW l \in Words, NEW r \in Words
  PROVE  AddOverflows(l, r) <=> l + r \notin Words
<1>1. l \in Int /\ r \in Int /\ -Half <= l /\ l < Half /\ -Half <= r /\ r < Half
  BY WordsAre
<1>2. r > 0 => Wrap(MaxWord - r) = MaxWord - r
  BY <1>1, WordsAre, WrapKeeps, HalfType DEF MaxWord
<1>3. r < 0 => Wrap(MinWord - r) = MinWord - r
  BY <1>1, WordsAre, WrapKeeps, HalfType DEF MinWord
<1>4. l + r \in Words <=> -Half <= l + r /\ l + r < Half
  BY <1>1, WordsAre
<1> QED BY <1>1, <1>2, <1>3, <1>4, HalfType DEF AddOverflows, MaxWord, MinWord

LEMMA SubExact ==
  ASSUME NEW l \in Words, NEW r \in Words
  PROVE  SubOverflows(l, r) <=> l - r \notin Words
<1>1. l \in Int /\ r \in Int /\ -Half <= l /\ l < Half /\ -Half <= r /\ r < Half
  BY WordsAre
<1>2. r > 0 => Wrap(MinWord + r) = MinWord + r
  BY <1>1, WordsAre, WrapKeeps, HalfType DEF MinWord
<1>3. r < 0 => Wrap(MaxWord + r) = MaxWord + r
  BY <1>1, WordsAre, WrapKeeps, HalfType DEF MaxWord
<1>4. l - r \in Words <=> -Half <= l - r /\ l - r < Half
  BY <1>1, WordsAre
<1> QED BY <1>1, <1>2, <1>3, <1>4, HalfType DEF SubOverflows, MaxWord, MinWord

LEMMA QuotientOver ==
  ASSUME NEW n \in Nat \ {0}, NEW x \in Int, NEW k \in Int
  PROVE  k > x \div n <=> k * n > x
<1> DEFINE q == x \div n
<1>1. q \in Int /\ n * q <= x /\ x < n * q + n
  BY QuotientFacts
<1> HIDE DEF q
<1>2. n \in Int /\ k * n \in Int /\ q * n \in Int /\ q * n = n * q /\ (q + 1) * n = q * n + n /\ q + 1 \in Int
  BY <1>1
<1>3. CASE k > q
  <2>1. (q + 1) * n <= k * n
    BY <1>1, <1>2, <1>3, TimesMonotone
  <2> QED BY <1>1, <1>2, <1>3, <2>1 DEF q
<1>4. CASE ~(k > q)
  <2>1. k * n <= q * n
    BY <1>1, <1>2, <1>4, TimesMonotone
  <2> QED BY <1>1, <1>2, <1>4, <2>1 DEF q
<1> QED BY <1>3, <1>4

LEMMA CDivUp ==
  ASSUME NEW a \in Int, NEW b \in Int, a >= 0, b > 0
  PROVE  CDiv(a, b) = a \div b
BY DEF CDiv, Magnitude

LEMMA CDivDown ==
  ASSUME NEW a \in Int, NEW b \in Int, a < 0, b > 0
  PROVE  CDiv(a, b) = -((-a) \div b)
BY DEF CDiv, Magnitude

LEMMA CDivUpBy ==
  ASSUME NEW a \in Int, NEW b \in Int, a >= 0, b < 0
  PROVE  CDiv(a, b) = -(a \div (-b))
BY DEF CDiv, Magnitude

LEMMA CDivDownBy ==
  ASSUME NEW a \in Int, NEW b \in Int, a < 0, b < 0
  PROVE  CDiv(a, b) = (-a) \div (-b)
BY DEF CDiv, Magnitude

\* Each of the four checks of the multiplication asks whether the product is too large.
LEMMA MulChecks ==
  ASSUME NEW l \in Words, NEW r \in Words
  PROVE  /\ l > 0 /\ r > 0 => (l > CDiv(MaxWord, r) <=> l * r \notin Words)
         /\ l > 0 /\ r < 0 => (r < CDiv(MinWord, l) <=> l * r \notin Words)
         /\ l < 0 /\ r > 0 => (l < CDiv(MinWord, r) <=> l * r \notin Words)
         /\ l < 0 /\ r < 0 => (l < CDiv(MaxWord, r) <=> l * r \notin Words)
         /\ l < 0 /\ r < 0 => (r < CDiv(MaxWord, l) <=> l * r \notin Words)
<1> DEFINE p == l * r
<1>0. l \in Int /\ r \in Int /\ p \in Int
  BY WordsAre
<1>1. p \in Words <=> -Half <= p /\ p < Half
  BY <1>0, WordsAre
<1>2. MaxWord \in Int /\ MinWord \in Int /\ MaxWord >= 0 /\ MinWord < 0 /\ Half \in Int
      /\ -MinWord = Half /\ MaxWord = Half - 1
  BY HalfType DEF MaxWord, MinWord
<1>3. (-l) * (-r) = p /\ (-r) * l = -p /\ (-l) * r = -p /\ (-r) * (-l) = p
  BY <1>0
<1> HIDE DEF p
<1>4. CASE l > 0 /\ r > 0
  <2>1. r \in Nat \ {0} /\ (l > MaxWord \div r <=> l * r > MaxWord)
    BY <1>0, <1>2, <1>4, QuotientOver
  <2>2. p > 0
    BY <1>0, <1>4, TimesStrict DEF p
  <2>3. CDiv(MaxWord, r) = MaxWord \div r
    BY <1>0, <1>2, <1>4, CDivUp
  <2>4. l * r > MaxWord <=> p > MaxWord
    BY DEF p
  <2> QED BY <1>0, <1>1, <1>2, <1>4, <2>1, <2>2, <2>3, <2>4 DEF p
<1>5. CASE l > 0 /\ r < 0
  <2>1. l \in Nat \ {0} /\ (-r > Half \div l <=> (-r) * l > Half)
    BY <1>0, <1>2, <1>5, QuotientOver
  <2>2. -p > 0
    BY <1>0, <1>5, TimesStrict, <1>3
  <2>3. CDiv(MinWord, l) = -(Half \div l)
    BY <1>0, <1>2, <1>5, CDivDown
  <2>4. Half \div l \in Int
    BY <1>2, <2>1, QuotientFacts
  <2> QED BY <1>0, <1>1, <1>2, <1>3, <1>5, <2>1, <2>2, <2>3, <2>4 DEF p
<1>6. CASE l < 0 /\ r > 0
  <2>1. r \in Nat \ {0} /\ (-l > Half \div r <=> (-l) * r > Half)
    BY <1>0, <1>2, <1>6, QuotientOver
  <2>2. -p > 0
    BY <1>0, <1>6, TimesStrict, <1>3
  <2>3. CDiv(MinWord, r) = -(Half \div r)
    BY <1>0, <1>2, <1>6, CDivDown
  <2>4. Half \div r \in Int
    BY <1>2, <2>1, QuotientFacts
  <2> QED BY <1>0, <1>1, <1>2, <1>3, <1>6, <2>1, <2>2, <2>3, <2>4 DEF p
<1>7. CASE l < 0 /\ r < 0
  <2>0. -l \in Nat \ {0} /\ -r \in Nat \ {0}
    BY <1>0, <1>7
  <2>1. /\ -l > MaxWord \div (-r) <=> (-l) * (-r) > MaxWord
        /\ -r > MaxWord \div (-l) <=> (-r) * (-l) > MaxWord
    BY <1>0, <1>2, <2>0, QuotientOver
  <2>2. p > 0
    BY <1>0, <2>0, TimesStrict, <1>3
  <2>3. CDiv(MaxWord, r) = -(MaxWord \div (-r)) /\ CDiv(MaxWord, l) = -(MaxWord \div (-l))
    BY <1>0, <1>2, <1>7, CDivUpBy
  <2>4. MaxWord \div (-r) \in Int /\ MaxWord \div (-l) \in Int
    BY <1>2, <2>0, QuotientFacts
  <2> QED BY <1>0, <1>1, <1>2, <1>3, <1>7, <2>1, <2>2, <2>3, <2>4 DEF p
<1>8. (l > 0 \/ l < 0 \/ l = 0) /\ (r > 0 \/ r < 0 \/ r = 0)
  BY <1>0
<1> QED BY <1>0, <1>4, <1>5, <1>6, <1>7, <1>8

LEMMA MulExact ==
  ASSUME NEW l \in Words, NEW r \in Words
  PROVE  MulOverflows(l, r) <=> l * r \notin Words
<1>0. l \in Int /\ r \in Int /\ -Half <= l /\ l < Half /\ -Half <= r /\ r < Half /\ 0 \in Words
  BY WordsAre, HalfType
<1>1. CASE l = 0 \/ r = 0
  <2>1. l * r = 0
    BY <1>0, <1>1
  <2>2. ~MulOverflows(l, r)
    BY <1>0, <1>1, HalfType DEF MulOverflows, MinWord
  <2> QED BY <1>0, <2>1, <2>2
<1>2. CASE l # 0 /\ r # 0 /\ l = -1
  <2>1. l * r = -r
    BY <1>0, <1>2
  <2> QED BY <1>0, <1>2, <2>1, WordsAre, HalfType DEF MulOverflows, MinWord
<1>3. CASE l # 0 /\ r # 0 /\ l # -1 /\ r = -1
  <2>1. l * r = -l
    BY <1>0, <1>3
  <2> QED BY <1>0, <1>3, <2>1, WordsAre, HalfType DEF MulOverflows, MinWord
<1>4. CASE l # 0 /\ r # 0 /\ l # -1 /\ r # -1
  BY <1>0, <1>4, MulChecks DEF MulOverflows
<1> QED BY <1>1, <1>2, <1>3, <1>4

LEMMA FoldMulExact ==
  ASSUME NEW a \in Words, NEW b \in Words
  PROVE  FoldMulOverflows(a, b) <=> a * b \notin Words
<1>0. a \in Int /\ b \in Int /\ 0 \in Words
  BY WordsAre, HalfType
<1>1. MaxWord \in Nat /\ MinWord \in Int /\ -MinWord \in Nat /\ MinWord < 0
  BY HalfType DEF MaxWord, MinWord
<1>2. CASE a # 0 /\ b # 0
  BY <1>0, <1>2, MulChecks DEF FoldMulOverflows
<1>3. CASE a = 0
  <2>1. ASSUME b > 0 PROVE CDiv(MinWord, b) \in Int /\ CDiv(MinWord, b) <= 0
    <3>1. CDiv(MinWord, b) = -((-MinWord) \div b)
      BY <1>0, <1>1, <2>1, CDivDown
    <3>2. (-MinWord) \div b \in Nat
      BY <1>0, <1>1, <2>1, QuotientNat
    <3> QED BY <3>1, <3>2
  <2>2. a * b = 0
    BY <1>0, <1>3
  <2> QED BY <1>0, <1>3, <2>1, <2>2 DEF FoldMulOverflows
<1>4. CASE a # 0 /\ b = 0
  <2>1. ASSUME a > 0 PROVE CDiv(MinWord, a) \in Int /\ CDiv(MinWord, a) <= 0
    <3>1. CDiv(MinWord, a) = -((-MinWord) \div a)
      BY <1>0, <1>1, <2>1, CDivDown
    <3>2. (-MinWord) \div a \in Nat
      BY <1>0, <1>1, <2>1, QuotientNat
    <3> QED BY <3>1, <3>2
  <2>2. ASSUME a < 0 PROVE CDiv(MaxWord, a) \in Int /\ CDiv(MaxWord, a) <= 0
    <3>1. CDiv(MaxWord, a) = -(MaxWord \div (-a))
      BY <1>0, <1>1, <2>2, CDivUpBy
    <3>2. MaxWord \div (-a) \in Nat
      BY <1>0, <1>1, <2>2, QuotientNat
    <3> QED BY <3>1, <3>2
  <2>3. a * b = 0
    BY <1>0, <1>4
  <2> QED BY <1>0, <1>4, <2>1, <2>2, <2>3 DEF FoldMulOverflows
<1> QED BY <1>2, <1>3, <1>4

----------------------------------------------------------------------------
(* Arithmetic on words.                                                      *)

LEMMA OneType == One \in Nat \ {0}
BY NumberAssumption, TwoType DEF One

LEMMA WordOfInt ==
  ASSUME NEW v \in Int
  PROVE  WordOf(IntOf(v)) = v
<1>1. WordOf(IntOf(v)) = CDiv(v * One, One)
  BY DEF WordOf, IntOf
<1> DEFINE n == One
<1>2. n \in Nat \ {0}
  BY OneType
<1> HIDE DEF n
<1>3. ASSUME NEW x \in Nat PROVE (x * n) \div n = x
  <2>1. n * x + 0 = x * n
    BY <1>2
  <2>2. (n * x + 0) \div n = x
    BY <1>2, QuotientUnique
  <2> QED BY <2>1, <2>2
<1>4. CASE v >= 0
  <2>1. v * n >= 0 /\ v * n \in Int
    BY <1>2, <1>4, TimesNat
  <2>2. CDiv(v * n, n) = (v * n) \div n
    BY <1>2, <2>1, CDivUp
  <2> QED BY <1>1, <1>3, <1>4, <2>2 DEF n
<1>5. CASE v < 0
  <2>1. v * n < 0 /\ v * n \in Int /\ -(v * n) = (-v) * n
    <3>1. v * n < 0 * n
      BY <1>2, <1>5, TimesStrict
    <3> QED BY <1>2, <3>1
  <2>2. CDiv(v * n, n) = -((-(v * n)) \div n)
    BY <1>2, <2>1, CDivDown
  <2>3. ((-v) * n) \div n = -v
    BY <1>3, <1>5
  <2> QED BY <1>1, <2>1, <2>2, <2>3 DEF n
<1> QED BY <1>4, <1>5

\* C's quotient and remainder, and the floor.
LEMMA FloorDivExact ==
  ASSUME NEW l \in Words, NEW r \in Words, r # 0, ~(l = MinWord /\ r = -1)
  PROVE  /\ FloorDivOrMod("FLOORDIV", l, r) = FloorOf(l, r) /\ FloorOf(l, r) \in Words
         /\ FloorDivOrMod("MOD", l, r) = l - r * FloorOf(l, r) /\ l - r * FloorOf(l, r) \in Words
<1> DEFINE n == Magnitude(r)
           m == Magnitude(l)
           q == m \div n
           t == m - n * q
<1>0. l \in Int /\ r \in Int /\ -Half <= l /\ l < Half /\ -Half <= r /\ r < Half /\ Half \in Nat
  BY WordsAre, HalfType
<1>1. n \in Nat \ {0} /\ m \in Nat /\ n <= Half /\ m <= Half
  BY <1>0 DEF Magnitude
<1>2. q \in Nat /\ n * q <= m /\ m < n * q + n /\ n * q \in Nat
  <2> HIDE DEF n, m
  <2> QED BY <1>1, QuotientNat, QuotientFacts, TimesNat
<1>3. t \in 0..n - 1 /\ m = n * q + t
  <2> HIDE DEF n, m, q
  <2> QED BY <1>1, <1>2
<1> DEFINE down == IF t = 0 THEN -q ELSE -q - 1
<1>4. (-m) \div n = down
  <2> HIDE DEF n, m, q, t
  <2>1. n * (-q) = -(n * q) /\ n * (-q - 1) = -(n * q) - n /\ -q \in Int /\ -q - 1 \in Int /\ -m \in Int
    BY <1>1, <1>2
  <2>2. CASE t = 0
    <3>1. (-m) \div n = -q
      BY <1>1, <1>2, <1>3, <2>1, <2>2, QuotientIs
    <3> QED BY <2>2, <3>1
  <2>3. CASE t # 0
    <3>1. (-m) \div n = -q - 1
      BY <1>1, <1>2, <1>3, <2>1, <2>3, QuotientIs
    <3> QED BY <2>3, <3>1
  <2> QED BY <2>2, <2>3
<1>5. t # 0 => q + 1 <= Half
  <2> HIDE DEF n, m, q, t
  <2>1. t # 0 => 2 * q <= n * q
    BY <1>1, <1>2, <1>3, TimesMonotone
  <2> QED BY <1>0, <1>1, <1>2, <1>3, <2>1
<1>6. q <= Half
  <2> HIDE DEF n, m, q, t
  <2>1. 1 * q <= n * q
    BY <1>1, <1>2, TimesMonotone
  <2> QED BY <1>0, <1>1, <1>2, <2>1
<1>7. q = Half => n = 1 /\ m = Half
  <2> HIDE DEF n, m, q, t
  <2>1. n >= 2 => 2 * q <= n * q
    BY <1>1, <1>2, TimesMonotone
  <2> QED BY <1>0, <1>1, <1>2, <2>1, HalfType
<1> DEFINE floor == IF (l < 0) = (r < 0) THEN q ELSE down
           mod == l - r * floor
<1>8. FloorOf(l, r) = floor
  BY <1>0, <1>4 DEF FloorOf, Magnitude
<1>9. CDiv(l, r) = IF (l < 0) = (r < 0) THEN q ELSE -q
  BY DEF CDiv
<1>10. CRem(l, r) = IF l < 0 THEN -t ELSE t
  <2>1. r * q = (IF r < 0 THEN -(n * q) ELSE n * q) /\ r * (-q) = -(r * q)
    <3>1. r = IF r < 0 THEN -n ELSE n
      BY <1>0 DEF Magnitude
    <3> HIDE DEF n, q
    <3> QED BY <1>1, <1>2, <3>1
  <2>2. l = IF l < 0 THEN -m ELSE m
    BY <1>0 DEF Magnitude
  <2> HIDE DEF n, m, q, t
  <2> QED BY <1>0, <1>1, <1>2, <1>3, <1>9, <2>1, <2>2 DEF CRem
<1>11. (l < 0) = (r < 0) => q < Half
  <2> HIDE DEF q
  <2> QED BY <1>0, <1>2, <1>6, <1>7, HalfType DEF m, n, Magnitude, MinWord
<1>12. r * (-q) = -(r * q) /\ r * (-q - 1) = -(r * q) - r /\ r * q \in Int
  <2> HIDE DEF q
  <2> QED BY <1>0, <1>2
<1>13. CASE (l < 0) = (r < 0)
  <2>1. floor = q /\ CDiv(l, r) = q /\ q \in Words /\ Wrap(q) = q
    <3>1. floor = q /\ CDiv(l, r) = q
      BY <1>9, <1>13
    <3> HIDE DEF n, m, q, floor
    <3>2. q \in Words
      BY <1>0, <1>2, <1>11, <1>13, WordsAre
    <3> QED BY <3>1, <3>2, WrapKeeps
  <2>2. mod = CRem(l, r)
    BY <2>1 DEF CRem
  <2>3. CRem(l, r) \in Words
    <3> HIDE DEF n, m, q, t, floor, down
    <3> QED BY <1>0, <1>1, <1>3, <1>10, WordsAre
  <2>4. FloorDivOrMod("FLOORDIV", l, r) = CDiv(l, r) /\ FloorDivOrMod("MOD", l, r) = CRem(l, r)
    BY <1>13 DEF FloorDivOrMod
  <2> HIDE DEF n, m, q, t, floor, down
  <2> QED BY <1>8, <2>1, <2>2, <2>3, <2>4
<1>14. CASE (l < 0) # (r < 0) /\ t = 0
  <2>1. floor = -q /\ CDiv(l, r) = -q /\ CRem(l, r) = 0 /\ -q \in Words
    <3>1. floor = -q /\ CDiv(l, r) = -q /\ t = 0 /\ -t = 0
      BY <1>9, <1>14
    <3> HIDE DEF n, m, q, t, floor, down
    <3>2. CRem(l, r) = 0
      BY <1>10, <3>1
    <3>3. -q \in Words
      BY <1>0, <1>2, <1>6, WordsAre
    <3> QED BY <3>1, <3>2, <3>3
  <2>2. mod = CRem(l, r)
    BY <2>1 DEF CRem
  <2>3. CRem(l, r) \in Words
    BY <2>1, WordsAre, HalfType
  <2>4. FloorDivOrMod("FLOORDIV", l, r) = CDiv(l, r) /\ FloorDivOrMod("MOD", l, r) = CRem(l, r)
    BY <2>1 DEF FloorDivOrMod
  <2> HIDE DEF n, m, q, t, floor, down
  <2> QED BY <1>8, <2>1, <2>2, <2>3, <2>4
<1>15. CASE (l < 0) # (r < 0) /\ t # 0
  <2>1. floor = -q - 1
    BY <1>15
  <2>2. CDiv(l, r) = -q /\ CRem(l, r) # 0 /\ CRem(l, r) \in Int /\ -q - 1 \in Words
    <3> HIDE DEF n, m, q, t, floor, down
    <3> QED BY <1>0, <1>2, <1>3, <1>5, <1>9, <1>10, <1>15, WordsAre
  <2>3. mod = CRem(l, r) + r
    <3>1. CRem(l, r) = l - r * (-q)
      BY <2>2 DEF CRem
    <3> HIDE DEF n, m, q, t, floor, down
    <3> QED BY <1>0, <1>12, <2>1, <3>1
  <2>4. CRem(l, r) + r \in Words
    <3>1. r = IF r < 0 THEN -n ELSE n
      BY <1>0 DEF Magnitude
    <3> HIDE DEF n, m, q, t, floor, down
    <3> QED BY <1>0, <1>1, <1>3, <1>10, <1>15, <3>1, WordsAre
  <2>5. /\ FloorDivOrMod("FLOORDIV", l, r) = Wrap(CDiv(l, r) + -1)
        /\ FloorDivOrMod("MOD", l, r) = Wrap(CRem(l, r) + r)
    BY <1>15, <2>2 DEF FloorDivOrMod
  <2>6. CDiv(l, r) + -1 = -q - 1
    <3> HIDE DEF q
    <3> QED BY <1>2, <2>2
  <2> HIDE DEF n, m, q, t, floor, down
  <2> QED BY <1>8, <2>1, <2>2, <2>3, <2>4, <2>5, <2>6, WrapKeeps
<1> QED BY <1>13, <1>14, <1>15

\* Shifts.
LEMMA ShiftRightExact ==
  ASSUME NEW l \in Words, NEW r \in Nat
  PROVE  ShiftRight(l, r) = l \div TwoTo(r) /\ l \div TwoTo(r) \in Words
<1> DEFINE n == TwoTo(r)
<1>0. l \in Int /\ -Half <= l /\ l < Half /\ Half \in Nat /\ Half >= 2 /\ n \in Nat \ {0}
  BY WordsAre, HalfType, TwoType
<1> HIDE DEF n
<1>1. l \div n \in Int /\ n * (l \div n) <= l /\ l < n * (l \div n) + n
  BY <1>0, QuotientFacts
<1>2. CASE l >= 0
  <2>1. Unsigned(l) = l
    BY <1>0, <1>2, UnsignedKeeps
  <2>2. l \div n \in Nat
    BY <1>0, <1>2, QuotientNat
  <2>3. ~(Half - 1 < l \div n)
    <3>1. 1 * (Half - 1) <= n * (Half - 1)
      BY <1>0, TimesMonotone
    <3>2. Half * n <= (l \div n) * n => FALSE
      <4>1. 1 * Half <= n * Half
        BY <1>0, TimesMonotone
      <4> QED BY <1>0, <1>1, <4>1
    <3>3. Half <= l \div n => Half * n <= (l \div n) * n
      BY <1>0, <1>1, TimesMonotone
    <3> QED BY <1>0, <1>1, <3>2, <3>3
  <2> QED BY <1>0, <1>2, <2>1, <2>2, <2>3, WordsAre DEF ShiftRight, n
<1>3. CASE l < 0
  <2> DEFINE q == (-1 - l) \div n
  <2>1. -1 - l \in 0..(2 * Half) - 1 /\ -1 - l \in Nat
    BY <1>0, <1>3
  <2>2. Unsigned(-1 - l) = -1 - l
    BY <2>1, UnsignedKeeps
  <2>3. q \in Nat /\ n * q <= -1 - l /\ -1 - l < n * q + n
    BY <1>0, <2>1, QuotientNat, QuotientFacts
  <2> HIDE DEF q
  <2>4. n * (-1 - q) = -n - n * q /\ -1 - q \in Int /\ n * q \in Int
    BY <1>0, <2>3
  <2>5. l \div n = -1 - q
    BY <1>0, <2>3, <2>4, QuotientIs
  <2>6. q <= n * q
    <3>1. 1 * q <= n * q
      BY <1>0, <2>3, TimesMonotone
    <3> QED BY <2>3, <3>1
  <2>7. -1 - q \in Words
    BY <1>0, <2>3, <2>4, <2>6, WordsAre
  <2>8. ShiftRight(l, r) = -1 - Unsigned(-1 - l) \div n
    BY <1>0, <1>3 DEF ShiftRight, n
  <2> QED BY <2>2, <2>5, <2>7, <2>8 DEF n, q
<1> QED BY <1>0, <1>2, <1>3

LEMMA ShiftLeftExact ==
  ASSUME NEW l \in Words, NEW r \in 0..(WordBits - 1)
  PROVE  GivesExactly(l * TwoTo(r), ShiftLeft(l, r))
<1>0. l \in Int /\ -Half <= l /\ l < Half /\ Half \in Nat /\ Half >= 2 /\ r \in Nat /\ WordBits - 1 \in Nat
  BY WordsAre, HalfType, NumberAssumption
<1>1. CASE r = WordBits - 1
  <2>1. TwoTo(r) = Half
    BY <1>1 DEF Half
  <2>2. l > 0 => l * Half >= 1 * Half
    BY <1>0, TimesMonotone
  <2>3. l < -1 => l * Half <= (-2) * Half
    BY <1>0, TimesMonotone
  <2>4. l * Half \in Int /\ (-2) * Half < -Half /\ (l = 0 => l * Half = 0) /\ (l = -1 => l * Half = MinWord)
    BY <1>0 DEF MinWord
  <2>5. l * Half \in Words <=> l = 0 \/ l = -1
    BY <1>0, <2>2, <2>3, <2>4, WordsAre DEF MinWord
  <2>6. IntBinaryOp("SHL", l, r) = Raises("integer overflow")
    BY DEF IntBinaryOp
  <2>7. ShiftLeft(l, r) = IF l = 0 THEN Gives(IntOf(0))
                          ELSE IF l = -1 THEN Gives(IntOf(MinWord)) ELSE IntBinaryOp("SHL", l, r)
    BY <1>1 DEF ShiftLeft
  <2> QED BY <2>1, <2>4, <2>5, <2>6, <2>7 DEF GivesExactly
<1>2. CASE r # WordBits - 1
  <2>1. r < WordBits - 1
    BY <1>0, <1>2
  <2>2. 2 * TwoTo(r) <= Half /\ TwoTo(r) \in Nat \ {0}
    BY <1>0, <2>1, TwoStrict, TwoType DEF Half
  <2>3. TwoTo(r) \in Words
    BY <1>0, <2>2, WordsAre
  <2>4. IntBinaryOp("SHL", l, r) = Raises("integer overflow")
    BY DEF IntBinaryOp
  <2>5. ShiftLeft(l, r) = IF MulOverflows(l, TwoTo(r)) THEN IntBinaryOp("SHL", l, r)
                          ELSE Gives(IntOf(Wrap(l * TwoTo(r))))
    BY <1>2 DEF ShiftLeft
  <2> QED BY <2>3, <2>4, <2>5, MulExact, WrapKeeps DEF GivesExactly
<1> QED BY <1>1, <1>2

\* Powers by squaring.
LEMMA PowerSquare ==
  ASSUME NEW b \in Int, NEW h \in Nat
  PROVE  PowerOf(b, 2 * h) = PowerOf(b * b, h)
<1> DEFINE T == {k \in Nat : PowerOf(b, 2 * k) = PowerOf(b * b, k)}
<1>0. b * b \in Int
  OBVIOUS
<1>1. 0 \in T
  BY <1>0, PowerZero
<1>2. ASSUME NEW k \in Nat, k \in T PROVE k + 1 \in T
  <2>1. 2 * (k + 1) = (2 * k + 1) + 1 /\ 2 * k + 1 \in Nat /\ 2 * k \in Nat
    OBVIOUS
  <2>2. PowerOf(b, 2 * (k + 1)) = b * PowerOf(b, 2 * k + 1)
    BY <2>1, PowerNext
  <2>3. PowerOf(b, 2 * k + 1) = b * PowerOf(b, 2 * k) /\ PowerOf(b, 2 * k) \in Int
    BY <2>1, PowerNext
  <2>4. PowerOf(b * b, k + 1) = (b * b) * PowerOf(b * b, k)
    BY <1>0, PowerNext
  <2>5. PowerOf(b, 2 * k) = PowerOf(b * b, k)
    BY <1>2
  <2> QED BY <2>2, <2>3, <2>4, <2>5, TimesAssociative
<1> HIDE DEF T
<1>3. \A k \in Nat : k \in T
  BY <1>1, <1>2, NatInduces
<1> QED BY <1>3 DEF T

LEMMA PowerPositive ==
  ASSUME NEW b \in Nat \ {0}, NEW n \in Nat
  PROVE  PowerOf(b, n) \in Nat \ {0}
<1> DEFINE T == {k \in Nat : PowerOf(b, k) \in Nat \ {0}}
<1>1. 0 \in T
  BY PowerZero
<1>2. ASSUME NEW k \in Nat, k \in T PROVE k + 1 \in T
  <2>1. PowerOf(b, k + 1) = b * PowerOf(b, k) /\ PowerOf(b, k) \in Nat \ {0}
    BY <1>2, PowerNext
  <2> QED BY <2>1
<1> HIDE DEF T
<1>3. \A k \in Nat : k \in T
  BY <1>1, <1>2, NatInduces
<1> QED BY <1>3 DEF T

LEMMA SquareNat ==
  ASSUME NEW b \in Int
  PROVE  b * b \in Nat /\ (b # 0 => b * b \in Nat \ {0})
<1>1. b >= 0 => b * b \in Nat
  OBVIOUS
<1>2. b < 0 => b * b = (-b) * (-b) /\ -b \in Nat
  OBVIOUS
<1>3. (-b) * (-b) \in Nat \/ ~(-b \in Nat)
  BY TimesNat
<1>4. b * b \in Nat
  BY <1>1, <1>2, <1>3
<1>5. b > 0 => b * b > 0
  BY TimesStrict
<1>6. b < 0 => (-b) * (-b) > 0
  <2>1. b < 0 => 0 * (-b) < (-b) * (-b)
    BY TimesStrict
  <2> QED BY <2>1
<1> QED BY <1>2, <1>4, <1>5, <1>6

LEMMA Halves ==
  ASSUME NEW e \in Nat
  PROVE  /\ e \div 2 \in Nat
         /\ e % 2 = 1 => e = 2 * (e \div 2) + 1
         /\ e % 2 # 1 => e = 2 * (e \div 2)
         /\ e # 0 => e \div 2 < e
<1> DEFINE n == 2
           r == e % n
<1>0. n \in Nat \ {0} /\ n = 2 /\ e \in Int
  OBVIOUS
<1> HIDE DEF n
<1>1. PICK k \in Int : e = n * k + (e % n)
  BY <1>0, RemainderQuotient
<1>2. e % n \in 0..n - 1
  BY <1>0, RemainderIn
<1>3. r \in 0..n - 1 /\ e = n * k + r
  BY <1>1, <1>2
<1> HIDE DEF r
<1>4. n * k <= e /\ e < n * k + n
  BY <1>0, <1>3
<1>5. e \div n = k
  BY <1>0, <1>4, QuotientIs
<1>6. e \div 2 = k /\ r = e % 2
  BY <1>0, <1>5 DEF r
<1> QED BY <1>0, <1>3, <1>6

\* What the rounds keep.
RoundInv(s, x) ==
  /\ s \in [res : Words, base : Words, exponent : Nat]
  /\ s.res * PowerOf(s.base, s.exponent) = x
  /\ s.base # 0 => s.res # 0
  /\ s.base > 1 \/ s.base < -1 => s.res = 1 \/ s.res > 1 \/ s.res < -1

\* The power in two factors, of which the second is a square to half the exponent.
Factor(s) == IF s.exponent % 2 = 1 THEN s.res * s.base ELSE s.res

LEMMA FactorIs ==
  ASSUME NEW s, NEW x, RoundInv(s, x)
  PROVE  /\ Factor(s) \in Int
         /\ x = Factor(s) * PowerOf(s.base * s.base, s.exponent \div 2)
<1> DEFINE e == s.exponent
           h == e \div 2
           b == s.base
           c == s.res
<1>0. e \in Nat /\ b \in Int /\ c \in Int /\ h \in Nat /\ b * b \in Int /\ c * PowerOf(b, e) = x
  <2>1. s.exponent \in Nat /\ s.base \in Int /\ s.res \in Int /\ c * PowerOf(b, e) = x
    BY WordsAre DEF RoundInv
  <2>2. h \in Nat
    BY <2>1
  <2> QED BY <2>1, <2>2
<1>1. CASE e % 2 = 1
  <2>1. e = 2 * h + 1 /\ 2 * h \in Nat
    BY <1>0, <1>1, Halves
  <2> HIDE DEF e, h, b, c
  <2>2. PowerOf(b, e) = b * PowerOf(b, 2 * h) /\ PowerOf(b, 2 * h) = PowerOf(b * b, h)
    BY <1>0, <2>1, PowerNext, PowerSquare
  <2>3. PowerOf(b * b, h) \in Int
    BY <1>0, PowerNext
  <2>4. c * (b * PowerOf(b * b, h)) = (c * b) * PowerOf(b * b, h)
    BY <1>0, <2>3, TimesAssociative
  <2>5. Factor(s) = c * b
    BY <1>1 DEF Factor, c, b, e
  <2>6. c * b \in Int
    BY <1>0
  <2> QED BY <1>0, <2>2, <2>4, <2>5, <2>6 DEF e, h, b, c
<1>2. CASE e % 2 # 1
  <2>1. e = 2 * h
    BY <1>0, <1>2, Halves
  <2> HIDE DEF e, h, b, c
  <2>2. PowerOf(b, e) = PowerOf(b * b, h)
    BY <1>0, <2>1, PowerSquare
  <2>5. Factor(s) = c
    BY <1>2 DEF Factor, c, b, e
  <2> QED BY <1>0, <2>2, <2>5 DEF e, h, b, c
<1> QED BY <1>1, <1>2

LEMMA AwayFromOne ==
  ASSUME NEW x \in Int, NEW y \in Int, x # 0, y > 1 \/ y < -1
  PROVE  x * y > 1 \/ x * y < -1
<1>1. x > 0 /\ y > 1 => 1 * y <= x * y
  BY TimesMonotone
<1>2. x > 0 /\ y < -1 => 1 * (-y) <= x * (-y)
  BY TimesMonotone
<1>3. x < 0 /\ y > 1 => 1 * y <= (-x) * y
  BY TimesMonotone
<1>4. x < 0 /\ y < -1 => 1 * (-y) <= (-x) * (-y)
  BY TimesMonotone
<1>5. x * (-y) = -(x * y) /\ (-x) * y = -(x * y) /\ (-x) * (-y) = x * y /\ x * y \in Int
  OBVIOUS
<1> QED BY <1>1, <1>2, <1>3, <1>4, <1>5

LEMMA RoundKeeps ==
  ASSUME NEW s, NEW x, RoundInv(s, x), s.exponent # 0, RoundFits(s)
  PROVE  /\ RoundInv(PowerRound(s), x)
         /\ PowerRound(s).exponent < s.exponent
<1> DEFINE e == s.exponent
           h == e \div 2
           b == s.base
           c == s.res
           f == Factor(s)
           b2 == IF h # 0 THEN b * b ELSE b
<1>0. e \in Nat \ {0} /\ b \in Words /\ c \in Words /\ b \in Int /\ c \in Int /\ h \in Nat /\ h < e
  <2>1. e \in Nat \ {0} /\ b \in Words /\ c \in Words /\ b \in Int /\ c \in Int
    BY WordsAre DEF RoundInv
  <2>2. h \in Nat /\ h < e
    <3> HIDE DEF e
    <3> QED BY <2>1, Halves
  <2> QED BY <2>1, <2>2
<1>1. /\ b # 0 => c # 0
      /\ b > 1 \/ b < -1 => c = 1 \/ c > 1 \/ c < -1
  BY DEF RoundInv
<1>2. f \in Int /\ x = f * PowerOf(b * b, h)
  BY FactorIs
<1>3. f \in Words /\ (e % 2 = 1 => Wrap(c * b) = c * b)
  <2>1. e % 2 = 1 => c * b \in Words
    BY <1>0, MulExact DEF RoundFits
  <2> QED BY <1>0, <2>1, WrapKeeps DEF Factor
<1>4. b2 \in Words /\ (h # 0 => Wrap(b * b) = b * b)
  <2>1. h # 0 => b * b \in Words
    BY <1>0, MulExact DEF RoundFits
  <2> QED BY <1>0, <2>1, WrapKeeps
<1>5. PowerRound(s) = [res |-> f, base |-> b2, exponent |-> h]
  BY <1>3, <1>4 DEF PowerRound, Factor
<1>6. f = IF e % 2 = 1 THEN c * b ELSE c
  BY DEF Factor
<1> HIDE DEF f, e, h, b, c
<1>7. PowerOf(b2, h) = PowerOf(b * b, h)
  <2>1. b * b \in Int
    BY <1>0
  <2> QED BY <1>0, <2>1, PowerZero
<1>8. b2 # 0 => f # 0
  <2>1. b # 0 /\ c # 0 => c * b # 0
    BY <1>0
  <2>2. b2 # 0 => b # 0
    BY <1>0
  <2> QED BY <1>1, <1>6, <2>1, <2>2
<1>9. b2 > 1 \/ b2 < -1 => f = 1 \/ f > 1 \/ f < -1
  <2>1. b2 > 1 \/ b2 < -1 => b > 1 \/ b < -1
    <3>1. (b = 0 => b * b = 0) /\ (b = 1 => b * b = 1) /\ (b = -1 => b * b = 1)
      OBVIOUS
    <3> QED BY <1>0, <3>1
  <2>2. b > 1 \/ b < -1 => c * b > 1 \/ c * b < -1
    BY <1>0, <1>1, AwayFromOne
  <2> QED BY <1>1, <1>6, <2>1, <2>2
<1> HIDE DEF b2
<1> QED BY <1>0, <1>2, <1>3, <1>4, <1>5, <1>7, <1>8, <1>9 DEF RoundInv, e

LEMMA RoundStuck ==
  ASSUME NEW s, NEW x, RoundInv(s, x), s.exponent # 0, ~RoundFits(s)
  PROVE  x \notin Words
<1> DEFINE e == s.exponent
           h == e \div 2
           b == s.base
           c == s.res
           f == Factor(s)
           p == PowerOf(b * b, h)
<1>0. e \in Nat \ {0} /\ b \in Words /\ c \in Words /\ b \in Int /\ c \in Int /\ h \in Nat
  <2>1. e \in Nat \ {0} /\ b \in Words /\ c \in Words /\ b \in Int /\ c \in Int
    BY WordsAre DEF RoundInv
  <2>2. h \in Nat
    <3> HIDE DEF e
    <3> QED BY <2>1, Halves
  <2> QED BY <2>1, <2>2
<1>1. /\ b # 0 => c # 0
      /\ b > 1 \/ b < -1 => c = 1 \/ c > 1 \/ c < -1
  BY DEF RoundInv
<1>2. f \in Int /\ x = f * p
  BY FactorIs
<1>3. f = IF e % 2 = 1 THEN c * b ELSE c
  BY DEF Factor
<1>4. \/ e % 2 = 1 /\ c * b \notin Words
      \/ h # 0 /\ b * b \notin Words
  BY <1>0, MulExact DEF RoundFits
<1> HIDE DEF f, e, h, b, c
<1>5. Half \in Nat /\ Half >= 2 /\ 0 \in Words
  BY HalfType, WordsAre
<1>6. b # 0 => p \in Nat \ {0}
  BY <1>0, SquareNat, PowerPositive
<1>7. CASE e % 2 = 1 /\ c * b \notin Words
  <2>1. f \notin Words /\ f # 0 /\ b # 0
    <3>1. b = 0 => c * b = 0
      BY <1>0
    <3> QED BY <1>3, <1>5, <1>7, <3>1
  <2>2. p \in Nat \ {0}
    BY <1>6, <2>1
  <2> HIDE DEF p
  <2>3. f < -Half \/ f >= Half
    BY <1>2, <1>5, <2>1, WordsAre
  <2>4. f >= Half => 1 * f <= p * f
    BY <1>2, <1>5, <2>2, TimesMonotone
  <2>5. f < -Half => 1 * (-f) <= p * (-f)
    BY <1>2, <1>5, <2>2, TimesMonotone
  <2>6. p * f = x /\ p * (-f) = -x /\ x \in Int
    BY <1>2, <2>2
  <2> QED BY <1>2, <1>5, <2>3, <2>4, <2>5, <2>6, WordsAre
<1>8. CASE h # 0 /\ b * b \notin Words
  <2>1. b * b \in Nat /\ b * b >= Half
    <3>1. b * b \in Nat
      BY <1>0, SquareNat
    <3> QED BY <1>5, <1>8, <3>1, WordsAre
  <2>2. b > 1 \/ b < -1
    <3>1. (b = 0 => b * b = 0) /\ (b = 1 => b * b = 1) /\ (b = -1 => b * b = 1)
      OBVIOUS
    <3> QED BY <1>0, <1>5, <2>1, <3>1
  <2> DEFINE sq == b * b
             q == PowerOf(sq, h - 1)
  <2>3. p = sq * q /\ q \in Nat \ {0} /\ sq \in Nat /\ sq >= Half
    <3>1. h - 1 \in Nat /\ h - 1 + 1 = h
      BY <1>0, <1>8
    <3>2. sq \in Nat \ {0} /\ sq \in Int
      BY <1>5, <2>1
    <3> HIDE DEF sq
    <3> QED BY <2>1, <3>1, <3>2, PowerNext, PowerPositive DEF sq
  <2> HIDE DEF p, q, sq
  <2>4. p >= Half /\ p \in Nat
    <3>1. 1 * sq <= q * sq
      BY <2>3, TimesMonotone
    <3> QED BY <1>5, <2>3, <3>1
  <2>5. c * b > 1 \/ c * b < -1
    BY <1>0, <1>1, <2>2, AwayFromOne
  <2>6. f > 0 \/ f < -1
    BY <1>0, <1>1, <1>3, <2>2, <2>5
  <2>7. f > 0 => 1 * p <= f * p
    BY <1>2, <2>4, TimesMonotone
  <2>8. f < -1 => 2 * p <= (-f) * p
    BY <1>2, <2>4, TimesMonotone
  <2>9. (-f) * p = -x /\ x \in Int
    BY <1>2, <2>4
  <2> QED BY <1>2, <1>5, <2>4, <2>6, <2>7, <2>8, <2>9, WordsAre
<1> QED BY <1>4, <1>7, <1>8

LEMMA PowerExact ==
  ASSUME NEW l \in Words, NEW r \in Nat
  PROVE  GivesExactly(PowerOf(l, r), Power(l, r))
<1> DEFINE S == [res : Words, base : Words, exponent : Nat]
           x == PowerOf(l, r)
           init == [res |-> 1, base |-> l, exponent |-> r]
           Body(g) == [k \in 0..r |-> IF k = 0 THEN init ELSE PowerRound(g[k - 1])]
           s == CHOOSE g : g = Body(g)
           step == [k \in 1..r |-> [a \in S |-> PowerRound(a)]]
<1>0. l \in Int /\ 1 \in Words /\ 1 \in Int /\ x \in Int
  <2>1. l \in Int /\ 1 \in Words
    BY WordsAre, HalfType
  <2> QED BY <2>1, PowerNext
<1>1. init \in S /\ RoundInv(init, x)
  <2>1. 1 * x = x
    BY <1>0
  <2> HIDE DEF x
  <2>2. init \in S /\ init.res = 1 /\ init.base = l /\ init.exponent = r
    BY <1>0
  <2> HIDE DEF init
  <2> QED BY <2>1, <2>2 DEF RoundInv, x
<1>2. ASSUME NEW a \in S PROVE PowerRound(a) \in S
  <2>1. CASE a.exponent = 0 \/ ~RoundFits(a)
    BY <2>1 DEF PowerRound
  <2>2. CASE a.exponent # 0 /\ RoundFits(a)
    <3>1. a.exponent % 2 = 1 => Wrap(a.res * a.base) \in Words
      BY <2>2, MulExact, WrapKeeps DEF RoundFits
    <3>2. a.exponent \div 2 # 0 => Wrap(a.base * a.base) \in Words
      BY <2>2, MulExact, WrapKeeps DEF RoundFits
    <3>3. a.exponent \div 2 \in Nat
      BY Halves
    <3> QED BY <2>2, <3>1, <3>2, <3>3 DEF PowerRound
  <2> QED BY <2>1, <2>2
<1>3. step \in [1..r -> [S -> S]]
  BY <1>2
<1> HIDE DEF S, init, x
<1>4. PICK f : Rounds(f, r, init, step, S)
  BY <1>1, <1>3, RoundsExist
<1>5. f \in [0..r -> S] /\ f[0] = init /\ \A k \in 1..r : f[k] = step[k][f[k - 1]]
  BY <1>4 DEF Rounds
<1>6. ASSUME NEW k \in 1..r PROVE f[k] = PowerRound(f[k - 1])
  <2>1. k - 1 \in 0..r
    OBVIOUS
  <2>2. f[k - 1] \in S
    BY <1>5, <2>1
  <2> QED BY <1>5, <2>2
<1>7. f = Body(f)
  BY <1>5, <1>6
<1>8. Power(l, r) = IF s[r].exponent = 0 THEN Gives(IntOf(s[r].res)) ELSE Raises("integer overflow")
  BY DEF Power, init
<1> HIDE DEF Body
<1>9. s = Body(s)
  BY <1>7
<1> HIDE DEF s
<1>10. s[0] = init /\ \A k \in 1..r : s[k] = PowerRound(s[k - 1])
  BY <1>9 DEF Body
<1> DEFINE Advances(k) == /\ RoundInv(s[k], x)
                          /\ s[k].exponent = 0 \/ ~RoundFits(s[k]) \/ s[k].exponent + k <= r
           T == {k \in 0..r : Advances(k)}
<1>11. 0 \in T
  <2>1. init.exponent = r
    BY DEF init
  <2> QED BY <1>1, <1>10, <2>1
<1>12. ASSUME NEW k \in 0..r - 1, k \in T PROVE k + 1 \in T
  <2>1. k + 1 \in 1..r /\ k + 1 - 1 = k /\ k + 1 \in 0..r
    OBVIOUS
  <2>2. s[k + 1] = PowerRound(s[k])
    BY <1>10, <2>1
  <2>3. Advances(k)
    BY <1>12
  <2>4. CASE s[k].exponent = 0 \/ ~RoundFits(s[k])
    <3>1. s[k + 1] = s[k]
      BY <2>2, <2>4 DEF PowerRound
    <3> QED BY <2>1, <2>3, <2>4, <3>1
  <2>5. CASE s[k].exponent # 0 /\ RoundFits(s[k])
    <3>1. RoundInv(s[k + 1], x) /\ s[k + 1].exponent < s[k].exponent
      BY <2>2, <2>3, <2>5, RoundKeeps
    <3>2. s[k].exponent \in Nat /\ s[k + 1].exponent \in Nat
      BY <2>3, <3>1 DEF RoundInv
    <3> QED BY <2>1, <2>3, <2>5, <3>1, <3>2
  <2> QED BY <2>4, <2>5
<1> HIDE DEF T
<1>13. \A k \in 0..r : k \in T
  BY <1>11, <1>12, UptoInduces
<1>14. Advances(r)
  BY <1>13 DEF T
<1> DEFINE z == s[r]
<1>15. RoundInv(z, x) /\ (z.exponent = 0 \/ ~RoundFits(z))
  <2>1. z.exponent \in Nat
    BY <1>14 DEF RoundInv
  <2> QED BY <1>14, <2>1
<1> HIDE DEF z, Advances
<1>16. CASE z.exponent = 0
  <2>1. z.res * PowerOf(z.base, 0) = x /\ z.res \in Words /\ z.base \in Int /\ z.res \in Int
    BY <1>15, <1>16, WordsAre DEF RoundInv
  <2>2. PowerOf(z.base, 0) = 1
    BY <2>1, PowerZero
  <2>3. z.res = x
    BY <2>1, <2>2
  <2> QED BY <1>8, <1>16, <2>1, <2>3 DEF GivesExactly, z, x
<1>17. CASE z.exponent # 0
  <2>1. x \notin Words
    BY <1>15, <1>17, RoundStuck
  <2> QED BY <1>8, <1>17, <2>1 DEF GivesExactly, z, x
<1> QED BY <1>16, <1>17

\* A binary operation on words gives what is asked of it.
LEMMA BinaryIsExact ==
  ASSUME NEW o \in BinaryOps, NEW l \in Words, NEW r \in Words
  PROVE  BinaryExact(o, l, r, BinaryOp(o, l, r))
<1>0. l \in Int /\ r \in Int /\ WordBits - 1 \in Nat
  BY WordsAre, NumberAssumption
<1>1. CASE o = "ADD"
  <2>1. GivesExactly(l + r, BinaryOp(o, l, r))
    BY <1>1, AddExact, WrapKeeps DEF BinaryOp, IntBinaryOp, GivesExactly
  <2> QED BY <1>1, <2>1 DEF BinaryExact, Exact
<1>2. CASE o = "SUB"
  <2>1. GivesExactly(l - r, BinaryOp(o, l, r))
    BY <1>2, SubExact, WrapKeeps DEF BinaryOp, IntBinaryOp, GivesExactly
  <2> QED BY <1>2, <2>1 DEF BinaryExact, Exact
<1>3. CASE o = "MUL"
  <2>1. GivesExactly(l * r, BinaryOp(o, l, r))
    BY <1>3, MulExact, WrapKeeps DEF BinaryOp, IntBinaryOp, GivesExactly
  <2> QED BY <1>3, <2>1 DEF BinaryExact, Exact
<1>4. CASE o = "DIV"
  BY <1>4 DEF BinaryOp, IntBinaryOp, BinaryExact
<1>5. CASE o = "FLOORDIV" \/ o = "MOD"
  <2>1. CASE r = 0
    <3>1. BinaryOp(o, l, r) = IntBinaryOp(o, l, r)
      BY <1>5, <2>1 DEF BinaryOp
    <3>2. IntBinaryOp(o, l, r) = Raises("division by zero")
      BY <1>5, <2>1 DEF IntBinaryOp
    <3>3. BinaryOp(o, l, r) = Raises("division by zero")
      BY <3>1, <3>2
    <3>4. CASE o = "FLOORDIV"
      BY <2>1, <3>3, <3>4 DEF BinaryExact
    <3>5. CASE o = "MOD"
      <4>1. r # -1
        BY <2>1
      <4> QED BY <2>1, <3>3, <3>5, <4>1 DEF BinaryExact
    <3> QED BY <1>5, <3>4, <3>5
  <2>2. CASE l = MinWord /\ r = -1
    <3>0. r # 0 /\ r \in Int /\ -r = 1 /\ ~(r > 0) /\ l = -Half
      <4>1. r + 1 = 0 /\ l = -Half
        BY <2>2 DEF MinWord
      <4> QED BY <1>0, <4>1
    <3>1. BinaryOp(o, l, r) = Raises("integer overflow")
      <4>1. BinaryOp(o, l, r) = IntBinaryOp(o, l, r)
        BY <1>5, <2>2 DEF BinaryOp
      <4>2. IntBinaryOp(o, l, r) = Raises("integer overflow")
        BY <1>5, <3>0 DEF IntBinaryOp
      <4> QED BY <4>1, <4>2
    <3>2. FloorOf(l, r) = Half
      <4>1. -l = Half
        BY <3>0, HalfType
      <4>2. Half \div 1 = Half
        BY HalfType
      <4> QED BY <3>0, <4>1, <4>2 DEF FloorOf
    <3>3. Half \notin Words
      BY HalfType, WordsAre
    <3>4. o = "FLOORDIV" => GivesExactly(Exact(o, l, r), BinaryOp(o, l, r))
      BY <3>1, <3>2, <3>3 DEF GivesExactly, Exact
    <3>5. CASE o = "FLOORDIV"
      BY <3>0, <3>4, <3>5 DEF BinaryExact
    <3>6. CASE o = "MOD"
      BY <2>2, <3>0, <3>1, <3>6 DEF BinaryExact
    <3> QED BY <1>5, <3>5, <3>6
  <2>3. CASE r # 0 /\ ~(l = MinWord /\ r = -1)
    <3>1. BinaryOp(o, l, r) = Gives(IntOf(FloorDivOrMod(o, l, r)))
      BY <1>5, <2>3 DEF BinaryOp
    <3>2. FloorDivOrMod(o, l, r) = Exact(o, l, r) /\ Exact(o, l, r) \in Words
      BY <1>5, <2>3, FloorDivExact DEF Exact
    <3>3. GivesExactly(Exact(o, l, r), BinaryOp(o, l, r))
      BY <3>1, <3>2 DEF GivesExactly
    <3> QED BY <1>5, <2>3, <3>3 DEF BinaryExact
  <2> QED BY <2>1, <2>2, <2>3
<1>6. CASE o = "POW"
  <2>1. CASE r < 0
    BY <1>6, <2>1 DEF BinaryOp, BinaryExact
  <2>2. CASE ~(r < 0)
    <3>1. r \in Nat
      BY <1>0, <2>2
    <3>2. BinaryOp(o, l, r) = Power(l, r)
      BY <1>6, <2>2 DEF BinaryOp
    <3>3. GivesExactly(PowerOf(l, r), BinaryOp(o, l, r))
      BY <3>1, <3>2, PowerExact
    <3> QED BY <1>6, <2>2, <3>3 DEF BinaryExact, Exact
  <2> QED BY <2>1, <2>2
<1>7. CASE o = "SHL" \/ o = "SHR"
  <2>1. CASE r < 0 \/ r >= WordBits
    <3>1. r \notin 0..(WordBits - 1)
      BY <1>0, <2>1, NumberAssumption
    <3>2. BinaryOp(o, l, r) = Raises("invalid shift count")
      BY <1>7, <2>1 DEF BinaryOp
    <3> QED BY <1>7, <3>1, <3>2 DEF BinaryExact
  <2>2. CASE ~(r < 0 \/ r >= WordBits)
    <3>1. r \in 0..(WordBits - 1) /\ r \in Nat
      BY <1>0, <2>2, NumberAssumption
    <3>2. o = "SHL" => GivesExactly(Exact(o, l, r), BinaryOp(o, l, r))
      BY <2>2, <3>1, ShiftLeftExact DEF BinaryOp, Exact
    <3>3. o = "SHR" => GivesExactly(Exact(o, l, r), BinaryOp(o, l, r))
      BY <2>2, <3>1, ShiftRightExact DEF BinaryOp, Exact, GivesExactly
    <3> QED BY <1>7, <3>1, <3>2, <3>3 DEF BinaryExact
  <2> QED BY <2>1, <2>2
<1> QED BY <1>1, <1>2, <1>3, <1>4, <1>5, <1>6, <1>7 DEF BinaryOps

----------------------------------------------------------------------------
(* Floats.                                                                   *)

\* The largest word, the largest float and infinity, in units.
LEMMA Bounds ==
  /\ InfQ \in Nat /\ One \in Nat \ {0} /\ Half * One \in Nat /\ Half * One < InfQ
  /\ \A q \in Quanta : q \in Nat /\ q < InfQ
<1>0. WordBits - 1 \in Nat /\ FracBits \in Nat /\ Precision \in Nat /\ ExpMax \in Nat /\ Precision + ExpMax \in Nat
      /\ WordBits - 1 + FracBits \in Nat /\ WordBits - 1 + FracBits < Precision + ExpMax
  BY NumberAssumption
<1>1. InfQ \in Nat \ {0} /\ One \in Nat \ {0} /\ Half \in Nat \ {0}
  BY <1>0, TwoType DEF InfQ, One, Half
<1>2. Half * One \in Nat /\ Half * One < InfQ
  <2>1. TwoTo(WordBits - 1 + FracBits) = Half * One
    BY <1>0, TwoSum DEF Half, One
  <2>2. 2 * TwoTo(WordBits - 1 + FracBits) <= InfQ /\ TwoTo(WordBits - 1 + FracBits) \in Nat \ {0}
    BY <1>0, TwoStrict, TwoType DEF InfQ
  <2> QED BY <1>1, <2>1, <2>2
<1>3. ASSUME NEW m \in 0..(TwoTo(Precision) - 1), NEW e \in 0..ExpMax
      PROVE  m * TwoTo(e) \in Nat /\ m * TwoTo(e) < InfQ
  <2>1. e \in Nat /\ TwoTo(e) \in Nat \ {0} /\ TwoTo(Precision) \in Nat \ {0} /\ m \in Nat /\ m < TwoTo(Precision)
    BY <1>0, TwoType
  <2>2. TwoTo(Precision) * TwoTo(e) = TwoTo(Precision + e)
    BY <1>0, <2>1, TwoSum
  <2>3. TwoTo(Precision + e) <= InfQ /\ TwoTo(Precision + e) \in Nat
    <3>1. Precision + e \in Nat /\ Precision + e <= Precision + ExpMax
      BY <1>0, <2>1
    <3> QED BY <1>0, <3>1, TwoMonotone, TwoType DEF InfQ
  <2>4. m * TwoTo(e) < TwoTo(Precision) * TwoTo(e)
    BY <2>1, TimesStrict
  <2>5. m * TwoTo(e) \in Nat
    BY <2>1, TimesNat
  <2> QED BY <1>1, <2>2, <2>3, <2>4, <2>5
<1>4. \A q \in Quanta : q \in Nat /\ q < InfQ
  BY <1>3 DEF Quanta
<1> QED BY <1>1, <1>2, <1>4

\* A whole number of units that a float has the bits for is converted as it is.
LEMMA ToDoubleExact ==
  ASSUME NEW v \in Words, Magnitude(v) * One \in Quanta
  PROVE  ToDouble(v) = FloatOf(v * One, v < 0)
<1> DEFINE a == Magnitude(v) * One
           Fit(k) == a < TwoTo(Precision + k) /\ (k = 0 \/ a >= TwoTo(Precision + k - 1))
           e == CHOOSE k \in 0..ExpMax : Fit(k)
           K == {k \in 0..ExpMax : a < TwoTo(Precision + k)}
<1>0. Precision \in Nat /\ ExpMax \in Nat /\ v \in Int /\ a \in Nat
  BY NumberAssumption, WordsAre, Bounds
<1>1. PICK m \in 0..(TwoTo(Precision) - 1), e0 \in 0..ExpMax : a = m * TwoTo(e0)
  BY DEF Quanta
<1>2. e0 \in Nat /\ TwoTo(e0) \in Nat \ {0} /\ m \in Nat /\ m < TwoTo(Precision) /\ TwoTo(Precision) \in Nat \ {0}
  BY <1>0, <1>1, TwoType
<1> HIDE DEF a
<1>3. a < TwoTo(Precision + e0)
  <2>1. m * TwoTo(e0) < TwoTo(Precision) * TwoTo(e0)
    BY <1>2, TimesStrict
  <2> QED BY <1>0, <1>1, <1>2, <2>1, TwoSum
<1>4. \E k \in 0..ExpMax : Fit(k)
  <2>1. K \subseteq Nat /\ e0 \in K
    BY <1>0, <1>1, <1>3
  <2> HIDE DEF K
  <2>2. PICK k \in K : \A j \in K : k <= j
    BY <2>1, NatLeast
  <2>3. k \in 0..ExpMax /\ a < TwoTo(Precision + k)
    BY <2>2 DEF K
  <2>4. CASE k = 0
    BY <2>3, <2>4
  <2>5. CASE k # 0
    <3>1. k - 1 \in 0..ExpMax /\ k - 1 \notin K /\ Precision + (k - 1) = Precision + k - 1
          /\ Precision + (k - 1) \in Nat
      BY <1>0, <2>1, <2>2, <2>3, <2>5
    <3>2. ~(a < TwoTo(Precision + (k - 1)))
      BY <3>1 DEF K
    <3>3. TwoTo(Precision + (k - 1)) \in Nat
      BY <3>1, TwoType
    <3> QED BY <1>0, <2>3, <3>1, <3>2, <3>3
  <2> QED BY <2>4, <2>5
<1>5. e \in 0..ExpMax /\ Fit(e)
  <2> HIDE DEF Fit
  <2> QED BY <1>4
<1>6. /\ e \in Nat /\ a < TwoTo(Precision + e) /\ (e = 0 \/ a >= TwoTo(Precision + e - 1))
  <2> HIDE DEF e
  <2> QED BY <1>0, <1>5
<1>7. e = CHOOSE k \in 0..ExpMax : a < TwoTo(Precision + k) /\ (k = 0 \/ a >= TwoTo(Precision + k - 1))
  OBVIOUS
<1> HIDE DEF e, K, Fit
<1>8. e <= e0
  <2> SUFFICES ASSUME e0 < e PROVE FALSE
    BY <1>2, <1>6
  <2>1. Precision + e0 <= Precision + e - 1 /\ Precision + e0 \in Nat /\ Precision + e - 1 \in Nat
    BY <1>0, <1>2, <1>6
  <2>2. TwoTo(Precision + e0) <= TwoTo(Precision + e - 1) /\ TwoTo(Precision + e0) \in Nat
        /\ TwoTo(Precision + e - 1) \in Nat
    BY <2>1, TwoMonotone, TwoType
  <2> QED BY <1>0, <1>2, <1>3, <1>6, <2>2
<1> DEFINE n == TwoTo(e)
           w == m * TwoTo(e0 - e)
<1>9. n \in Nat \ {0} /\ w \in Int /\ a = n * w
  <2>1. e0 - e \in Nat /\ e0 = e + (e0 - e)
    BY <1>2, <1>6, <1>8
  <2>2. TwoTo(e0) = TwoTo(e) * TwoTo(e0 - e) /\ TwoTo(e0 - e) \in Nat \ {0} /\ TwoTo(e) \in Nat \ {0}
    BY <1>6, <2>1, TwoSum, TwoType
  <2> DEFINE y == TwoTo(e0 - e)
  <2> HIDE DEF y, n
  <2>3. m * (n * y) = n * (m * y) /\ m * y \in Int
    BY <1>2, <2>2 DEF n, y
  <2> QED BY <1>1, <2>2, <2>3 DEF n, y
<1> HIDE DEF n, w
<1>10. a \div n = w /\ a % n = 0
  <2>1. n * w + 0 = a /\ 0 \in 0..n - 1
    BY <1>0, <1>9
  <2> QED BY <1>9, <2>1, QuotientUnique, RemainderUnique
<1> DEFINE rest == 2 * (a % n)
           up == rest > n \/ (rest = n /\ w % 2 = 1)
           q == (IF up THEN w + 1 ELSE w) * n
<1>11. q = a
  <2>1. rest = 0
    BY <1>10
  <2> HIDE DEF rest
  <2>2. ~up
    BY <1>9, <2>1
  <2> HIDE DEF up
  <2>3. w * n = n * w
    BY <1>9
  <2> QED BY <1>9, <2>2, <2>3
<1>12. ToDouble(v) = FloatOf(IF v < 0 THEN -q ELSE q, v < 0)
  BY <1>7, <1>10 DEF ToDouble, a, n
<1>13. (IF v < 0 THEN -a ELSE a) = v * One
  BY <1>0, Bounds DEF a, Magnitude
<1> HIDE DEF q
<1> QED BY <1>11, <1>12, <1>13

\* What there is to know of a number that is not its representation.
LEMMA FloatIs ==
  ASSUME NEW f \in Floats
  PROVE  /\ f.tag = "float" /\ f.q \in Int
         /\ f.kind \in {"finite", "nan", "inf"}
         /\ f.kind = "finite" => Magnitude(f.q) \in Quanta /\ -InfQ < f.q /\ f.q < InfQ
         /\ f.kind = "inf" => f.q = InfQ \/ f.q = -InfQ
<1>1. CASE \E q \in Quanta : f = FloatOf(q, FALSE) \/ f = FloatOf(-q, TRUE)
  <2>1. PICK q \in Quanta : f = FloatOf(q, FALSE) \/ f = FloatOf(-q, TRUE)
    BY <1>1
  <2>2. f.tag = "float" /\ f.kind = "finite" /\ (f.q = q \/ f.q = -q)
    BY <2>1 DEF FloatOf
  <2>3. q \in Nat /\ q < InfQ /\ InfQ \in Nat
    BY Bounds
  <2> QED BY <2>2, <2>3 DEF Magnitude
<1>2. CASE f = NaN
  BY <1>2 DEF NaN
<1>3. CASE f = Infinity(FALSE) \/ f = Infinity(TRUE)
  <2>1. f.tag = "float" /\ f.kind = "inf" /\ (f.q = InfQ \/ f.q = -InfQ)
    BY <1>3 DEF Infinity
  <2> QED BY <2>1, Bounds
<1> QED BY <1>1, <1>2, <1>3 DEF Floats

LEMMA IntIs ==
  ASSUME NEW v \in Words
  PROVE  /\ IntOf(v).tag = "int" /\ IntOf(v).kind = "finite"
         /\ IntOf(v).q = v * One /\ v * One \in Int /\ WordOf(IntOf(v)) = v
         /\ -InfQ < v * One /\ v * One < InfQ
<1>1. v \in Int /\ -Half <= v /\ v < Half /\ Half \in Nat
  BY WordsAre, HalfType
<1>2. (-Half) * One <= v * One /\ v * One <= Half * One /\ (-Half) * One = -(Half * One)
  BY <1>1, Bounds, TimesMonotone
<1>3. v * One \in Int
  BY <1>1, Bounds
<1>4. IntOf(v).tag = "int" /\ IntOf(v).kind = "finite" /\ IntOf(v).q = v * One
  BY DEF IntOf
<1> QED BY <1>1, <1>2, <1>3, <1>4, Bounds, WordOfInt

\* A float cut off at the point: the whole number next to it on the side of zero.
LEMMA Truncated ==
  ASSUME NEW q \in Int, NEW t, t = CDiv(q, One)
  PROVE  /\ t \in Int /\ t * One \in Int
         /\ q >= 0 => t >= 0 /\ t * One <= q /\ q < t * One + One
         /\ q < 0 => t <= 0 /\ t * One - One < q /\ q <= t * One
<1> DEFINE n == One
<1>0. n \in Nat \ {0}
  BY Bounds
<1> HIDE DEF n
<1>1. CASE q >= 0
  <2>1. t = q \div n
    BY <1>0, <1>1, CDivUp DEF n
  <2>2. t \in Nat /\ n * t <= q /\ q < n * t + n /\ n * t = t * n /\ n * t \in Int
    BY <1>0, <1>1, <2>1, QuotientNat, QuotientFacts
  <2> QED BY <1>1, <2>2 DEF n
<1>2. CASE q < 0
  <2> DEFINE u == (-q) \div n
  <2>1. t = -u
    BY <1>0, <1>2, CDivDown DEF n
  <2>2. u \in Nat /\ n * u <= -q /\ -q < n * u + n
    <3>1. -q \in Nat /\ -q \in Int
      BY <1>2
    <3> QED BY <1>0, <3>1, QuotientNat, QuotientFacts
  <2> HIDE DEF u
  <2>3. t * n = -(n * u) /\ n * u \in Int
    BY <1>0, <2>1, <2>2
  <2> QED BY <1>0, <1>2, <2>1, <2>2, <2>3 DEF n
<1> QED BY <1>1, <1>2

\* The float is in the range of the words exactly if it is cut off to a word.
LEMMA InWordRangeIs ==
  ASSUME NEW f \in Floats, f.kind = "finite"
  PROVE  InWordRange(f) <=> (-Half) * One <= f.q /\ f.q < Half * One
<1>1. MaxWord + 1 = Half /\ MinWord = -Half
  BY HalfType DEF MaxWord, MinWord
<1>2. f.q \in Int /\ (-Half) * One \in Int /\ Half * One \in Int
  <2>1. (-Half) * One \in Int
    BY HalfType, Bounds
  <2> QED BY <2>1, FloatIs, Bounds
<1> QED BY <1>1, <1>2 DEF InWordRange

LEMMA WordOfFloat ==
  ASSUME NEW f \in Floats, InWordRange(f)
  PROVE  WordOf(f) \in Words /\ Magnitude(WordOf(f)) * One \in Quanta
<1> DEFINE t == WordOf(f)
           q == f.q
           n == One
<1>0. f.kind = "finite" /\ q \in Int /\ Magnitude(q) \in Quanta /\ n \in Nat \ {0} /\ Half \in Nat
      /\ FracBits \in Nat /\ Precision \in Nat /\ ExpMax \in Nat
  BY FloatIs, Bounds, HalfType, NumberAssumption DEF InWordRange
<1>1. /\ t \in Int /\ t * n \in Int
      /\ q >= 0 => t >= 0 /\ t * n <= q /\ q < t * n + n
      /\ q < 0 => t <= 0 /\ t * n - n < q /\ q <= t * n
  <2>1. t = CDiv(q, One)
    BY DEF WordOf
  <2> HIDE DEF t, q
  <2> QED BY <1>0, <2>1, Truncated
<1>2. (-Half) * n <= q /\ q < Half * n
  BY <1>0, InWordRangeIs
<1>3. TwoTo(FracBits) = n
  BY DEF One
<1> HIDE DEF t, q, n
<1>4. t \in Words
  <2>1. -Half <= t
    <3> SUFFICES ASSUME t < -Half PROVE FALSE
      BY <1>0, <1>1
    <3>1. (t + 1) * n <= (-Half) * n /\ (t + 1) * n = t * n + n
      BY <1>0, <1>1, TimesMonotone
    <3>2. (-Half) * n \in Int
      BY <1>0
    <3>3. t * n < (-Half) * n
      BY <1>0, <1>1, TimesStrict
    <3> QED BY <1>0, <1>1, <1>2, <3>1, <3>2, <3>3
  <2>2. t < Half
    <3> SUFFICES ASSUME Half <= t PROVE FALSE
      BY <1>0, <1>1
    <3>1. Half * n <= t * n
      BY <1>0, <1>1, TimesMonotone
    <3>2. Half * n \in Int
      BY <1>0
    <3> QED BY <1>0, <1>1, <1>2, <3>1, <3>2
  <2> QED BY <1>1, <2>1, <2>2, WordsAre
<1> DEFINE a == Magnitude(q)
           u == Magnitude(t)
<1>5. u \in Nat /\ a \in Nat /\ u * n <= a /\ a < u * n + n /\ u * n \in Nat
  <2>1. u \in Nat /\ a \in Nat /\ (t < 0 => u = -t) /\ (t >= 0 => u = t) /\ (q < 0 => a = -q) /\ (q >= 0 => a = q)
    BY <1>0, <1>1 DEF Magnitude
  <2>2. (-t) * n = -(t * n) /\ (t = 0 => t * n = 0)
    BY <1>0, <1>1
  <2>3. u * n \in Nat
    BY <1>0, <2>1
  <2> HIDE DEF u, a
  <2> QED BY <1>0, <1>1, <2>1, <2>2, <2>3
<1>6. PICK m \in 0..(TwoTo(Precision) - 1), e \in 0..ExpMax : a = m * TwoTo(e)
  BY <1>0 DEF Quanta
<1> DEFINE p == TwoTo(e)
<1>7. e \in Nat /\ p \in Nat \ {0} /\ m \in Nat /\ TwoTo(Precision) \in Nat
  BY <1>0, <1>6, TwoType
<1> HIDE DEF a, u
<1>8. CASE e >= FracBits
  <2>1. e - FracBits \in Nat /\ e = FracBits + (e - FracBits)
    BY <1>0, <1>7, <1>8
  <2> DEFINE y == TwoTo(e - FracBits)
  <2>2. p = n * y /\ y \in Nat
    BY <1>0, <1>3, <2>1, TwoSum, TwoType
  <2> HIDE DEF y
  <2>3. a = (m * y) * n /\ m * y \in Nat
    BY <1>0, <1>6, <1>7, <2>2
  <2> DEFINE z == m * y
  <2> HIDE DEF z
  <2>4. u = z
    <3>0. a = z * n /\ z \in Nat /\ n * z = z * n /\ n * u = u * n
      BY <1>0, <1>5, <2>3 DEF z
    <3>1. a \div n = z
      BY <1>0, <1>5, <3>0, QuotientIs
    <3>2. a \div n = u
      BY <1>0, <1>5, <3>0, QuotientIs
    <3> QED BY <3>1, <3>2
  <2>5. u * n = a
    BY <2>3, <2>4 DEF z
  <2> QED BY <1>0, <1>4, <2>5 DEF a, t, u, n
<1>9. CASE e < FracBits
  <2>1. FracBits - e \in Nat /\ FracBits = e + (FracBits - e)
    BY <1>0, <1>7, <1>9
  <2> DEFINE y == TwoTo(FracBits - e)
  <2>2. n = p * y /\ y \in Nat
    BY <1>3, <1>7, <2>1, TwoSum, TwoType
  <2> HIDE DEF y
  <2>3. u * n = (u * y) * p /\ u * y \in Nat
    BY <1>5, <1>7, <2>2
  <2> DEFINE z == u * y
  <2> HIDE DEF z
  <2>4. z * p <= m * p
    BY <1>5, <1>6, <2>3 DEF z
  <2>5. z <= m
    BY <1>7, <2>3, <2>4, TimesCancel DEF z
  <2>6. z \in 0..(TwoTo(Precision) - 1)
    BY <1>6, <1>7, <2>3, <2>5 DEF z
  <2>7. u * n = z * TwoTo(e)
    BY <2>3 DEF z
  <2>8. u * n \in Quanta
    BY <2>6, <2>7 DEF Quanta
  <2> QED BY <1>4, <2>8 DEF u, t, n
<1>10. e >= FracBits \/ e < FracBits
  BY <1>0, <1>7
<1> QED BY <1>8, <1>9, <1>10

\* No digit is lost when the machine asks whether a float is whole.
LEMMA IsWholeIs ==
  ASSUME NEW f \in Floats
  PROVE  IsWhole(f) <=> InWordRange(f) /\ f.q = WordOf(f) * One
<1>1. CASE ~InWordRange(f)
  BY <1>1 DEF IsWhole
<1>2. CASE InWordRange(f)
  <2>1. f.kind = "finite"
    BY <1>2 DEF InWordRange
  <2>2. ToDouble(WordOf(f)) = FloatOf(WordOf(f) * One, WordOf(f) < 0)
    BY <1>2, WordOfFloat, ToDoubleExact
  <2>3. FloatOf(WordOf(f) * One, WordOf(f) < 0).q = WordOf(f) * One
    BY DEF FloatOf
  <2>4. FloatOf(WordOf(f) * One, WordOf(f) < 0).kind = "finite"
    BY DEF FloatOf
  <2>5. FloatEq(ToDouble(WordOf(f)), f) <=> WordOf(f) * One = f.q
    BY <2>1, <2>2, <2>3, <2>4 DEF FloatEq
  <2> QED BY <1>2, <2>5 DEF IsWhole
<1> QED BY <1>1, <1>2

LEMMA CrossExact ==
  ASSUME NEW v \in Words, NEW f \in Floats
  PROVE  CrossEquals(IntOf(v), f) <=> FloatEq(IntOf(v), f)
<1>0. /\ IntOf(v).kind = "finite" /\ IntOf(v).q = v * One /\ v * One \in Int /\ WordOf(IntOf(v)) = v
      /\ -InfQ < v * One /\ v * One < InfQ /\ v \in Int
  BY IntIs, WordsAre
<1>1. ASSUME CrossEquals(IntOf(v), f) PROVE FloatEq(IntOf(v), f)
  <2>1. InWordRange(f) /\ f.q = WordOf(f) * One /\ WordOf(f) = v
    BY <1>0, <1>1, IsWholeIs DEF CrossEquals
  <2>2. f.kind = "finite"
    BY <2>1 DEF InWordRange
  <2> QED BY <1>0, <2>1, <2>2 DEF FloatEq
<1>2. ASSUME FloatEq(IntOf(v), f) PROVE CrossEquals(IntOf(v), f)
  <2>1. f.kind # "nan" /\ f.q = v * One
    BY <1>0, <1>2 DEF FloatEq
  <2>2. f.kind = "finite"
    BY <1>0, <2>1, FloatIs
  <2>3. WordOf(f) = v
    <3>1. WordOf(f) = WordOf(IntOf(v))
      BY <1>0, <2>1 DEF WordOf
    <3> QED BY <1>0, <3>1
  <2>4. InWordRange(f)
    <3>1. -Half <= v /\ v < Half /\ Half \in Nat /\ One \in Nat \ {0}
      BY WordsAre, HalfType, Bounds
    <3>2. (-Half) * One <= v * One /\ v * One < Half * One
      BY <1>0, <3>1, TimesMonotone, TimesStrict
    <3> QED BY <2>1, <2>2, <3>2, InWordRangeIs
  <2> QED BY <1>0, <2>1, <2>3, <2>4, IsWholeIs DEF CrossEquals
<1> QED BY <1>1, <1>2

\* The order of two numbers, in units.
OrderOf(a, b) ==
  IF a.kind = "nan" \/ b.kind = "nan" THEN Unordered
  ELSE IF a.q < b.q THEN -1 ELSE IF a.q > b.q THEN 1 ELSE 0

LEMMA CompareIntFloatExact ==
  ASSUME NEW v \in Words, NEW f \in Floats
  PROVE  CompareIntFloat(v, f) = OrderOf(IntOf(v), f)
<1> DEFINE t == WordOf(f)
           q == f.q
           n == One
<1>0. /\ IntOf(v).kind = "finite" /\ IntOf(v).q = v * n /\ v * n \in Int
      /\ -InfQ < v * n /\ v * n < InfQ /\ v \in Int /\ n \in Nat \ {0} /\ q \in Int /\ InfQ \in Nat
      /\ -Half <= v /\ v < Half /\ Half \in Nat
  BY IntIs, WordsAre, Bounds, FloatIs, HalfType
<1>1. CASE f.kind = "nan"
  BY <1>1 DEF CompareIntFloat, OrderOf
<1>2. CASE f.kind = "inf"
  <2>1. CompareIntFloat(v, f) = IF q > 0 THEN -1 ELSE 1
    BY <1>2 DEF CompareIntFloat
  <2>2. q = InfQ \/ q = -InfQ
    BY <1>2, FloatIs
  <2>3. OrderOf(IntOf(v), f) = IF v * n < q THEN -1 ELSE IF v * n > q THEN 1 ELSE 0
    BY <1>0, <1>2 DEF OrderOf
  <2> HIDE DEF q, n
  <2> QED BY <1>0, <2>1, <2>2, <2>3
<1>3. CASE f.kind = "finite"
  <2>0. OrderOf(IntOf(v), f) = IF v * n < q THEN -1 ELSE IF v * n > q THEN 1 ELSE 0
    BY <1>0, <1>3 DEF OrderOf
  <2>1. MaxWord + 1 = Half /\ MinWord = -Half
    BY HalfType DEF MaxWord, MinWord
  <2>2. v * n < Half * n /\ (-Half) * n <= v * n /\ Half * n \in Int /\ (-Half) * n \in Int
        /\ (-Half) * n <= Half * n
    <3>1. -Half \in Int /\ Half \in Int /\ -Half <= Half
      BY <1>0
    <3> HIDE DEF n
    <3> QED BY <1>0, <3>1, TimesStrict, TimesMonotone
  <2>3. CASE q >= Half * n
    <3>1. CompareIntFloat(v, f) = -1
      <4>1. ~(q < (-Half) * n)
        BY <1>0, <2>2, <2>3
      <4> QED BY <1>3, <2>1, <2>3, <4>1 DEF CompareIntFloat
    <3> HIDE DEF q, n
    <3> QED BY <1>0, <2>0, <2>2, <2>3, <3>1
  <2>4. CASE q < (-Half) * n
    <3>1. CompareIntFloat(v, f) = 1
      <4>1. ~(q >= Half * n)
        BY <1>0, <2>2, <2>4
      <4> QED BY <1>3, <2>1, <2>4, <4>1 DEF CompareIntFloat
    <3> HIDE DEF q, n
    <3> QED BY <1>0, <2>0, <2>2, <2>4, <3>1
  <2>5. CASE ~(q >= Half * n) /\ ~(q < (-Half) * n)
    <3>1. InWordRange(f)
      BY <1>0, <1>3, <2>2, <2>5, InWordRangeIs
    <3>2. FloatEq(ToDouble(t), f) <=> q = t * n
      BY <3>1, IsWholeIs DEF IsWhole
    <3>3. CompareIntFloat(v, f) =
            IF v # t THEN Sign(v - t) ELSE IF FloatEq(ToDouble(t), f) THEN 0 ELSE IF q > 0 THEN -1 ELSE 1
      BY <1>3, <2>1, <2>5 DEF CompareIntFloat
    <3>4. /\ t \in Int /\ t * n \in Int
          /\ q >= 0 => t >= 0 /\ t * n <= q /\ q < t * n + n
          /\ q < 0 => t <= 0 /\ t * n - n < q /\ q <= t * n
      <4>1. t = CDiv(q, One)
        BY DEF WordOf
      <4> HIDE DEF t, q
      <4> QED BY <1>0, <4>1, Truncated
    <3> HIDE DEF t, q, n
    <3>5. CASE v < t
      <4>1. (v + 1) * n <= t * n /\ (v + 1) * n = v * n + n
        BY <1>0, <3>4, <3>5, TimesMonotone
      <4>2. v - t < 0 /\ v # t
        BY <1>0, <3>4, <3>5
      <4>3. v * n < q
        BY <1>0, <3>4, <4>1
      <4> QED BY <2>0, <3>3, <4>2, <4>3 DEF Sign
    <3>6. CASE v > t
      <4>1. (t + 1) * n <= v * n /\ (t + 1) * n = t * n + n
        BY <1>0, <3>4, <3>6, TimesMonotone
      <4>2. v - t > 0 /\ ~(v - t < 0) /\ v # t
        BY <1>0, <3>4, <3>6
      <4>3. v * n > q /\ ~(v * n < q)
        BY <1>0, <3>4, <4>1
      <4> QED BY <2>0, <3>3, <4>2, <4>3 DEF Sign
    <3>7. CASE v = t
      BY <1>0, <2>0, <3>2, <3>3, <3>4, <3>7
    <3> QED BY <1>0, <3>4, <3>5, <3>6, <3>7
  <2> QED BY <2>3, <2>4, <2>5
<1> QED BY <1>1, <1>2, <1>3, FloatIs

\* Comparison is the order of the numbers, whatever their types.
LEMMA CompareExact ==
  ASSUME NEW a \in Numbers, NEW b \in Numbers
  PROVE  Compare(a, b) = OrderOf(a, b)
<1>1. ASSUME NEW v \in Words, NEW w \in Words PROVE Compare(IntOf(v), IntOf(w)) = OrderOf(IntOf(v), IntOf(w))
  <2>1. /\ IntOf(v).tag = "int" /\ IntOf(v).kind = "finite" /\ IntOf(v).q = v * One /\ WordOf(IntOf(v)) = v
        /\ IntOf(w).tag = "int" /\ IntOf(w).kind = "finite" /\ IntOf(w).q = w * One /\ WordOf(IntOf(w)) = w
        /\ v \in Int /\ w \in Int /\ v * One \in Int /\ w * One \in Int /\ One \in Nat \ {0}
    BY IntIs, WordsAre, Bounds
  <2>2. Compare(IntOf(v), IntOf(w)) = Sign(v - w)
    BY <2>1 DEF Compare
  <2>3. OrderOf(IntOf(v), IntOf(w)) = IF v * One < w * One THEN -1 ELSE IF v * One > w * One THEN 1 ELSE 0
    BY <2>1 DEF OrderOf
  <2>4. /\ v < w => v * One < w * One
        /\ v > w => w * One < v * One
    BY <2>1, TimesStrict
  <2> QED BY <2>1, <2>2, <2>3, <2>4 DEF Sign
<1>2. ASSUME NEW v \in Words, NEW f \in Floats
      PROVE  Compare(IntOf(v), f) = OrderOf(IntOf(v), f) /\ Compare(f, IntOf(v)) = OrderOf(f, IntOf(v))
  <2>1. /\ IntOf(v).tag = "int" /\ IntOf(v).kind = "finite" /\ IntOf(v).q \in Int /\ WordOf(IntOf(v)) = v
        /\ f.tag = "float" /\ f.q \in Int
    BY IntIs, FloatIs
  <2> DEFINE order == CompareIntFloat(v, f)
  <2>2. order = OrderOf(IntOf(v), f)
    BY CompareIntFloatExact
  <2>3. Compare(IntOf(v), f) = order
    BY <2>1 DEF Compare
  <2>4. Compare(f, IntOf(v)) = IF order = Unordered THEN order ELSE -order
    BY <2>1 DEF Compare
  <2>5. (IF order = Unordered THEN order ELSE -order) = OrderOf(f, IntOf(v))
    <3> HIDE DEF order
    <3> QED BY <2>1, <2>2 DEF OrderOf, Unordered
  <2> QED BY <2>2, <2>3, <2>4, <2>5
<1>3. ASSUME NEW f \in Floats, NEW g \in Floats PROVE Compare(f, g) = OrderOf(f, g)
  <2>1. f.tag = "float" /\ f.q \in Int /\ g.tag = "float" /\ g.q \in Int
    BY FloatIs
  <2> QED BY <2>1 DEF Compare, OrderOf, FloatLt, FloatEq
<1>4. (\E v \in Words : a = IntOf(v)) \/ a \in Floats
  BY DEF Numbers, Ints
<1>5. (\E v \in Words : b = IntOf(v)) \/ b \in Floats
  BY DEF Numbers, Ints
<1> QED BY <1>1, <1>2, <1>3, <1>4, <1>5

----------------------------------------------------------------------------
(* One operand, and constants folded.                                        *)

LEMMA Answers ==
  ASSUME NEW n, NEW w
  PROVE  Gives(n).ok /\ Gives(n).value = n /\ ~Raises(w).ok /\ Gives(n) # Raises(w)
BY DEF Gives, Raises

LEMMA NumberIs ==
  ASSUME NEW n \in Numbers
  PROVE  /\ n.tag \in {"int", "float"} /\ n.q \in Int
         /\ n.tag = "int" => WordOf(n) \in Words /\ n = IntOf(WordOf(n))
         /\ n.tag = "float" => n \in Floats
<1>1. CASE n \in Floats
  BY <1>1, FloatIs
<1>2. CASE \E v \in Words : n = IntOf(v)
  BY <1>2, IntIs
<1> QED BY <1>1, <1>2 DEF Numbers, Ints

LEMMA NegateIsExact ==
  ASSUME NEW n \in Numbers, n.tag = "int"
  PROVE  GivesExactly(-WordOf(n), UnaryOp("NEG", n))
<1> DEFINE v == WordOf(n)
<1>1. v \in Words /\ v \in Int /\ -Half <= v /\ v < Half /\ Half \in Nat
  BY NumberIs, WordsAre, HalfType
<1>2. UnaryOp("NEG", n) = Negation(v)
  BY DEF UnaryOp, WordUnaryOp
<1> HIDE DEF v
<1>3. -v \in Words <=> v # MinWord
  BY <1>1, WordsAre DEF MinWord
<1> QED BY <1>2, <1>3 DEF GivesExactly, Negation, v

LEMMA AbsIsExact ==
  ASSUME NEW n \in Numbers, n.tag = "int"
  PROVE  IF WordOf(n) = MinWord THEN ~UnaryOp("abs", n).ok
         ELSE UnaryOp("abs", n).value = IntOf(Magnitude(WordOf(n)))
<1> DEFINE v == WordOf(n)
<1>1. v \in Int /\ MinWord \in Int /\ MinWord < 0
  <2>1. v \in Words
    BY NumberIs
  <2>2. MinWord \in Int /\ MinWord < 0
    BY HalfType DEF MinWord
  <2> QED BY <2>1, <2>2, WordsAre
<1>2. UnaryOp("abs", n) = WordUnaryOp("abs", v)
  BY DEF UnaryOp
<1> HIDE DEF v
<1>3. WordUnaryOp("abs", v) = IF v >= 0 THEN Gives(IntOf(v))
                              ELSE IF v = MinWord THEN Raises("abs() overflow") ELSE Gives(IntOf(-v))
  BY DEF WordUnaryOp
<1>4. CASE v = MinWord
  <2>0. ~(v >= 0)
    BY <1>1, <1>4
  <2>1. UnaryOp("abs", n) = Raises("abs() overflow")
    BY <1>2, <1>3, <1>4, <2>0
  <2> QED BY <1>4, <2>1, Answers DEF v
<1>5. CASE v # MinWord
  <2>1. UnaryOp("abs", n) = Gives(IntOf(Magnitude(v)))
    BY <1>1, <1>2, <1>3, <1>5 DEF Magnitude
  <2>2. UnaryOp("abs", n).value = IntOf(Magnitude(v))
    BY <2>1, Answers
  <2> QED BY <1>5, <2>2 DEF v
<1> QED BY <1>4, <1>5

\* A float beyond the words is a whole number, so that none is cut off to a word.
LEMMA BeyondWords ==
  ASSUME NEW f \in Floats, f.kind = "finite", f.q < (-Half) * One
  PROVE  f.q <= (-Half) * One - One
<1> DEFINE q == f.q
           n == One
           h == Half
<1>0. /\ q \in Int /\ Magnitude(q) \in Quanta /\ n \in Nat \ {0} /\ h \in Nat \ {0} /\ (-h) * n \in Int
      /\ FracBits \in Nat /\ Precision \in Nat /\ ExpMax \in Nat /\ WordBits - 1 \in Nat /\ Precision <= WordBits
  <2>1. q \in Int /\ Magnitude(q) \in Quanta /\ n \in Nat \ {0} /\ h \in Nat \ {0}
    BY FloatIs, Bounds, HalfType
  <2> HIDE DEF q, n, h
  <2> QED BY <2>1, NumberAssumption
<1>1. PICK m \in 0..(TwoTo(Precision) - 1), e \in 0..ExpMax : Magnitude(q) = m * TwoTo(e)
  BY <1>0 DEF Quanta
<1> DEFINE p == TwoTo(e)
<1>2. e \in Nat /\ p \in Nat \ {0} /\ m \in Nat /\ m < TwoTo(Precision) /\ TwoTo(Precision) \in Nat
  BY <1>0, <1>1, TwoType
<1>3. q = -(m * p) /\ q < (-h) * n /\ (-h) * n = -(h * n) /\ h * n \in Nat
  <2>1. (-h) * n = -(h * n) /\ h * n \in Nat
    BY <1>0
  <2>2. q < 0
    BY <1>0, <2>1
  <2>3. Magnitude(q) = -q
    BY <2>2 DEF Magnitude
  <2> QED BY <1>0, <1>1, <2>1, <2>3
<1>4. TwoTo(FracBits) = n /\ TwoTo(WordBits - 1) = h
  BY DEF One, Half
<1>5. e >= FracBits
  <2> SUFFICES ASSUME e < FracBits PROVE FALSE
    BY <1>0, <1>2
  <2>1. Precision + e <= WordBits - 1 + FracBits /\ Precision + e \in Nat /\ WordBits - 1 + FracBits \in Nat
    BY <1>0, <1>2, NumberAssumption
  <2>2. TwoTo(Precision) * p = TwoTo(Precision + e) /\ h * n = TwoTo(WordBits - 1 + FracBits)
    BY <1>0, <1>2, <1>4, TwoSum
  <2>3. TwoTo(Precision + e) <= TwoTo(WordBits - 1 + FracBits)
    BY <2>1, TwoMonotone
  <2>4. m * p <= TwoTo(Precision) * p
    BY <1>2, TimesMonotone
  <2> HIDE DEF p, q, h, n
  <2>5. m * p \in Nat /\ TwoTo(Precision) * p \in Nat
    BY <1>2
  <2> QED BY <1>0, <1>3, <2>2, <2>3, <2>4, <2>5
<1>6. e - FracBits \in Nat /\ e = FracBits + (e - FracBits)
  BY <1>0, <1>2, <1>5
<1> DEFINE y == TwoTo(e - FracBits)
<1>7. p = n * y /\ y \in Nat
  BY <1>0, <1>4, <1>6, TwoSum, TwoType
<1> HIDE DEF p, q, h, n, y
<1> DEFINE z == m * y
<1>8. m * p = z * n /\ z \in Nat
  BY <1>0, <1>2, <1>7
<1> HIDE DEF z
<1>9. z > h
  <2> SUFFICES ASSUME z <= h PROVE FALSE
    BY <1>0, <1>8
  <2>1. z * n <= h * n
    BY <1>0, <1>8, TimesMonotone
  <2>2. z * n \in Nat
    BY <1>0, <1>8
  <2> QED BY <1>0, <1>3, <1>8, <2>1, <2>2
<1>10. (h + 1) * n <= z * n /\ (h + 1) * n = h * n + n /\ z * n \in Nat
  BY <1>0, <1>8, <1>9, TimesMonotone
<1>11. q <= (-h) * n - n
  BY <1>0, <1>3, <1>8, <1>10
<1> QED BY <1>11 DEF q, h, n

LEMMA IntIsExact ==
  ASSUME NEW f \in Floats
  PROVE  Converts(f, UnaryOp("int", f))
<1> DEFINE t == WordOf(f)
           q == f.q
           n == One
<1>0. f.tag = "float" /\ q \in Int /\ n \in Nat \ {0} /\ Half \in Nat
  BY FloatIs, Bounds, HalfType
<1>1. UnaryOp("int", f) = IF InWordRange(f) THEN Gives(IntOf(t)) ELSE Raises("cannot convert float to int")
  BY <1>0 DEF UnaryOp, FloatUnaryOp
<1>2. CASE InWordRange(f)
  <2>1. /\ t \in Int /\ t * n \in Int
        /\ q >= 0 => t >= 0 /\ t * n <= q /\ q < t * n + n
        /\ q < 0 => t <= 0 /\ t * n - n < q /\ q <= t * n
    <3>1. t = CDiv(q, One)
      BY DEF WordOf
    <3> HIDE DEF t, q
    <3> QED BY <1>0, <3>1, Truncated
  <2>2. t \in Words
    BY <1>2, WordOfFloat
  <2>3. Truncates(f, t)
    <3>1. Magnitude(t) = (IF t < 0 THEN -t ELSE t) /\ Magnitude(q) = IF q < 0 THEN -q ELSE q
      BY DEF Magnitude
    <3> HIDE DEF t, q, n
    <3>2. (-t) * n = -(t * n) /\ (t = 0 => t * n = 0)
      BY <1>0, <2>1
    <3>3. Magnitude(t) * n = IF t < 0 THEN -(t * n) ELSE t * n
      BY <3>1, <3>2
    <3>4. (Magnitude(t) + 1) * n = Magnitude(t) * n + n
      BY <1>0, <2>1, <3>1
    <3>5. Magnitude(t) * n <= Magnitude(q) /\ Magnitude(q) < (Magnitude(t) + 1) * n
      BY <1>0, <2>1, <3>1, <3>2, <3>3, <3>4
    <3>6. t # 0 => (t < 0) = (q < 0)
      BY <1>0, <2>1
    <3> QED BY <3>5, <3>6 DEF Truncates, q, n
  <2>4. UnaryOp("int", f).ok /\ WordOf(UnaryOp("int", f).value) = t
    <3>1. WordOf(IntOf(t)) = t
      BY <2>2, IntIs
    <3> QED BY <1>1, <1>2, <3>1, Answers
  <2>5. f.kind = "finite" /\ \E v \in Words : Truncates(f, v)
    BY <1>2, <2>2, <2>3 DEF InWordRange
  <2> QED BY <2>3, <2>4, <2>5 DEF Converts
<1>3. CASE ~InWordRange(f)
  <2>1. ~UnaryOp("int", f).ok
    BY <1>1, <1>3, Answers
  <2>2. ASSUME f.kind = "finite", NEW v \in Words, Truncates(f, v) PROVE FALSE
    <3> DEFINE a == Magnitude(q)
               u == Magnitude(v)
               h == Half
    <3>1. v \in Int /\ -h <= v /\ v < h /\ h \in Nat \ {0}
      BY WordsAre, HalfType
    <3>2. u * n <= a /\ a < (u + 1) * n /\ (v # 0 => (v < 0) = (q < 0))
      BY <2>2 DEF Truncates
    <3>3. u \in Nat /\ u = (IF v < 0 THEN -v ELSE v) /\ a \in Nat /\ a = IF q < 0 THEN -q ELSE q
      BY <1>0, <3>1 DEF Magnitude
    <3>4. q < (-h) * n \/ ~(q < h * n)
      <4>1. ~((-h) * n <= q /\ q < h * n)
        BY <1>3, <2>2, InWordRangeIs
      <4>2. (-h) * n \in Int
        BY <1>0, <3>1
      <4> QED BY <1>0, <4>1, <4>2
    <3>5. q < (-h) * n => q <= (-h) * n - n
      BY <2>2, BeyondWords
    <3>6. (-h) * n = -(h * n) /\ h * n \in Nat /\ (u + 1) * n \in Nat
      <4> HIDE DEF h, n, u
      <4> QED BY <1>0, <3>1, <3>3
    <3> HIDE DEF h, n, u, a, q
    <3>7. u < h => (u + 1) * n <= h * n
      BY <1>0, <3>1, <3>3, TimesMonotone
    <3>8. u <= h => (u + 1) * n <= (h + 1) * n
      BY <1>0, <3>1, <3>3, TimesMonotone
    <3>9. (h + 1) * n = h * n + n
      BY <1>0, <3>1
    <3>10. u <= h
      BY <3>1, <3>3
    <3>11. CASE q < (-h) * n
      BY <1>0, <3>2, <3>3, <3>5, <3>6, <3>8, <3>9, <3>10, <3>11
    <3>12. CASE ~(q < h * n)
      <4>1. q >= 0
        BY <1>0, <3>6, <3>12
      <4>2. v = 0 \/ ~(v < 0)
        BY <1>0, <3>2, <4>1
      <4>3. u < h
        BY <3>1, <3>3, <4>2
      <4> QED BY <1>0, <3>2, <3>3, <3>6, <3>7, <3>12, <4>1, <4>3
    <3> QED BY <3>4, <3>11, <3>12
  <2> QED BY <2>1, <2>2 DEF Converts
<1> QED BY <1>2, <1>3

LEMMA FoldBinaryAgrees ==
  ASSUME NEW o \in {"ADD", "SUB", "MUL"}, NEW l \in Words, NEW r \in Words
  PROVE  IF BinaryOp(o, l, r).ok THEN FoldBinary(o, l, r) = BinaryOp(o, l, r) ELSE ~FoldBinary(o, l, r).ok
<1>1. CASE o = "ADD"
  <2>1. FoldBinary(o, l, r) = IF AddOverflows(l, r) THEN NoFold ELSE Gives(IntOf(Wrap(l + r)))
    BY <1>1 DEF FoldBinary
  <2>2. BinaryOp(o, l, r) = IF AddOverflows(l, r) THEN Raises("integer overflow") ELSE Gives(IntOf(Wrap(l + r)))
    BY <1>1 DEF BinaryOp, IntBinaryOp
  <2> QED BY <2>1, <2>2, Answers DEF NoFold
<1>2. CASE o = "SUB"
  <2>1. FoldBinary(o, l, r) = IF SubOverflows(l, r) THEN NoFold ELSE Gives(IntOf(Wrap(l - r)))
    BY <1>2 DEF FoldBinary
  <2>2. BinaryOp(o, l, r) = IF SubOverflows(l, r) THEN Raises("integer overflow") ELSE Gives(IntOf(Wrap(l - r)))
    BY <1>2 DEF BinaryOp, IntBinaryOp
  <2> QED BY <2>1, <2>2, Answers DEF NoFold
<1>3. CASE o = "MUL"
  <2>1. FoldBinary(o, l, r) = IF FoldMulOverflows(l, r) THEN NoFold ELSE Gives(IntOf(Wrap(l * r)))
    BY <1>3 DEF FoldBinary
  <2>2. BinaryOp(o, l, r) = IF MulOverflows(l, r) THEN Raises("integer overflow") ELSE Gives(IntOf(Wrap(l * r)))
    BY <1>3 DEF BinaryOp, IntBinaryOp
  <2>3. FoldMulOverflows(l, r) <=> MulOverflows(l, r)
    BY MulExact, FoldMulExact
  <2> QED BY <2>1, <2>2, <2>3, Answers DEF NoFold
<1> QED BY <1>1, <1>2, <1>3

LEMMA FoldUnaryAgrees ==
  ASSUME NEW o \in {"PLUS", "NEG", "INVERT", "NOT"}, NEW n \in Numbers
  PROVE  IF UnaryOp(o, n).ok THEN FoldUnary(o, n) = UnaryOp(o, n) ELSE ~FoldUnary(o, n).ok
<1>1. CASE o = "NOT"
  BY <1>1, Answers DEF FoldUnary, UnaryOp
<1>2. CASE n.tag = "float"
  <2>1. o = "PLUS" => UnaryOp(o, n) = Gives(ZeroPlus(n)) /\ FoldUnary(o, n) = Gives(ZeroPlus(n))
    BY <1>2 DEF UnaryOp, FloatUnaryOp, FoldUnary
  <2>2. o = "NEG" => UnaryOp(o, n) = Gives(Flipped(n)) /\ FoldUnary(o, n) = Gives(Flipped(n))
    BY <1>2 DEF UnaryOp, FloatUnaryOp, FoldUnary
  <2>3. o = "INVERT" => UnaryOp(o, n) = Raises("unsupported unary operand") /\ FoldUnary(o, n) = Raises("not folded")
    BY <1>2 DEF UnaryOp, FloatUnaryOp, FoldUnary, NoFold
  <2> QED BY <1>1, <2>1, <2>2, <2>3, Answers
<1>3. CASE n.tag = "int"
  <2> DEFINE v == WordOf(n)
  <2>0. v \in Words /\ n = IntOf(v) /\ v \in Int
    BY <1>3, NumberIs, WordsAre
  <2>1. o = "PLUS" => UnaryOp(o, n) = Gives(n) /\ FoldUnary(o, n) = Gives(n)
    <3>1. 0 \in Words /\ 0 + v = v
      BY <2>0, WordsAre, HalfType
    <3>2. ~AddOverflows(0, v) /\ Wrap(0 + v) = v
      BY <2>0, <3>1, AddExact, WrapKeeps
    <3>3. BinaryOp("ADD", 0, v) = Gives(IntOf(v))
      BY <3>2 DEF BinaryOp
    <3>4. o = "PLUS" => UnaryOp(o, n) = BinaryOp("ADD", 0, v)
      BY <1>3 DEF UnaryOp, WordUnaryOp
    <3>5. o = "PLUS" => FoldUnary(o, n) = Gives(n)
      BY <1>3 DEF FoldUnary
    <3> QED BY <2>0, <3>3, <3>4, <3>5
  <2>2. o = "NEG" => /\ UnaryOp(o, n) = IF v # MinWord THEN Gives(IntOf(-v)) ELSE Raises("integer overflow")
                     /\ FoldUnary(o, n) = IF v = MinWord THEN Raises("not folded") ELSE Gives(IntOf(-v))
    BY <1>3 DEF UnaryOp, WordUnaryOp, Negation, FoldUnary, NoFold
  <2>3. o = "INVERT" => UnaryOp(o, n) = Gives(IntOf(-1 - v)) /\ FoldUnary(o, n) = Gives(IntOf(-1 - v))
    BY <1>3 DEF UnaryOp, WordUnaryOp, FoldUnary
  <2> HIDE DEF v
  <2> QED BY <1>1, <2>1, <2>2, <2>3, Answers
<1> QED BY <1>2, <1>3, NumberIs

----------------------------------------------------------------------------
(* Equality, hash and order.                                                 *)

\* Equality of values is equality of numbers, where both are numbers or both are not.
LEMMA NumbersEqual ==
  ASSUME NEW a \in Numbers, NEW b \in Numbers, NEW same \in BOOLEAN, same => a = b
  PROVE  ValueEquals(a, b, same) <=> FloatEq(a, b)
<1>0. a.tag \in {"int", "float"} /\ b.tag \in {"int", "float"}
  BY NumberIs
<1>1. CASE a.tag = "int" /\ b.tag = "int"
  <2>1. a.kind = "finite" /\ b.kind = "finite"
    BY <1>1, NumberIs, IntIs
  <2>2. FloatEq(a, b) <=> a.q = b.q
    BY <2>1 DEF FloatEq
  <2>3. CASE same
    BY <1>1, <2>2, <2>3 DEF ValueEquals
  <2>4. CASE ~same
    BY <1>1, <2>2, <2>4 DEF ValueEquals
  <2> QED BY <2>3, <2>4
<1>2. CASE a.tag = "float" /\ b.tag = "float"
  <2>1. CASE same
    BY <1>2, <2>1 DEF ValueEquals
  <2>2. CASE ~same
    BY <1>2, <2>2 DEF ValueEquals
  <2> QED BY <2>1, <2>2
<1>3. CASE a.tag = "int" /\ b.tag = "float"
  <2>1. a = IntOf(WordOf(a)) /\ WordOf(a) \in Words /\ b \in Floats
    BY <1>3, NumberIs
  <2>2. CrossEquals(a, b) <=> FloatEq(a, b)
    BY <2>1, CrossExact
  <2>3. ~same
    BY <1>3
  <2> QED BY <1>3, <2>2, <2>3 DEF ValueEquals
<1>4. CASE a.tag = "float" /\ b.tag = "int"
  <2>1. b = IntOf(WordOf(b)) /\ WordOf(b) \in Words /\ a \in Floats
    BY <1>4, NumberIs
  <2>2. CrossEquals(b, a) <=> FloatEq(b, a)
    BY <2>1, CrossExact
  <2>3. FloatEq(b, a) <=> FloatEq(a, b)
    BY DEF FloatEq
  <2>4. ~same
    BY <1>4
  <2> QED BY <1>4, <2>2, <2>3, <2>4 DEF ValueEquals
<1> QED BY <1>0, <1>1, <1>2, <1>3, <1>4

\* The floats one by one.
LEMMA FloatShape ==
  ASSUME NEW f \in Floats
  PROVE  \/ f = NaN \/ f = Infinity(FALSE) \/ f = Infinity(TRUE)
         \/ \E q \in Quanta : f = FloatOf(q, FALSE) \/ f = FloatOf(-q, TRUE)
BY DEF Floats

LEMMA FloatFields ==
  /\ NaN.kind = "nan" /\ Infinity(FALSE).kind = "inf" /\ Infinity(TRUE).kind = "inf"
  /\ Infinity(FALSE).q = InfQ /\ Infinity(TRUE).q = -InfQ
  /\ \A q \in Int : /\ FloatOf(q, FALSE).q = q /\ FloatOf(q, TRUE).q = q
                    /\ FloatOf(q, FALSE).kind = "finite" /\ FloatOf(q, TRUE).kind = "finite"
<1>1. NaN.kind = "nan"
  BY DEF NaN
<1>2. Infinity(FALSE).kind = "inf" /\ Infinity(FALSE).q = InfQ
  BY DEF Infinity
<1>3. Infinity(TRUE).kind = "inf" /\ Infinity(TRUE).q = -InfQ
  BY DEF Infinity
<1>4. ASSUME NEW q \in Int PROVE FloatOf(q, FALSE).q = q /\ FloatOf(q, FALSE).kind = "finite"
  BY DEF FloatOf
<1>5. ASSUME NEW q \in Int PROVE FloatOf(q, TRUE).q = q /\ FloatOf(q, TRUE).kind = "finite"
  BY DEF FloatOf
<1> QED BY <1>1, <1>2, <1>3, <1>4, <1>5

\* Two floats of one value are one, zeros apart, and zeros are whole.
LEMMA SameFloat ==
  ASSUME NEW f \in Floats, NEW g \in Floats, FloatEq(f, g), f.q # 0
  PROVE  f = g
<1>0. f.kind # "nan" /\ g.kind # "nan" /\ f.q = g.q /\ f.q \in Int
  BY FloatIs DEF FloatEq
<1>1. f.kind = g.kind
  BY <1>0, FloatIs, Bounds
<1>2. CASE f.kind = "inf"
  <2>0. InfQ \in Nat /\ InfQ # 0
    BY Bounds
  <2>1. ASSUME NEW h \in Floats, h.kind = "inf" PROVE h = Infinity(FALSE) \/ h = Infinity(TRUE)
    <3>1. ASSUME NEW q \in Quanta PROVE h # FloatOf(q, FALSE) /\ h # FloatOf(-q, TRUE)
      <4>1. q \in Int /\ -q \in Int
        BY Bounds
      <4> QED BY <2>1, <4>1, FloatFields
    <3>2. h # NaN
      BY <2>1, FloatFields
    <3> QED BY <3>1, <3>2, FloatShape
  <2>2. (f = Infinity(FALSE) \/ f = Infinity(TRUE)) /\ (g = Infinity(FALSE) \/ g = Infinity(TRUE))
    BY <1>1, <1>2, <2>1
  <2>3. InfQ # -InfQ
    BY <2>0
  <2>4. \A h : (h = Infinity(FALSE) => h.q = InfQ) /\ (h = Infinity(TRUE) => h.q = -InfQ)
    BY FloatFields, Zenon
  <2>5. CASE f = Infinity(FALSE)
    <3>1. f.q = InfQ
      BY <2>4, <2>5
    <3>2. g # Infinity(TRUE)
      BY <1>0, <2>3, <2>4, <3>1
    <3> QED BY <2>2, <2>5, <3>2
  <2>6. CASE f = Infinity(TRUE)
    <3>1. f.q = -InfQ
      BY <2>4, <2>6
    <3>2. g # Infinity(FALSE)
      BY <1>0, <2>3, <2>4, <3>1
    <3> QED BY <2>2, <2>6, <3>2
  <2> QED BY <2>2, <2>5, <2>6
<1>3. CASE f.kind = "finite"
  <2>1. ASSUME NEW h \in Floats, h.kind = "finite", h.q # 0
        PROVE  h = FloatOf(h.q, h.q < 0)
    <3>1. PICK p \in Quanta : h = FloatOf(p, FALSE) \/ h = FloatOf(-p, TRUE)
      BY <2>1, FloatShape, FloatFields
    <3>2. p \in Nat /\ p \in Int /\ -p \in Int
      BY Bounds
    <3>3. CASE h = FloatOf(p, FALSE)
      <4>1. h.q = p
        BY <3>2, <3>3, FloatFields
      <4>2. (h.q < 0) = FALSE
        BY <3>2, <4>1
      <4> QED BY <3>3, <4>1, <4>2
    <3>4. CASE h = FloatOf(-p, TRUE)
      <4>1. h.q = -p
        BY <3>2, <3>4, FloatFields
      <4>2. (h.q < 0) = TRUE
        BY <2>1, <3>2, <4>1
      <4> QED BY <3>4, <4>1, <4>2
    <3> QED BY <3>1, <3>3, <3>4
  <2>2. f = FloatOf(f.q, f.q < 0)
    BY <1>3, <2>1
  <2>3. g = FloatOf(g.q, g.q < 0)
    BY <1>0, <1>1, <1>3, <2>1
  <2> QED BY <1>0, <2>2, <2>3
<1> QED BY <1>0, <1>2, <1>3, FloatIs

LEMMA ZeroIsWhole ==
  ASSUME NEW f \in Floats, f.kind = "finite", f.q = 0
  PROVE  IsWhole(f)
<1>1. -Half \in Int /\ -Half <= 0 /\ 0 < Half /\ One \in Nat \ {0} /\ Half \in Nat
  BY HalfType, Bounds
<1>2. (-Half) * One <= 0 * One /\ 0 * One < Half * One /\ 0 * One = 0
  BY <1>1, TimesMonotone, TimesStrict
<1>3. InWordRange(f)
  BY <1>2, InWordRangeIs
<1>4. CDiv(0, One) = 0
  <2>1. CDiv(0, One) = 0 \div One
    BY <1>1, CDivUp
  <2>2. One * 0 + 0 = 0
    BY <1>1
  <2>3. (One * 0 + 0) \div One = 0
    BY <1>1, QuotientUnique
  <2> QED BY <2>1, <2>2, <2>3
<1>5. WordOf(f) * One = 0
  BY <1>2, <1>4 DEF WordOf
<1> QED BY <1>3, <1>5, IsWholeIs

LEMMA EqualHash ==
  ASSUME NEW a \in Numbers, NEW b \in Numbers, FloatEq(a, b)
  PROVE  HashOf(a) = HashOf(b)
<1>0. a.tag \in {"int", "float"} /\ b.tag \in {"int", "float"}
  BY NumberIs
<1>1. ASSUME NEW v \in Words, NEW f \in Floats, FloatEq(IntOf(v), f) PROVE HashOf(IntOf(v)) = HashOf(f)
  <2>1. IsWhole(f) /\ WordOf(f) = v
    <3>1. CrossEquals(IntOf(v), f)
      BY <1>1, CrossExact
    <3> QED BY <3>1, IntIs DEF CrossEquals
  <2>2. HashOf(f) = [word |-> TRUE, of |-> IntOf(v)]
    BY <2>1, FloatIs DEF HashOf
  <2>3. HashOf(IntOf(v)) = [word |-> TRUE, of |-> IntOf(v)]
    BY IntIs DEF HashOf
  <2> QED BY <2>2, <2>3
<1>2. CASE a.tag = "int" /\ b.tag = "int"
  <2>1. a = IntOf(WordOf(a)) /\ b = IntOf(WordOf(b)) /\ a.q = b.q
    BY <1>2, NumberIs DEF FloatEq
  <2>2. WordOf(a) = WordOf(b)
    BY <2>1 DEF WordOf
  <2> QED BY <2>1, <2>2
<1>3. CASE a.tag = "int" /\ b.tag = "float"
  BY <1>1, <1>3, NumberIs
<1>4. CASE a.tag = "float" /\ b.tag = "int"
  <2>1. FloatEq(b, a)
    BY DEF FloatEq
  <2> QED BY <1>1, <1>4, <2>1, NumberIs
<1>5. CASE a.tag = "float" /\ b.tag = "float"
  <2>0. a \in Floats /\ b \in Floats
    BY <1>5, NumberIs
  <2>1. CASE a.q # 0
    BY <2>0, <2>1, SameFloat
  <2>2. CASE a.q = 0
    <3>0. b.q = 0 /\ a.kind # "nan" /\ b.kind # "nan" /\ InfQ \in Nat /\ InfQ # 0
      BY <2>2, Bounds DEF FloatEq
    <3>1. a.kind = "finite" /\ b.kind = "finite" /\ b.q = 0
      BY <2>0, <2>2, <3>0, FloatIs
    <3>2. IsWhole(a) /\ IsWhole(b)
      BY <2>0, <2>2, <3>1, ZeroIsWhole
    <3>3. WordOf(a) = WordOf(b)
      BY <2>2, <3>1 DEF WordOf
    <3>4. HashOf(a) = [word |-> TRUE, of |-> IntOf(WordOf(a))] /\ HashOf(b) = [word |-> TRUE, of |-> IntOf(WordOf(b))]
      BY <1>5, <3>2 DEF HashOf
    <3> QED BY <3>3, <3>4
  <2> QED BY <2>1, <2>2
<1> QED BY <1>0, <1>2, <1>3, <1>4, <1>5

LEMMA BoolsApart ==
  ASSUME NEW x \in BOOLEAN, NEW y \in BOOLEAN
  PROVE  BoolOf(x) = BoolOf(y) <=> (x <=> y)
<1>1. BoolOf(x).q = (IF x THEN One ELSE 0) /\ BoolOf(y).q = IF y THEN One ELSE 0
  BY DEF BoolOf
<1>2. One # 0
  BY Bounds
<1>3. CASE x <=> y
  <2>1. x = y
    BY <1>3
  <2> QED BY <1>3, <2>1
<1>4. CASE ~(x <=> y)
  BY <1>1, <1>2, <1>4
<1> QED BY <1>3, <1>4

\* The code of a comparison, turned into an answer.
LEMMA ComparisonExact ==
  ASSUME NEW o \in Comparisons, NEW a \in Numbers, NEW b \in Numbers
  PROVE  ComparisonFromOrder(o, Compare(a, b)) <=> Holds(o, a, b)
<1>1. Compare(a, b) = OrderOf(a, b) /\ a.q \in Int /\ b.q \in Int
  BY CompareExact, NumberIs
<1>2. CASE a.kind = "nan" \/ b.kind = "nan"
  <2>1. Compare(a, b) = 2
    BY <1>1, <1>2 DEF OrderOf, Unordered
  <2> QED BY <1>2, <2>1 DEF ComparisonFromOrder, Holds, Comparisons, Same, Less, FloatEq, FloatLt
<1>3. CASE ~(a.kind = "nan" \/ b.kind = "nan")
  <2>1. Compare(a, b) = IF a.q < b.q THEN -1 ELSE IF a.q > b.q THEN 1 ELSE 0
    BY <1>1, <1>3 DEF OrderOf
  <2>2. (Same(a, b) <=> a.q = b.q) /\ (Less(a, b) <=> a.q < b.q) /\ (Less(b, a) <=> b.q < a.q)
    BY <1>3 DEF Same, Less, FloatEq, FloatLt
  <2> QED BY <1>1, <2>1, <2>2 DEF ComparisonFromOrder, Holds, Comparisons
<1> QED BY <1>2, <1>3


----------------------------------------------------------------------------
(* What the machine has when an operation is over.                           *)

Containers == {"range", "list", "dict", "unpack"}

\* An answer other than a container's is the one the operators give.
Answered(o, ns, result) ==
  \/ o \in BinaryOps /\ \E l, r \in Words : ns = <<IntOf(l), IntOf(r)>> /\ result = BinaryOp(o, l, r)
  \/ o \in UnaryOps /\ \E n \in Numbers : ns = <<n>> /\ result = UnaryOp(o, n)
  \/ o \in Comparisons /\ \E a, b \in Numbers :
       ns = <<a, b>> /\ result = Gives(BoolOf(ComparisonFromOrder(o, Compare(a, b))))
  \/ o = "key" /\ \E a, b \in Numbers, same \in BOOLEAN :
       (same => a = b) /\ ns = <<a, b>> /\ result = Gives(BoolOf(ValueEquals(a, b, same)))
  \/ o \in {"min", "max"} /\ \E n \in Nat : /\ ns \in [1..n -> Keys \cap Numbers]
                                            /\ n # 0 => result = Gives(Winner(o, ns))
  \/ o \in Containers

AnswerInv ==
  /\ at \in {"idle", "running", "done"}
  /\ at = "idle" => op = "none" /\ args = <<>> /\ box = NoContainer /\ todo = 0
  /\ at = "running" => op \in Containers
  /\ at = "done" => Answered(op, args, answer)

LEMMA AnswerInvInductive == Spec => []AnswerInv
<1>1. Init => AnswerInv
  BY DEF Init, AnswerInv
<1>2. AnswerInv /\ [Next]_vars => AnswerInv'
  <2> SUFFICES ASSUME AnswerInv, [Next]_vars PROVE AnswerInv'
    OBVIOUS
  <2>1. ASSUME NEW o, NEW ns, NEW result, Finished(o, ns, result), Answered(o, ns, result)
        PROVE  AnswerInv'
    BY <2>1 DEF AnswerInv, Finished
  <2>2. ASSUME NEW o \in Containers, NEW ns, NEW result, Finished(o, ns, result) PROVE AnswerInv'
    BY <2>1, <2>2 DEF Answered
  <2>3. ASSUME NEW o \in Containers, NEW ns, NEW b, NEW t, Begin(o, ns, b, t) PROVE AnswerInv'
    BY <2>3 DEF AnswerInv, Begin
  <2>4. ASSUME NEW o \in Containers, Running(o), at' \in {"running", "done"} PROVE AnswerInv'
    BY <2>4 DEF AnswerInv, Running, Answered
  <2>5. CASE Binary
    BY <2>1, <2>5 DEF Binary, Answered
  <2>6. CASE Unary
    BY <2>1, <2>6 DEF Unary, Answered
  <2>7. CASE Comparison
    BY <2>1, <2>7 DEF Comparison, Answered
  <2>8. CASE KeyComparison
    BY <2>1, <2>8 DEF KeyComparison, Answered
  <2>9. CASE Extreme
    <3>1. PICK o \in {"min", "max"}, n \in 0..3 : \E ns \in [1..n -> Keys \cap Numbers] :
            Finished(o, ns, IF n = 0 THEN Raises("arg is an empty sequence") ELSE Gives(Winner(o, ns)))
      BY <2>9 DEF Extreme
    <3>2. PICK ns \in [1..n -> Keys \cap Numbers] :
            Finished(o, ns, IF n = 0 THEN Raises("arg is an empty sequence") ELSE Gives(Winner(o, ns)))
      BY <3>1
    <3>3. n \in Nat
      OBVIOUS
    <3>4. Answered(o, ns, IF n = 0 THEN Raises("arg is an empty sequence") ELSE Gives(Winner(o, ns)))
      BY <3>3 DEF Answered
    <3> QED BY <2>1, <3>2, <3>4
  <2>10. CASE StartRange
    BY <2>2, <2>3, <2>10 DEF StartRange, Containers
  <2>11. CASE RangeItem \/ RangeEnd
    BY <2>4, <2>11 DEF RangeItem, RangeEnd, GivesUp, Completes, Running, Containers
  <2>12. CASE StartList \/ StartDict \/ StartUnpack
    BY <2>2, <2>3, <2>12 DEF StartList, StartDict, StartUnpack, Containers
  <2>13. CASE ListItem \/ ListEnd
    BY <2>4, <2>13 DEF ListItem, ListEnd, GivesUp, Completes, Running, Containers
  <2>14. CASE DictPair \/ DictEnd
    BY <2>4, <2>14 DEF DictPair, DictEnd, GivesUp, Completes, Running, Containers
  <2>15. CASE UnpackPlain \/ UnpackStar \/ UnpackEnd
    BY <2>4, <2>15 DEF UnpackPlain, UnpackStar, UnpackEnd, GivesUp, Completes, Running, Containers
  <2>16. CASE Take
    BY <2>16 DEF Take, AnswerInv
  <2>17. CASE UNCHANGED vars
    BY <2>17 DEF vars, AnswerInv
  <2> QED BY <2>5, <2>6, <2>7, <2>8, <2>9, <2>10, <2>11, <2>12, <2>13, <2>14, <2>15, <2>16, <2>17 DEF Next
<1> QED BY <1>1, <1>2, PTL DEF Spec

\* The operations are told apart by their names.
LEMMA AnswerOf ==
  ASSUME AnswerInv, at = "done"
  PROVE  /\ op \in BinaryOps => \E l, r \in Words : args = <<IntOf(l), IntOf(r)>> /\ answer = BinaryOp(op, l, r)
         /\ op \in UnaryOps => \E n \in Numbers : args = <<n>> /\ answer = UnaryOp(op, n)
         /\ op \in Comparisons => \E a, b \in Numbers :
              args = <<a, b>> /\ answer = Gives(BoolOf(ComparisonFromOrder(op, Compare(a, b))))
         /\ op = "key" => \E a, b \in Numbers, same \in BOOLEAN :
              (same => a = b) /\ args = <<a, b>> /\ answer = Gives(BoolOf(ValueEquals(a, b, same)))
         /\ op \in {"min", "max"} => \E n \in Nat : /\ args \in [1..n -> Keys \cap Numbers]
                                                    /\ n # 0 => answer = Gives(Winner(op, args))
BY DEF AnswerInv, Answered, BinaryOps, UnaryOps, Comparisons, Containers

(* Arithmetic on words gives the exact result when that is a word and raises    *)
(* the error that fits when it is not: no check of msVmBinaryOp, msVmUnaryOp,   *)
(* abs or int computes something that wraps, whatever the width of a word.      *)
THEOREM ArithmeticIsExact == Spec => []ArithmeticExact
<1>1. AnswerInv => ArithmeticExact
  <2> SUFFICES ASSUME AnswerInv, at = "done" PROVE ArithmeticExact
    BY DEF ArithmeticExact
  <2>1. op \in BinaryOps => BinaryExact(op, WordOf(args[1]), WordOf(args[2]), answer)
    <3> SUFFICES ASSUME op \in BinaryOps PROVE BinaryExact(op, WordOf(args[1]), WordOf(args[2]), answer)
      OBVIOUS
    <3>1. PICK l \in Words, r \in Words : args = <<IntOf(l), IntOf(r)>> /\ answer = BinaryOp(op, l, r)
      BY AnswerOf
    <3>2. args[1] = IntOf(l) /\ args[2] = IntOf(r)
      BY <3>1
    <3>3. WordOf(args[1]) = l /\ WordOf(args[2]) = r
      BY <3>2, IntIs
    <3> QED BY <3>1, <3>3, BinaryIsExact
  <2>2. op \in UnaryOps => args[1] \in Numbers /\ answer = UnaryOp(op, args[1])
    BY AnswerOf
  <2>3. op = "NEG" /\ args[1].tag = "int" => GivesExactly(-WordOf(args[1]), answer)
    BY <2>2, NegateIsExact DEF UnaryOps
  <2>4. op = "abs" /\ args[1].tag = "int" =>
          IF WordOf(args[1]) = MinWord THEN ~answer.ok ELSE answer.value = IntOf(Magnitude(WordOf(args[1])))
    BY <2>2, AbsIsExact DEF UnaryOps
  <2>5. op = "int" /\ args[1].tag = "float" => Converts(args[1], answer)
    BY <2>2, NumberIs, IntIsExact DEF UnaryOps
  <2> QED BY <2>1, <2>3, <2>4, <2>5 DEF ArithmeticExact
<1> QED BY <1>1, AnswerInvInductive, PTL

(* A constant expression folded by the compiler has the value, type and sign    *)
(* the machine would have computed, and is left alone when the machine raises.  *)
THEOREM FoldsAgree == Spec => []FoldAgrees
<1>1. AnswerInv => FoldAgrees
  <2> SUFFICES ASSUME AnswerInv, at = "done" PROVE FoldAgrees
    BY DEF FoldAgrees
  <2>1. ASSUME op \in {"ADD", "SUB", "MUL"}
        PROVE  IF answer.ok THEN FoldBinary(op, WordOf(args[1]), WordOf(args[2])) = answer
               ELSE ~FoldBinary(op, WordOf(args[1]), WordOf(args[2])).ok
    <3>1. PICK l \in Words, r \in Words : args = <<IntOf(l), IntOf(r)>> /\ answer = BinaryOp(op, l, r)
      BY <2>1, AnswerOf DEF BinaryOps
    <3>2. args[1] = IntOf(l) /\ args[2] = IntOf(r)
      BY <3>1
    <3>3. WordOf(args[1]) = l /\ WordOf(args[2]) = r
      BY <3>2, IntIs
    <3> QED BY <2>1, <3>1, <3>3, FoldBinaryAgrees
  <2>2. ASSUME op \in {"PLUS", "NEG", "INVERT", "NOT"}
        PROVE  IF answer.ok THEN FoldUnary(op, args[1]) = answer ELSE ~FoldUnary(op, args[1]).ok
    <3>1. args[1] \in Numbers /\ answer = UnaryOp(op, args[1])
      BY <2>2, AnswerOf DEF UnaryOps
    <3> QED BY <2>2, <3>1, FoldUnaryAgrees
  <2> QED BY <2>1, <2>2 DEF FoldAgrees
<1> QED BY <1>1, AnswerInvInductive, PTL

(* Values that are equal as keys have one hash, and they are the ones == calls  *)
(* equal, whether or not the two operands are one object.                       *)
THEOREM EqualsHashAlike == Spec => []EqualHashAlike
<1>1. AnswerInv => EqualHashAlike
  <2> SUFFICES ASSUME AnswerInv, at = "done", op = "key" PROVE EqualHashAlike
    BY DEF EqualHashAlike
  <2>1. PICK a \in Numbers, b \in Numbers, same \in BOOLEAN :
          (same => a = b) /\ args = <<a, b>> /\ answer = Gives(BoolOf(ValueEquals(a, b, same)))
    BY AnswerOf
  <2>2. args[1] = a /\ args[2] = b
    BY <2>1
  <2>3. answer.value = BoolOf(ValueEquals(a, b, same))
    BY <2>1, Answers
  <2>4. ValueEquals(a, b, same) <=> FloatEq(a, b)
    BY <2>1, NumbersEqual
  <2>5. Compare(a, b) = 0 <=> FloatEq(a, b)
    <3>1. Compare(a, b) = OrderOf(a, b) /\ a.q \in Int /\ b.q \in Int
      BY CompareExact, NumberIs
    <3> QED BY <3>1 DEF OrderOf, FloatEq, Unordered
  <2> DEFINE equal == ValueEquals(a, b, same)
             zero  == Compare(a, b) = 0
             eq    == FloatEq(a, b)
  <2>6. equal \in BOOLEAN /\ zero \in BOOLEAN /\ eq \in BOOLEAN
    BY DEF ValueEquals, FloatEq, CrossEquals, IsWhole, InWordRange
  <2>7. equal = zero /\ (equal <=> eq)
    BY <2>4, <2>5, <2>6
  <2>8. answer.value = BoolOf(Compare(args[1], args[2]) = 0)
    BY <2>2, <2>3, <2>7
  <2>9. answer.value = BoolOf(TRUE) => HashOf(args[1]) = HashOf(args[2])
    <3>1. ASSUME answer.value = BoolOf(TRUE) PROVE eq
      <4>1. BoolOf(equal) = BoolOf(TRUE)
        BY <2>3, <3>1
      <4> HIDE DEF equal, eq
      <4>2. equal <=> TRUE
        BY <2>6, <4>1, BoolsApart
      <4> QED BY <2>7, <4>2
    <3> QED BY <2>2, <3>1, EqualHash
  <2> QED BY <2>8, <2>9 DEF EqualHashAlike
<1> QED BY <1>1, AnswerInvInductive, PTL


----------------------------------------------------------------------------
(* min and max.                                                              *)

LEMMA WinsIsBeats ==
  ASSUME NEW o \in {"min", "max"}, NEW a \in Numbers, NEW b \in Numbers
  PROVE  Wins(o, Compare(a, b)) <=> Beats(o, b, a)
<1>1. Compare(a, b) = OrderOf(a, b) /\ a.q \in Int /\ b.q \in Int
  BY CompareExact, NumberIs
<1>2. CASE a.kind = "nan" \/ b.kind = "nan"
  <2>1. Compare(a, b) = 2
    BY <1>1, <1>2 DEF OrderOf, Unordered
  <2> QED BY <1>2, <2>1 DEF Wins, Unordered, Beats, Less, FloatLt
<1>3. CASE ~(a.kind = "nan" \/ b.kind = "nan")
  <2>1. Compare(a, b) = IF a.q < b.q THEN -1 ELSE IF a.q > b.q THEN 1 ELSE 0
    BY <1>1, <1>3 DEF OrderOf
  <2>2. (Less(a, b) <=> a.q < b.q) /\ (Less(b, a) <=> b.q < a.q)
    BY <1>3 DEF Less, FloatLt
  <2> QED BY <1>1, <2>1, <2>2 DEF Wins, Unordered, Beats
<1> QED BY <1>2, <1>3

\* What the first k operands leave as the winner w.
Leads(o, ns, k, w) ==
  /\ \E j \in 1..k : w = ns[j] /\ \A i \in 1..j - 1 : ~Same(ns[i], w)
  /\ w.kind = "nan" <=> ns[1].kind = "nan"
  /\ ns[1].kind # "nan" => \A i \in 1..k : ~Beats(o, ns[i], w)

LEMMA LeadsOn ==
  ASSUME NEW o \in {"min", "max"}, NEW n \in Nat, NEW ns \in [1..n -> Numbers],
         NEW k \in 1..n - 1, NEW w \in Numbers, Leads(o, ns, k, w)
  PROVE  Leads(o, ns, k + 1, IF Beats(o, ns[k + 1], w) THEN ns[k + 1] ELSE w)
<1>0. /\ k \in 1..n /\ k + 1 \in 1..n /\ 1 \in 1..n /\ 1..k \subseteq 1..n
      /\ 1..k + 1 = 1..k \cup {k + 1} /\ k + 1 - 1 = k
  OBVIOUS
<1>1. \A i \in 1..n : ns[i] \in Numbers /\ ns[i].q \in Int
  BY NumberIs
<1>2. w.q \in Int
  BY NumberIs
<1>3. CASE Beats(o, ns[k + 1], w)
  <2> DEFINE x == ns[k + 1]
  <2>1. w.kind # "nan" /\ x.kind # "nan" /\ x.q \in Int /\ ns[1].kind # "nan"
    BY <1>0, <1>1, <1>3 DEF Beats, Less, FloatLt, Leads
  <2>2. \A i \in 1..k : ~Beats(o, ns[i], w)
    BY <2>1 DEF Leads
  <2>3. \A i \in 1..k : ns[i].q \in Int
    BY <1>0, <1>1
  <2> HIDE DEF x
  <2>4. Beats(o, x, w)
    BY <1>3 DEF x
  <2>5. \A i \in 1..k : ~Same(ns[i], x)
    BY <1>2, <2>1, <2>2, <2>3, <2>4 DEF Beats, Same, Less, FloatEq, FloatLt
  <2>6. \A i \in 1..k : ~Beats(o, ns[i], x)
    BY <1>2, <2>1, <2>2, <2>3, <2>4 DEF Beats, Less, FloatLt
  <2>7. ~Beats(o, x, x)
    BY <2>1 DEF Beats, Less, FloatLt
  <2>8. x = ns[k + 1]
    BY DEF x
  <2>9. \A i \in 1..k + 1 : ~Beats(o, ns[i], x)
    BY <1>0, <2>6, <2>7, <2>8
  <2>10. Leads(o, ns, k + 1, x)
    BY <1>0, <2>1, <2>5, <2>8, <2>9 DEF Leads
  <2> QED BY <1>3, <2>8, <2>10
<1>4. CASE ~Beats(o, ns[k + 1], w)
  <2>1. PICK j \in 1..k : w = ns[j] /\ \A i \in 1..j - 1 : ~Same(ns[i], w)
    BY DEF Leads
  <2>2. j \in 1..k + 1
    BY <1>0
  <2>3. ns[1].kind # "nan" => \A i \in 1..k + 1 : ~Beats(o, ns[i], w)
    BY <1>0, <1>4 DEF Leads
  <2>4. Leads(o, ns, k + 1, w)
    BY <2>1, <2>2, <2>3 DEF Leads
  <2> QED BY <1>4, <2>4
<1> QED BY <1>3, <1>4

LEMMA WinnerLeads ==
  ASSUME NEW o \in {"min", "max"}, NEW n \in Nat \ {0}, NEW ns \in [1..n -> Numbers]
  PROVE  Leads(o, ns, n, Winner(o, ns))
<1> DEFINE Body(f) == [i \in 1..n |-> IF i = 1 THEN ns[1]
                         ELSE IF Wins(o, Compare(f[i - 1], ns[i])) THEN ns[i] ELSE f[i - 1]]
           best == CHOOSE f : f = Body(f)
           m    == n - 1
           step == [k \in 1..m |-> [x \in Numbers |-> IF Wins(o, Compare(x, ns[k + 1])) THEN ns[k + 1] ELSE x]]
           T    == {k \in 0..m : best[k + 1] \in Numbers /\ Leads(o, ns, k + 1, best[k + 1])}
<1>0. m \in Nat /\ ns[1] \in Numbers /\ \A k \in 1..m : k + 1 \in 1..n /\ ns[k + 1] \in Numbers
  OBVIOUS
<1>1. step \in [1..m -> [Numbers -> Numbers]]
  BY <1>0
<1>2. PICK p : Rounds(p, m, ns[1], step, Numbers)
  BY <1>0, <1>1, RoundsExist
<1>3. p \in [0..m -> Numbers] /\ p[0] = ns[1] /\ \A k \in 1..m : p[k] = step[k][p[k - 1]]
  BY <1>2 DEF Rounds
<1> DEFINE q == [i \in 1..n |-> p[i - 1]]
<1>4. q = Body(q)
  <2>1. ASSUME NEW i \in 1..n PROVE q[i] = IF i = 1 THEN ns[1]
                         ELSE IF Wins(o, Compare(q[i - 1], ns[i])) THEN ns[i] ELSE q[i - 1]
    <3>1. CASE i = 1
      BY <1>3, <3>1
    <3>2. CASE i # 1
      <4>1. i - 1 \in 1..m /\ i - 1 \in 1..n /\ i - 1 + 1 = i /\ i - 1 - 1 \in 0..m
        BY <3>2
      <4>2. p[i - 1] = step[i - 1][p[i - 1 - 1]] /\ p[i - 1 - 1] \in Numbers
        BY <1>3, <4>1
      <4>3. q[i] = p[i - 1] /\ q[i - 1] = p[i - 1 - 1]
        BY <4>1
      <4> QED BY <3>2, <4>1, <4>2, <4>3
    <3> QED BY <3>1, <3>2
  <2> HIDE DEF q
  <2>2. q = [i \in 1..n |-> q[i]]
    BY DEF q
  <2> QED BY <2>1, <2>2
<1>5. Winner(o, ns) = best[n]
  <2>1. Len(ns) = n
    OBVIOUS
  <2> QED BY <2>1 DEF Winner
<1> HIDE DEF Body, q
<1>6. best = Body(best)
  BY <1>4
<1> HIDE DEF best
<1>7. ASSUME NEW k \in 1..m
      PROVE  best[k + 1] = IF Wins(o, Compare(best[k], ns[k + 1])) THEN ns[k + 1] ELSE best[k]
  <2>1. k + 1 \in 1..n /\ k + 1 # 1 /\ k + 1 - 1 = k
    OBVIOUS
  <2>2. best[k + 1] = Body(best)[k + 1]
    BY <1>6
  <2> QED BY <2>1, <2>2 DEF Body
<1>8. 0 \in T
  <2>1. best[1] = Body(best)[1]
    BY <1>6
  <2>2. best[1] = ns[1]
    BY <2>1 DEF Body
  <2>3. ~Beats(o, ns[1], ns[1])
    BY <1>0, NumberIs DEF Beats, Less, FloatLt
  <2>4. Leads(o, ns, 1, ns[1])
    BY <2>3 DEF Leads
  <2>5. 0 + 1 = 1 /\ 0 \in 0..m
    BY <1>0
  <2> QED BY <1>0, <2>2, <2>4, <2>5
<1>9. ASSUME NEW k \in 0..m - 1, k \in T PROVE k + 1 \in T
  <2> DEFINE c == k + 1
  <2>1. c \in 1..m /\ c \in 1..n - 1 /\ best[c] \in Numbers /\ Leads(o, ns, c, best[c]) /\ ns[c + 1] \in Numbers
    BY <1>0, <1>9
  <2> HIDE DEF c
  <2>2. best[c + 1] = IF Beats(o, ns[c + 1], best[c]) THEN ns[c + 1] ELSE best[c]
    BY <1>7, <2>1, WinsIsBeats
  <2>3. Leads(o, ns, c + 1, best[c + 1]) /\ best[c + 1] \in Numbers
    BY <2>1, <2>2, LeadsOn
  <2> QED BY <2>1, <2>3 DEF c
<1> HIDE DEF T
<1>10. \A k \in 0..m : k \in T
  BY <1>0, <1>8, <1>9, UptoInduces
<1>11. Leads(o, ns, m + 1, best[m + 1])
  BY <1>0, <1>10 DEF T
<1> QED BY <1>5, <1>11

\* The least place of the winner is no later than the one it took the lead at.
LEMMA LeaderIsExtreme ==
  ASSUME NEW o \in {"min", "max"}, NEW n \in Nat \ {0}, NEW ns \in [1..n -> Numbers], NEW w, Leads(o, ns, n, w)
  PROVE  IsExtreme(o, ns, w)
<1> DEFINE first == CHOOSE i \in DOMAIN ns : ns[i] = w /\ \A j \in DOMAIN ns : ns[j] = w => i <= j
           T     == {i \in 1..n : ns[i] = w}
<1>1. PICK k \in 1..n : w = ns[k] /\ \A i \in 1..k - 1 : ~Same(ns[i], w)
  BY DEF Leads
<1>2. DOMAIN ns = 1..n
  OBVIOUS
<1>3. PICK c \in T : \A j \in T : c <= j
  <2>1. T \subseteq Nat /\ T # {}
    BY <1>1
  <2> HIDE DEF T
  <2> QED BY <2>1, NatLeast
<1>4. first \in DOMAIN ns /\ ns[first] = w /\ \A j \in DOMAIN ns : ns[j] = w => first <= j
  BY <1>2, <1>3
<1> HIDE DEF first
<1>5. first \in 1..n /\ first <= k
  BY <1>1, <1>2, <1>4
<1>6. 1..(first - 1) \subseteq 1..k - 1
  BY <1>5
<1>7. \A i \in 1..(first - 1) : ~Same(ns[i], w)
  BY <1>1, <1>6
<1>8. \E i \in DOMAIN ns : ns[i] = w
  BY <1>1, <1>2
<1>9. /\ w.kind = "nan" => ns[1].kind = "nan"
      /\ ns[1].kind # "nan" => \A i \in DOMAIN ns : ~Beats(o, ns[i], w)
  BY <1>2 DEF Leads
<1> QED BY <1>7, <1>8, <1>9 DEF IsExtreme, first

(* Comparisons of numbers are those of the numbers they stand for, ints with    *)
(* floats included and without rounding; with NaN only != holds.  min and max   *)
(* follow that order whatever the number of operands, and NaN displaces no      *)
(* number.                                                                      *)
THEOREM OrderIsExact == Spec => []OrderExact
<1>1. AnswerInv => OrderExact
  <2> SUFFICES ASSUME AnswerInv, at = "done" PROVE OrderExact
    BY DEF OrderExact
  <2>1. ASSUME op \in Comparisons PROVE answer.value = BoolOf(Holds(op, args[1], args[2]))
    <3>1. PICK a \in Numbers, b \in Numbers :
            args = <<a, b>> /\ answer = Gives(BoolOf(ComparisonFromOrder(op, Compare(a, b))))
      BY <2>1, AnswerOf
    <3>2. args[1] = a /\ args[2] = b
      BY <3>1
    <3>3. answer.value = BoolOf(ComparisonFromOrder(op, Compare(a, b)))
      BY <3>1, Answers
    <3>4. ComparisonFromOrder(op, Compare(a, b)) <=> Holds(op, a, b)
      BY <2>1, ComparisonExact
    <3>5. ComparisonFromOrder(op, Compare(a, b)) \in BOOLEAN /\ Holds(op, a, b) \in BOOLEAN
      BY <2>1 DEF Comparisons, ComparisonFromOrder, Holds, Same, Less, FloatEq, FloatLt
    <3>6. ComparisonFromOrder(op, Compare(a, b)) = Holds(op, a, b)
      BY <3>4, <3>5
    <3> QED BY <3>2, <3>3, <3>6
  <2>2. ASSUME op \in {"min", "max"}, args # <<>> PROVE IsExtreme(op, args, answer.value)
    <3>1. PICK n \in Nat : args \in [1..n -> Keys \cap Numbers] /\ (n # 0 => answer = Gives(Winner(op, args)))
      BY <2>2, AnswerOf
    <3>2. n # 0
      <4>1. ASSUME n = 0 PROVE FALSE
        <5>1. 1..n = {}
          BY <4>1
        <5> QED BY <2>2, <3>1, <5>1
      <4> QED BY <4>1
    <3>3. args \in [1..n -> Numbers]
      BY <3>1
    <3>4. answer.value = Winner(op, args)
      BY <3>1, <3>2, Answers
    <3> QED BY <2>2, <3>2, <3>3, <3>4, WinnerLeads, LeaderIsExtreme
  <2> QED BY <2>1, <2>2 DEF OrderExact
<1> QED BY <1>1, AnswerInvInductive, PTL


----------------------------------------------------------------------------
(* Unpacking.                                                                *)

\* The first m numbers, and b numbers from a on.
First(m)  == [i \in 1..m |-> i - 1]
Next_(a, b) == [j \in 1..b |-> a + j - 1]

LEMMA NextSeq ==
  ASSUME NEW a \in Int, NEW b \in Nat
  PROVE  Next_(a, b) \in Seq(Int)
BY DEF Next_

LEMMA FirstAndNext ==
  ASSUME NEW a \in Nat, NEW b \in Nat
  PROVE  First(a) \o Next_(a, b) = First(a + b)
<1> DEFINE s == First(a)
           t == Next_(a, b)
           u == First(a + b)
<1>1. s \in Seq(Int) /\ t \in Seq(Int) /\ u \in Seq(Int) /\ Len(s) = a /\ Len(t) = b /\ Len(u) = a + b
  BY DEF First, Next_
<1>2. /\ \A i \in 1..a : s[i] = i - 1
      /\ \A j \in 1..b : t[j] = a + j - 1
      /\ \A i \in 1..a + b : u[i] = i - 1
  BY DEF First, Next_
<1> HIDE DEF s, t, u
<1>3. /\ s \o t \in Seq(Int) /\ Len(s \o t) = a + b
      /\ \A i \in 1..a + b : (s \o t)[i] = IF i <= a THEN s[i] ELSE t[i - a]
  BY <1>1, ConcatProperties
<1>4. ASSUME NEW i \in 1..a + b PROVE (s \o t)[i] = u[i]
  <2>1. CASE i <= a
    <3>1. i \in 1..a /\ (s \o t)[i] = s[i]
      BY <1>3, <2>1
    <3> QED BY <1>2, <3>1
  <2>2. CASE ~(i <= a)
    <3>1. i - a \in 1..b
      BY <2>2
    <3>2. (s \o t)[i] = t[i - a]
      BY <1>3, <2>2
    <3>3. t[i - a] = a + (i - a) - 1
      BY <1>2, <3>1
    <3>4. u[i] = i - 1
      BY <1>2
    <3> QED BY <3>2, <3>3, <3>4
  <2> QED BY <2>1, <2>2
<1>5. s \o t = u
  BY <1>1, <1>3, <1>4, SeqEqual
<1> QED BY <1>5 DEF s, t, u

LEMMA FlatIs ==
  ASSUME NEW n \in Nat, NEW ss, Len(ss) = n, NEW off \in [0..n -> Nat], off[0] = 0,
         \A k \in 1..n : First(off[k - 1]) \o ss[k] = First(off[k])
  PROVE  Flat(ss) = First(off[n])
<1> DEFINE Body(f) == [i \in 0..n |-> IF i = 0 THEN <<>> ELSE f[i - 1] \o ss[i]]
           g == CHOOSE f : f = Body(f)
           q == [i \in 0..n |-> First(off[i])]
           T == {i \in 0..n : g[i] = First(off[i])}
<1>0. First(0) = <<>>
  BY DEF First
<1>1. q = Body(q)
  <2>1. ASSUME NEW i \in 0..n PROVE q[i] = IF i = 0 THEN <<>> ELSE q[i - 1] \o ss[i]
    <3>1. CASE i = 0
      BY <1>0, <3>1
    <3>2. CASE i # 0
      <4>1. i \in 1..n /\ i - 1 \in 0..n
        BY <3>2
      <4> QED BY <3>2, <4>1
    <3> QED BY <3>1, <3>2
  <2> HIDE DEF q
  <2>2. q = [i \in 0..n |-> q[i]]
    BY DEF q
  <2> QED BY <2>1, <2>2
<1>2. Flat(ss) = g[n]
  BY DEF Flat
<1> HIDE DEF Body, q
<1>3. g = Body(g)
  BY <1>1
<1> HIDE DEF g
<1>4. g[0] = <<>> /\ \A k \in 1..n : g[k] = g[k - 1] \o ss[k]
  <2>1. \A i \in 0..n : Body(g)[i] = IF i = 0 THEN <<>> ELSE g[i - 1] \o ss[i]
    BY Zenon DEF Body
  <2>2. \A i \in 0..n : g[i] = IF i = 0 THEN <<>> ELSE g[i - 1] \o ss[i]
    BY <1>3, <2>1, Zenon
  <2>3. 0 \in 0..n /\ \A k \in 1..n : k \in 0..n /\ k # 0
    OBVIOUS
  <2> QED BY <2>2, <2>3, Zenon
<1>5. 0 \in T
  BY <1>0, <1>4
<1>6. ASSUME NEW k \in 0..n - 1, k \in T PROVE k + 1 \in T
  <2> DEFINE c == k + 1
  <2>1. c \in 1..n /\ c \in 0..n /\ c - 1 = k /\ g[k] = First(off[k])
    BY <1>6
  <2> HIDE DEF c
  <2>2. g[c] = g[c - 1] \o ss[c] /\ First(off[c - 1]) \o ss[c] = First(off[c])
    BY <1>4, <2>1, Zenon
  <2>3. g[c] = First(off[c])
    BY <2>1, <2>2
  <2> QED BY <2>1, <2>3 DEF c
<1> HIDE DEF T
<1>7. \A k \in 0..n : k \in T
  BY <1>5, <1>6, UptoInduces
<1> QED BY <1>2, <1>7 DEF T

\* An item that has room is put last.
LEMMA PutInRoom ==
  ASSUME NEW s, NEW cap, NEW want, NEW x, NEW granted, Len(s) < cap
  PROVE  Put([items |-> s, cap |-> cap, want |-> want], x, granted)
           = [ok |-> TRUE, box |-> [items |-> Append(s, x), cap |-> cap, want |-> want]]
<1> DEFINE c == [items |-> s, cap |-> cap, want |-> want]
           u == [c EXCEPT !.cap = cap, !.items = Append(@, x)]
           v == [items |-> Append(s, x), cap |-> cap, want |-> want]
<1>1. DOMAIN c = {"items", "cap", "want"} /\ c.items = s /\ c.cap = cap /\ c.want = want
  OBVIOUS
<1>2. u = [k \in DOMAIN c |-> IF k = "items" THEN Append(s, x) ELSE IF k = "cap" THEN cap ELSE c[k]]
  BY <1>1
<1>3. v = [k \in {"items", "cap", "want"} |-> IF k = "items" THEN Append(s, x) ELSE IF k = "cap" THEN cap ELSE c[k]]
  BY <1>1
<1>4. u = v
  BY <1>1, <1>2, <1>3
<1> HIDE DEF c, v
<1>5. Room(c, granted) = [ok |-> TRUE, cap |-> cap]
  BY <1>1 DEF Room
<1>6. Room(c, granted).ok /\ Room(c, granted).cap = cap
  BY <1>5
<1>7. Put(c, x, granted) = [ok |-> TRUE, box |-> u]
  BY <1>6, Zenon DEF Put
<1> QED BY <1>4, <1>7 DEF c, v

\* The operands of an unpacking that begins.
Unpackable ==
  /\ Length \in Nat /\ Count \in Nat \ {0} /\ Star \in {NoStar} \cup 0..(Count - 1)
  /\ IF Star = NoStar THEN Length = Count ELSE Length >= Count - 1

\* The list of the starred target.
LEMMA MiddleIs ==
  ASSUME Unpackable, Star # NoStar, NEW granted \in BOOLEAN
  PROVE  MiddleLength \in Nat /\ Middle(granted).ok /\ Middle(granted).box.items = Next_(Star, MiddleLength)
<1> DEFINE M == MiddleLength
           Shape(j) == [ok |-> TRUE, box |-> [items |-> Next_(Star, j), cap |-> M, want |-> M]]
           Body(f) == [j \in 0..M |->
                         IF j = 0 THEN [ok |-> TRUE, box |-> NewContainer(MiddleLength, MiddleLength)]
                         ELSE IF f[j - 1].ok THEN Put(f[j - 1].box, Star + j - 1, granted) ELSE f[j - 1]]
           g == CHOOSE f : f = Body(f)
           q == [j \in 0..M |-> Shape(j)]
           T == {j \in 0..M : g[j] = Shape(j)}
<1>0. M \in Nat /\ Star \in Nat
  BY DEF Unpackable, MiddleLength, NoStar
<1>1. Middle(granted) = g[M]
  BY DEF Middle
<1> HIDE DEF M
<1>2. Shape(0) = [ok |-> TRUE, box |-> NewContainer(MiddleLength, MiddleLength)]
  <2>1. Next_(Star, 0) = <<>>
    BY DEF Next_
  <2> QED BY <2>1 DEF NewContainer, M
<1>3. ASSUME NEW j \in 1..M PROVE Put(Shape(j - 1).box, Star + j - 1, granted) = Shape(j)
  <2> DEFINE s == Next_(Star, j - 1)
             c == [items |-> s, cap |-> M, want |-> M]
  <2>1. s \in Seq(Int) /\ Len(s) = j - 1 /\ \A i \in 1..j - 1 : s[i] = Star + i - 1
    BY <1>0 DEF Next_
  <2>2. Append(s, Star + j - 1) = Next_(Star, j)
    <3> DEFINE t == Next_(Star, j)
    <3>1. t \in Seq(Int) /\ Len(t) = j /\ \A i \in 1..j : t[i] = Star + i - 1
      BY <1>0 DEF Next_
    <3> HIDE DEF s, t
    <3>2. Star + j - 1 \in Int /\ Append(s, Star + j - 1) \in Seq(Int) /\ Len(Append(s, Star + j - 1)) = j
      BY <1>0, <2>1
    <3>3. ASSUME NEW i \in 1..j PROVE Append(s, Star + j - 1)[i] = t[i]
      <4>1. CASE i = j
        BY <1>0, <2>1, <3>1, <3>2, <4>1
      <4>2. CASE i # j
        <5>1. i \in 1..j - 1 /\ Append(s, Star + j - 1)[i] = s[i]
          BY <1>0, <2>1, <3>2, <4>2
        <5> QED BY <2>1, <3>1, <5>1
      <4> QED BY <4>1, <4>2
    <3>4. Append(s, Star + j - 1) = t
      BY SMTT(20), <3>1, <3>2, <3>3
    <3> QED BY <3>4 DEF t
  <2>3. Shape(j - 1).box = c
    OBVIOUS
  <2> HIDE DEF s, M
  <2>4. Put(c, Star + j - 1, granted) = [ok |-> TRUE, box |-> [items |-> Append(s, Star + j - 1), cap |-> M, want |-> M]]
    <3>1. Len(s) < M
      BY <1>0, <2>1
    <3> DEFINE x == Star + j - 1
    <3> HIDE DEF x
    <3>2. Put([items |-> s, cap |-> M, want |-> M], x, granted)
            = [ok |-> TRUE, box |-> [items |-> Append(s, x), cap |-> M, want |-> M]]
      BY <3>1, PutInRoom
    <3> QED BY <3>2 DEF x
  <2> QED BY <2>2, <2>3, <2>4
<1>4. q = Body(q)
  <2>1. ASSUME NEW j \in 0..M
        PROVE  q[j] = IF j = 0 THEN [ok |-> TRUE, box |-> NewContainer(MiddleLength, MiddleLength)]
                      ELSE IF q[j - 1].ok THEN Put(q[j - 1].box, Star + j - 1, granted) ELSE q[j - 1]
    <3>1. CASE j = 0
      BY <1>2, <3>1
    <3>2. CASE j # 0
      <4>1. j \in 1..M /\ j - 1 \in 0..M
        BY <1>0, <3>2
      <4>2. q[j] = Shape(j) /\ q[j - 1] = Shape(j - 1) /\ q[j - 1].ok
        BY <4>1
      <4> HIDE DEF q, Shape
      <4> QED BY <1>3, <3>2, <4>1, <4>2
    <3> QED BY <3>1, <3>2
  <2> HIDE DEF q
  <2>2. q = [j \in 0..M |-> q[j]]
    BY DEF q
  <2> QED BY <2>1, <2>2
<1> HIDE DEF Body, q
<1>5. g = Body(g)
  BY <1>4
<1> HIDE DEF g
<1>6. 0 \in T
  <2>1. g[0] = Body(g)[0]
    BY <1>5
  <2> QED BY <1>0, <1>2, <2>1 DEF Body
<1>7. ASSUME NEW k \in 0..M - 1, k \in T PROVE k + 1 \in T
  <2>1. k + 1 \in 1..M /\ k + 1 - 1 = k /\ k + 1 # 0 /\ k + 1 \in 0..M
    BY <1>0
  <2>2. g[k] = Shape(k) /\ g[k].ok
    BY <1>7
  <2>3. g[k + 1] = Body(g)[k + 1]
    BY <1>5
  <2>4. g[k + 1] = IF g[k].ok THEN Put(g[k].box, Star + (k + 1) - 1, granted) ELSE g[k]
    BY <2>1, <2>3 DEF Body
  <2> HIDE DEF Shape
  <2>5. g[k + 1] = Shape(k + 1)
    BY <1>3, <2>1, <2>2, <2>4
  <2> QED BY <2>1, <2>5
<1> HIDE DEF T
<1>8. \A k \in 0..M : k \in T
  BY <1>0, <1>6, <1>7, UptoInduces
<1>9. g[M] = Shape(M)
  BY <1>0, <1>8 DEF T
<1>10. Shape(M).ok /\ Shape(M).box.items = Next_(Star, M)
  OBVIOUS
<1> QED BY <1>0, <1>1, <1>9, <1>10 DEF M


\* What a step that leaves a container behind can have been.
LEMMA ContainerSteps ==
  ASSUME [Next]_vars, at' # "idle"
  PROVE  /\ op' = "range" => StartRange \/ RangeItem \/ RangeEnd \/ UNCHANGED vars
         /\ op' = "dict" => StartDict \/ DictPair \/ DictEnd \/ UNCHANGED vars
         /\ op' = "unpack" => StartUnpack \/ UnpackPlain \/ UnpackStar \/ UnpackEnd \/ UNCHANGED vars
<1>1. CASE Binary \/ Unary \/ Comparison \/ KeyComparison \/ Extreme
  <2>1. op' \in BinaryOps \cup UnaryOps \cup Comparisons \cup {"key", "min", "max"}
    BY <1>1 DEF Binary, Unary, Comparison, KeyComparison, Extreme, Finished
  <2> QED BY <2>1 DEF BinaryOps, UnaryOps, Comparisons
<1>2. CASE StartRange \/ RangeItem \/ RangeEnd
  <2>1. op' = "range"
    BY <1>2 DEF StartRange, RangeItem, RangeEnd, Finished, Begin, Running
  <2> QED BY <1>2, <2>1
<1>3. CASE StartList \/ ListItem \/ ListEnd
  <2>1. op' = "list"
    BY <1>3 DEF StartList, ListItem, ListEnd, Finished, Begin, Running
  <2> QED BY <2>1
<1>4. CASE StartDict \/ DictPair \/ DictEnd
  <2>1. op' = "dict"
    BY <1>4 DEF StartDict, DictPair, DictEnd, Finished, Begin, Running
  <2> QED BY <1>4, <2>1
<1>5. CASE StartUnpack \/ UnpackPlain \/ UnpackStar \/ UnpackEnd
  <2>1. op' = "unpack"
    BY <1>5 DEF StartUnpack, UnpackPlain, UnpackStar, UnpackEnd, Finished, Begin, Running
  <2> QED BY <1>5, <2>1
<1>6. CASE Take
  BY <1>6 DEF Take
<1> QED BY <1>1, <1>2, <1>3, <1>4, <1>5, <1>6 DEF Next

\* The places a target takes its value from.
PartOf(i) == IF i - 1 = Star THEN Next_(Star, MiddleLength) ELSE <<SourceIndex(i - 1)>>

\* Each target done has its part.
UnpackInv ==
  op = "unpack" /\ (at = "running" \/ (at = "done" /\ answer.ok)) =>
    /\ Unpackable
    /\ DOMAIN box = {"items", "cap", "want"} /\ box.items \in Seq(Seq(Int))
    /\ todo \in 0..Count /\ Len(box.items) = todo
    /\ \A i \in 1..todo : box.items[i] = PartOf(i)
    /\ at = "done" => todo = Count

\* One more target.
LEMMA UnpackOn ==
  ASSUME UnpackInv, Running("unpack"), todo < Count, at' = at, todo' = todo + 1,
         box' = [box EXCEPT !.items = Append(@, PartOf(todo + 1))]
  PROVE  UnpackInv'
<1> DEFINE s == box.items
           x == PartOf(todo + 1)
<1>1. /\ at = "running" /\ op' = "unpack" /\ args' = args
      /\ Unpackable /\ DOMAIN box = {"items", "cap", "want"} /\ s \in Seq(Seq(Int))
      /\ todo \in 0..Count /\ Len(s) = todo /\ \A i \in 1..todo : s[i] = PartOf(i)
  BY DEF UnpackInv, Running
<1>2. Star' = Star /\ Count' = Count /\ Length' = Length
  BY <1>1 DEF Star, Count, Length
<1>3. Unpackable'
  BY <1>1, <1>2 DEF Unpackable
<1>4. ASSUME NEW i PROVE PartOf(i)' = PartOf(i)
  BY <1>2 DEF PartOf, Next_, SourceIndex, MiddleLength
<1>5. Length \in Int /\ Count \in Int /\ Star \in Int /\ todo \in Int
  BY <1>1 DEF Unpackable, NoStar
<1>6. x \in Seq(Int)
  <2>1. MiddleLength \in Int /\ SourceIndex((todo + 1) - 1) \in Int
    BY <1>5 DEF MiddleLength, SourceIndex
  <2>2. Next_(Star, MiddleLength) \in Seq(Int)
    <3>1. CASE Star = NoStar
      <4>1. MiddleLength = 0
        BY <3>1 DEF MiddleLength
      <4>2. Next_(Star, MiddleLength) = <<>>
        BY <4>1 DEF Next_
      <4> QED BY <4>2
    <3>2. CASE Star # NoStar
      <4>1. MiddleLength \in Nat
        BY <1>1, <1>5, <3>2 DEF MiddleLength, Unpackable
      <4> QED BY <1>5, <4>1, NextSeq
    <3> QED BY <3>1, <3>2
  <2>3. x = Next_(Star, MiddleLength) \/ x = <<SourceIndex((todo + 1) - 1)>>
    BY Zenon DEF PartOf
  <2>4. <<SourceIndex((todo + 1) - 1)>> \in Seq(Int)
    <3> DEFINE i == SourceIndex((todo + 1) - 1)
    <3>1. i \in Int
      BY <2>1
    <3> HIDE DEF i
    <3>2. <<i>> \in Seq(Int)
      BY <3>1
    <3> QED BY <3>2 DEF i
  <2> HIDE DEF x
  <2> QED BY <2>2, <2>3, <2>4
<1> HIDE DEF x
<1>7. box'.items = Append(s, x) /\ DOMAIN box' = {"items", "cap", "want"}
  <2> HIDE DEF s
  <2>1. box' = [box EXCEPT !.items = Append(box.items, x)]
    BY DEF x
  <2> QED BY <1>1, <2>1 DEF s
<1> HIDE DEF s
<1>8. /\ Append(s, x) \in Seq(Seq(Int)) /\ Len(Append(s, x)) = todo + 1
      /\ \A i \in 1..todo : Append(s, x)[i] = s[i]
      /\ Append(s, x)[todo + 1] = x
  BY <1>1, <1>6, AppendProperties
<1>9. ASSUME NEW i \in 1..todo + 1 PROVE Append(s, x)[i] = PartOf(i)
  <2>1. CASE i = todo + 1
    BY <1>8, <2>1 DEF x
  <2>2. CASE i # todo + 1
    <3>1. i \in 1..todo
      BY <1>5, <2>2
    <3> QED BY <1>1, <1>8, <3>1
  <2> QED BY <2>1, <2>2
<1>10. todo' \in 0..Count'
  BY <1>1, <1>2, <1>5
<1>11. \A i \in 1..todo' : box'.items[i] = PartOf(i)'
  BY <1>4, <1>7, <1>9
<1> QED BY <1>1, <1>3, <1>7, <1>8, <1>10, <1>11 DEF UnpackInv

LEMMA UnpackInvInductive == Spec => []UnpackInv
<1>1. Init => UnpackInv
  BY DEF Init, UnpackInv
<1>2. UnpackInv /\ [Next]_vars => UnpackInv'
  <2> SUFFICES ASSUME UnpackInv, [Next]_vars, op' = "unpack", at' = "running" \/ (at' = "done" /\ answer'.ok)
               PROVE  UnpackInv'
    BY DEF UnpackInv
  <2>0. StartUnpack \/ UnpackPlain \/ UnpackStar \/ UnpackEnd \/ UNCHANGED vars
    BY ContainerSteps
  <2>1. CASE StartUnpack
    <3>0. PICK length \in 0..MaxItems, count \in 1..MaxTargets : \E star \in {NoStar} \cup 0..(count - 1) :
            IF (IF star = NoStar THEN length = count ELSE length >= count - 1)
            THEN Begin("unpack", <<length, count, star>>, NewContainer(0, count), 0)
            ELSE Finished("unpack", <<length, count, star>>, Raises("values to unpack"))
      BY <2>1 DEF StartUnpack
    <3>1. PICK star \in {NoStar} \cup 0..(count - 1) :
            IF (IF star = NoStar THEN length = count ELSE length >= count - 1)
            THEN Begin("unpack", <<length, count, star>>, NewContainer(0, count), 0)
            ELSE Finished("unpack", <<length, count, star>>, Raises("values to unpack"))
      BY <3>0
    <3>2. ~Finished("unpack", <<length, count, star>>, Raises("values to unpack"))
      BY Answers DEF Finished
    <3>3. Begin("unpack", <<length, count, star>>, NewContainer(0, count), 0)
      BY <3>1, <3>2
    <3>4. args' = <<length, count, star>> /\ at' = "running" /\ todo' = 0 /\ box' = NewContainer(0, count)
      BY <3>3 DEF Begin
    <3>5. Length' = length /\ Count' = count /\ Star' = star
      BY <3>4 DEF Length, Count, Star
    <3>6. Unpackable'
      <4>1. IF star = NoStar THEN length = count ELSE length >= count - 1
        BY <3>1, <3>2
      <4>2. length \in Nat /\ count \in Nat \ {0}
        BY OperationsAssumption
      <4> QED BY <3>5, <4>1, <4>2 DEF Unpackable
    <3>7. box'.items = <<>> /\ DOMAIN box' = {"items", "cap", "want"}
      BY <3>4 DEF NewContainer
    <3>8. todo' \in 0..Count'
      BY <3>4, <3>5, OperationsAssumption
    <3>9. 1..todo' = {} /\ Len(<<>>) = 0 /\ <<>> \in Seq(Seq(Int))
      BY <3>4
    <3> QED BY <3>4, <3>6, <3>7, <3>8, <3>9 DEF UnpackInv
  <2>2. CASE UnpackPlain
    <3>1. Running("unpack") /\ todo < Count /\ todo # Star /\ at' = at /\ todo' = todo + 1
          /\ box' = [box EXCEPT !.items = Append(@, <<SourceIndex(todo)>>)]
      BY <2>2 DEF UnpackPlain
    <3>2. todo \in Int
      BY <3>1 DEF UnpackInv, Running, Unpackable
    <3>3. PartOf(todo + 1) = <<SourceIndex(todo)>>
      <4> DEFINE j == todo + 1
      <4>1. j - 1 = todo
        BY <3>2
      <4> HIDE DEF j
      <4>2. PartOf(j) = <<SourceIndex(j - 1)>>
        BY <3>1, <4>1 DEF PartOf
      <4> QED BY <4>1, <4>2 DEF j
    <3> QED BY <3>1, <3>3, UnpackOn
  <2>3. CASE UnpackStar
    <3>1. PICK first \in BOOLEAN, later \in BOOLEAN :
            IF ListRefused(MiddleLength, first) \/ ~Middle(later).ok THEN GivesUp
            ELSE /\ box' = [box EXCEPT !.items = Append(@, Middle(later).box.items)]
                 /\ todo' = todo + 1 /\ UNCHANGED <<at, answer>>
      BY <2>3 DEF UnpackStar
    <3>2. Running("unpack") /\ todo < Count /\ todo = Star
      BY <2>3 DEF UnpackStar
    <3>3. ~GivesUp
      BY Answers DEF GivesUp, Oom
    <3>4. box' = [box EXCEPT !.items = Append(@, Middle(later).box.items)] /\ todo' = todo + 1 /\ at' = at
      BY <3>1, <3>3
    <3>5. Unpackable /\ todo \in Int /\ todo \in 0..Count
      BY <3>2 DEF UnpackInv, Running, Unpackable
    <3>6. Star # NoStar /\ todo + 1 - 1 = Star
      BY <3>2, <3>5 DEF NoStar
    <3>7. Middle(later).box.items = PartOf(todo + 1)
      BY <3>5, <3>6, MiddleIs DEF PartOf
    <3> QED BY <3>2, <3>4, <3>7, UnpackOn
  <2>4. CASE UnpackEnd
    <3>1. at = "running" /\ op = "unpack" /\ args' = args /\ box' = box /\ todo' = todo /\ todo = Count
      BY <2>4 DEF UnpackEnd, Running, Completes
    <3>2. Star' = Star /\ Count' = Count /\ Length' = Length
      BY <3>1 DEF Star, Count, Length
    <3>3. Unpackable' <=> Unpackable
      BY <3>2 DEF Unpackable
    <3>4. ASSUME NEW i PROVE PartOf(i)' = PartOf(i)
      BY <3>2 DEF PartOf, Next_, SourceIndex, MiddleLength
    <3> QED BY <3>1, <3>2, <3>3, <3>4 DEF UnpackInv
  <2>5. CASE UNCHANGED vars
    <3>1. Star' = Star /\ Count' = Count /\ Length' = Length
      BY <2>5 DEF Star, Count, Length, vars
    <3>2. Unpackable' <=> Unpackable
      BY <3>1 DEF Unpackable
    <3>3. ASSUME NEW i PROVE PartOf(i)' = PartOf(i)
      BY <3>1 DEF PartOf, Next_, SourceIndex, MiddleLength
    <3> QED BY <2>5, <3>1, <3>2, <3>3 DEF UnpackInv, vars
  <2> QED BY <2>0, <2>1, <2>2, <2>3, <2>4, <2>5
<1> QED BY <1>1, <1>2, PTL DEF Spec

\* The parts of the targets, one after the other, are the list.
LEMMA PartsAreAll ==
  ASSUME Unpackable, NEW ss, Len(ss) = Count, \A i \in 1..Count : ss[i] = PartOf(i)
  PROVE  Flat(ss) = First(Length)
<1> DEFINE off == [k \in 0..Count |-> IF Star = NoStar \/ k <= Star THEN k ELSE k - 1 + MiddleLength]
<1>0. Length \in Nat /\ Count \in Nat \ {0} /\ Star \in Int /\ -1 <= Star /\ Star < Count
  BY DEF Unpackable, NoStar
<1>1. Star # NoStar => MiddleLength = Length - (Count - 1) /\ MiddleLength \in Nat /\ Star \in Nat
  BY <1>0 DEF Unpackable, MiddleLength, NoStar
<1>2. off \in [0..Count -> Nat]
  BY <1>0, <1>1
<1>3. off[0] = 0 /\ off[Count] = Length
  BY <1>0, <1>1 DEF Unpackable, NoStar
<1>4. ASSUME NEW k \in 1..Count PROVE First(off[k - 1]) \o ss[k] = First(off[k])
  <2>0. k - 1 \in 0..Count /\ k \in 0..Count /\ k \in Nat
    BY <1>0
  <2> DEFINE a == off[k - 1]
             b == off[k] - off[k - 1]
  <2>1. CASE k - 1 = Star
    <3>1. a = Star /\ b = MiddleLength /\ Star # NoStar
      BY <1>0, <1>1, <2>0, <2>1 DEF NoStar
    <3>2. a \in Nat /\ b \in Nat /\ a + b = off[k]
      BY <1>0, <1>1, <1>2, <2>0, <3>1
    <3>3. ss[k] = Next_(a, b)
      <4>1. ss[k] = Next_(Star, MiddleLength)
        BY <2>1 DEF PartOf
      <4> HIDE DEF a, b
      <4> QED BY <3>1, <4>1
    <3> HIDE DEF a, b, off
    <3>4. First(a) \o ss[k] = First(off[k])
      BY <3>2, <3>3, FirstAndNext
    <3> QED BY <3>4 DEF a
  <2>2. CASE k - 1 # Star
    <3>1. off[k] = a + 1 /\ SourceIndex(k - 1) = a
      BY <1>0, <1>1, <2>0, <2>2 DEF SourceIndex, NoStar
    <3>2. a \in Nat
      BY <1>2, <2>0
    <3>3. ss[k] = <<a>>
      BY <2>2, <3>1 DEF PartOf
    <3> HIDE DEF a, off
    <3>4. <<a>> = Next_(a, 1)
      BY <3>2 DEF Next_
    <3>5. First(a) \o <<a>> = First(a + 1)
      BY <3>2, <3>4, FirstAndNext
    <3> QED BY <3>1, <3>3, <3>5 DEF a
  <2> QED BY <2>1, <2>2
<1> HIDE DEF off
<1> QED BY <1>0, <1>2, <1>3, <1>4, FlatIs

(* Unpacking gives every element of the list to one target, in order, and one   *)
(* to each target without a star, however many there are of either.             *)
THEOREM UnpackIsExact == Spec => []UnpackExact
<1>1. UnpackInv => UnpackExact
  <2> SUFFICES ASSUME UnpackInv, op = "unpack", at = "done", answer.ok PROVE UnpackExact
    BY DEF UnpackExact
  <2>1. /\ Unpackable /\ box.items \in Seq(Seq(Int)) /\ Len(box.items) = Count
        /\ \A i \in 1..Count : box.items[i] = PartOf(i)
    BY DEF UnpackInv
  <2>2. Flat(box.items) = First(Length)
    BY <2>1, PartsAreAll
  <2>3. DOMAIN box.items = 1..Count
    BY <2>1
  <2>4. ASSUME NEW i \in DOMAIN box.items, i - 1 # Star PROVE Len(box.items[i]) = 1
    <3>1. box.items[i] = <<SourceIndex(i - 1)>>
      BY <2>1, <2>3, <2>4 DEF PartOf
    <3> QED BY <3>1
  <2> QED BY <2>2, <2>4 DEF UnpackExact, First
<1> QED BY <1>1, UnpackInvInductive, PTL


----------------------------------------------------------------------------
(* Ranges.                                                                   *)

LEMMA DistanceIs ==
  ASSUME NEW a \in Words, NEW b \in Words, a < b
  PROVE  Distance(a, b) = b - a /\ b - a \in 1..(2 * Half) - 1
<1> DEFINE n == 2 * Half
           x == a % n
           y == b % n
<1>1. n \in Nat \ {0} /\ a \in Int /\ b \in Int /\ b - a \in 1..n - 1
  BY HalfType, WordsAre
<1>2. Distance(a, b) = (y - x) % n
  BY DEF Distance, Unsigned
<1> HIDE DEF n
<1>3. x \in Int /\ y \in Int
  BY <1>1, RemainderIn
<1>4. PICK j \in Int : a = n * j + x
  BY <1>1, RemainderQuotient
<1>5. PICK k \in Int : b = n * k + y
  BY <1>1, RemainderQuotient
<1> HIDE DEF x, y
<1>6. n * j \in Int /\ n * k \in Int /\ n * (j - k) = n * j - n * k /\ j - k \in Int
  BY <1>1
<1>7. y - x = n * (j - k) + (b - a)
  BY <1>1, <1>3, <1>4, <1>5, <1>6
<1>8. b - a \in 0..n - 1
  BY <1>1
<1>9. (y - x) % n = b - a
  BY <1>1, <1>6, <1>7, <1>8, RemainderUnique
<1> QED BY <1>1, <1>2, <1>9 DEF n

LEMMA StrideIs ==
  ASSUME NEW c \in Words, c # 0
  PROVE  Stride(c) = Magnitude(c) /\ Stride(c) \in Nat \ {0}
<1>1. c \in Int /\ Half \in Nat /\ -Half <= c /\ c < Half
  BY WordsAre, HalfType
<1>2. CASE c > 0
  BY <1>1, <1>2 DEF Stride, Magnitude
<1>3. CASE ~(c > 0)
  <2>1. -(c + 1) \in 0..(2 * Half) - 1 /\ -(c + 1) + 1 = -c /\ -c \in 0..(2 * Half) - 1
    BY <1>1, <1>3
  <2>2. Unsigned(-(c + 1)) = -(c + 1)
    BY <2>1, UnsignedKeeps
  <2>3. Unsigned(-(c + 1) + 1) = -c
    BY <2>1, UnsignedKeeps
  <2>4. Stride(c) = -c
    BY <1>3, <2>2, <2>3 DEF Stride
  <2> QED BY <1>1, <1>3, <2>4 DEF Magnitude
<1> QED BY <1>2, <1>3

\* Steps of s from 0 that do not reach d.
LEMMA StepsBelow ==
  ASSUME NEW d \in Nat \ {0}, NEW s \in Nat \ {0}
  PROVE  /\ 1 + (d - 1) \div s \in 1..d
         /\ \A i \in Nat \ {0} : i <= 1 + (d - 1) \div s <=> (i - 1) * s < d
<1> DEFINE q == (d - 1) \div s
<1>1. d - 1 \in Nat /\ d - 1 \in Int /\ q \in Nat /\ s * q <= d - 1
  BY QuotientNat, QuotientFacts
<1>2. q <= d - 1
  <2>1. 1 * q <= s * q
    BY <1>1, TimesMonotone
  <2>2. 1 * q = q /\ s * q \in Int
    BY <1>1
  <2> QED BY <1>1, <2>1, <2>2
<1>3. ASSUME NEW i \in Nat \ {0} PROVE i <= 1 + q <=> (i - 1) * s < d
  <2>1. i - 1 \in Int /\ (i - 1) * s \in Int
    OBVIOUS
  <2>2. i - 1 > q <=> (i - 1) * s > d - 1
    BY <1>1, <2>1, QuotientOver
  <2> HIDE DEF q
  <2> QED BY <1>1, <2>1, <2>2
<1> QED BY <1>1, <1>2, <1>3

\* The number of the steps counts those that come before the end.
LEMMA RangeCountIs ==
  ASSUME NEW a \in Words, NEW b \in Words, NEW c \in Words, c # 0
  PROVE  /\ RangeCount(a, b, c) \in 0..(2 * Half) - 1
         /\ \A i \in Nat \ {0} : i <= RangeCount(a, b, c) <=>
              IF c > 0 THEN a + (i - 1) * c < b ELSE a + (i - 1) * c > b
<1>0. a \in Int /\ b \in Int /\ c \in Int /\ Half \in Nat /\ Half >= 2
  BY WordsAre, HalfType
<1>1. CASE c > 0 /\ a < b
  <2> DEFINE d == b - a
  <2>1. Distance(a, b) = d /\ d \in 1..(2 * Half) - 1
    BY <1>1, DistanceIs
  <2>2. Stride(c) = c /\ c \in Nat \ {0}
    BY <1>0, <1>1 DEF Stride
  <2>3. RangeCount(a, b, c) = 1 + (d - 1) \div c
    BY <1>0, <1>1, <2>1, <2>2 DEF RangeCount
  <2>4. d \in Nat \ {0}
    BY <1>0, <2>1
  <2>5. RangeCount(a, b, c) \in 1..d /\ \A i \in Nat \ {0} : i <= RangeCount(a, b, c) <=> (i - 1) * c < d
    <3> HIDE DEF d
    <3> QED BY <2>2, <2>3, <2>4, StepsBelow
  <2>6. \A i \in Nat \ {0} : (i - 1) * c \in Int
    BY <1>0
  <2>7. RangeCount(a, b, c) \in 0..(2 * Half) - 1
    BY <1>0, <2>1, <2>5
  <2> QED BY <1>0, <1>1, <2>5, <2>6, <2>7
<1>2. CASE c < 0 /\ a > b
  <2> DEFINE d == a - b
             s == -c
  <2>1. Distance(b, a) = d /\ d \in 1..(2 * Half) - 1
    BY <1>0, <1>2, DistanceIs
  <2>2. Stride(c) = s /\ s \in Nat \ {0}
    BY <1>0, <1>2, StrideIs DEF Magnitude
  <2>3. RangeCount(a, b, c) = 1 + (d - 1) \div s
    BY <1>0, <1>2, <2>1, <2>2 DEF RangeCount
  <2>4. d \in Nat \ {0}
    BY <1>0, <2>1
  <2>5. RangeCount(a, b, c) \in 1..d /\ \A i \in Nat \ {0} : i <= RangeCount(a, b, c) <=> (i - 1) * s < d
    <3> HIDE DEF d, s
    <3> QED BY <2>2, <2>3, <2>4, StepsBelow
  <2>6. ASSUME NEW i \in Nat \ {0} PROVE (i - 1) * s = -((i - 1) * c) /\ (i - 1) * c \in Int
    BY <1>0
  <2>7. RangeCount(a, b, c) \in 0..(2 * Half) - 1
    BY <1>0, <2>1, <2>5
  <2>8. ASSUME NEW i \in Nat \ {0} PROVE i <= RangeCount(a, b, c) <=> a + (i - 1) * c > b
    <3> DEFINE p == (i - 1) * c
    <3>1. i <= RangeCount(a, b, c) <=> -p < a - b
      BY <2>5, <2>6
    <3>2. p \in Int
      BY <2>6
    <3> HIDE DEF p
    <3>3. -p < a - b <=> a + p > b
      BY <1>0, <3>2
    <3> QED BY <3>1, <3>3 DEF p
  <2> QED BY <1>0, <1>2, <2>7, <2>8
<1>3. CASE ~(c > 0 /\ a < b) /\ ~(c < 0 /\ a > b)
  <2>1. RangeCount(a, b, c) = 0
    BY <1>3 DEF RangeCount
  <2>2. ASSUME NEW i \in Nat \ {0} PROVE ~(IF c > 0 THEN a + (i - 1) * c < b ELSE a + (i - 1) * c > b)
    <3> DEFINE p == (i - 1) * c
    <3>1. i - 1 \in Nat /\ p \in Int /\ 0 * c = 0
      BY <1>0
    <3>2. CASE c > 0
      <4>1. p \in Nat
        BY <1>0, <3>1, <3>2, TimesNat
      <4> HIDE DEF p
      <4>2. ~(a + p < b)
        BY <1>0, <1>3, <3>2, <4>1
      <4> QED BY <3>2, <4>2 DEF p
    <3>3. CASE ~(c > 0)
      <4>1. (i - 1) * (-c) \in Nat /\ (i - 1) * (-c) = -p
        BY <1>0, <3>1, <3>3, TimesNat
      <4> HIDE DEF p
      <4>2. ~(a + p > b)
        BY <1>0, <1>3, <3>1, <3>3, <4>1
      <4> QED BY <3>3, <4>2 DEF p
    <3> QED BY <3>2, <3>3
  <2> QED BY <1>0, <2>1, <2>2
<1> QED BY <1>0, <1>1, <1>2, <1>3

RangeArgs(ns) == \E n \in 1..3 : ns \in [1..n -> Ints]
CountOf(ns) == RangeCount(Start(ns), Stop(ns), Step(ns))

LEMMA RangeArgsAre ==
  ASSUME NEW ns, RangeArgs(ns)
  PROVE  Start(ns) \in Words /\ Stop(ns) \in Words /\ Step(ns) \in Words
<1>1. PICK n \in 1..3 : ns \in [1..n -> Ints]
  BY DEF RangeArgs
<1>2. Len(ns) = n /\ n \in {1, 2, 3}
  BY <1>1
<1>3. ASSUME NEW i \in 1..n PROVE WordOf(ns[i]) \in Words
  <2>1. ns[i] \in Ints
    BY <1>1
  <2> QED BY <2>1, IntIs DEF Ints
<1>4. 0 \in Words /\ 1 \in Words
  BY HalfType, WordsAre
<1>5. WordOf(ns[1]) \in Words
  BY <1>2, <1>3
<1>6. Len(ns) >= 2 => WordOf(ns[2]) \in Words
  BY <1>2, <1>3
<1>7. Len(ns) = 3 => WordOf(ns[3]) \in Words
  BY <1>2, <1>3
<1> QED BY <1>4, <1>5, <1>6, <1>7 DEF Start, Stop, Step

\* The numbers of a range are words, each a step from the one before.
LEMMA RangeItems ==
  ASSUME NEW ns, RangeArgs(ns), Step(ns) # 0
  PROVE  /\ CountOf(ns) \in 0..(2 * Half) - 1
         /\ \A i \in Nat \ {0} : i <= CountOf(ns) <=> Before(Nth(i, ns), ns)
         /\ \A i \in 1..CountOf(ns) : Nth(i, ns) \in Words
         /\ Nth(1, ns) = Start(ns)
         /\ \A i \in Nat \ {0} : Nth(i + 1, ns) = Nth(i, ns) + Step(ns)
<1> DEFINE a == Start(ns)
           b == Stop(ns)
           c == Step(ns)
           m == CountOf(ns)
<1>0. a \in Words /\ b \in Words /\ c \in Words /\ a \in Int /\ b \in Int /\ c \in Int /\ Half \in Nat
      /\ -Half <= a /\ a < Half /\ -Half <= b /\ b < Half
  BY RangeArgsAre, WordsAre, HalfType
<1>1. /\ m \in 0..(2 * Half) - 1
      /\ \A i \in Nat \ {0} : i <= m <=> IF c > 0 THEN a + (i - 1) * c < b ELSE a + (i - 1) * c > b
  BY <1>0, RangeCountIs DEF CountOf
<1>2. \A i \in Nat \ {0} : i <= m <=> Before(Nth(i, ns), ns)
  BY <1>1 DEF Before, Nth
<1> HIDE DEF m
<1>3. ASSUME NEW i \in 1..m PROVE Nth(i, ns) \in Words
  <2> DEFINE p == (i - 1) * c
  <2>0. i \in Nat \ {0} /\ i <= m /\ i - 1 \in Nat /\ p \in Int
    BY <1>0, <1>1
  <2>1. Nth(i, ns) = a + p
    BY DEF Nth
  <2>2. IF c > 0 THEN a + p < b ELSE a + p > b
    BY <1>1, <2>0
  <2>3. IF c > 0 THEN p >= 0 ELSE p <= 0
    <3>1. CASE c > 0
      <4>1. p \in Nat
        BY <1>0, <2>0, <3>1, TimesNat
      <4> QED BY <3>1, <4>1
    <3>2. CASE ~(c > 0)
      <4>1. (i - 1) * (-c) \in Nat /\ (i - 1) * (-c) = -p
        BY <1>0, <2>0, <3>2, TimesNat
      <4> HIDE DEF p
      <4> QED BY <2>0, <3>2, <4>1
    <3> QED BY <3>1, <3>2
  <2> HIDE DEF p, a, b, c
  <2>4. -Half <= a + p /\ a + p < Half /\ a + p \in Int
    BY <1>0, <2>0, <2>2, <2>3
  <2> QED BY <2>1, <2>4, WordsAre
<1>4. Nth(1, ns) = a
  <2>1. (1 - 1) * c = 0
    BY <1>0
  <2> QED BY <1>0, <2>1 DEF Nth
<1>5. ASSUME NEW i \in Nat \ {0} PROVE Nth(i + 1, ns) = Nth(i, ns) + c
  <2>1. i + 1 - 1 = i /\ i - 1 \in Int /\ i * c = (i - 1) * c + c /\ (i - 1) * c \in Int /\ i * c \in Int
    BY <1>0
  <2>2. Nth(i + 1, ns) = a + i * c /\ Nth(i, ns) = a + (i - 1) * c
    BY <2>1 DEF Nth
  <2> HIDE DEF a, c
  <2> QED BY <1>0, <2>1, <2>2
<1> QED BY <1>1, <1>2, <1>3, <1>4, <1>5 DEF m

LEMMA TrueCountIs ==
  ASSUME NEW ns, RangeArgs(ns), Step(ns) # 0
  PROVE  TrueCount(ns) = CountOf(ns)
<1> DEFINE m == CountOf(ns)
           n == TwoTo(WordBits)
           T == {i \in 1..n : Before(Nth(i, ns), ns)}
<1>1. n = 2 * Half
  <2>1. WordBits - 1 \in Nat /\ WordBits - 1 + 1 = WordBits
    BY NumberAssumption
  <2> QED BY <2>1, TwoNext DEF Half
<1>2. m \in Nat /\ m < n /\ n \in Nat /\ \A i \in Nat \ {0} : i <= m <=> Before(Nth(i, ns), ns)
  BY <1>1, HalfType, RangeItems
<1>3. TrueCount(ns) = Cardinality(T)
  BY DEF TrueCount
<1> HIDE DEF m, n
<1>4. T = 1..m
  BY <1>2
<1>5. Cardinality(1..m) = m
  BY <1>2, FS_Interval
<1> QED BY <1>3, <1>4, <1>5 DEF m


\* The first numbers of the range are in the list, and the next one is at hand.
Filling(b, next, ns) ==
  /\ RangeArgs(ns) /\ Step(ns) # 0
  /\ b = [items |-> b.items, cap |-> CountOf(ns), want |-> CountOf(ns)]
  /\ b.items \in Seq(Int) /\ Len(b.items) <= CountOf(ns)
  /\ \A i \in 1..Len(b.items) : b.items[i] = Nth(i, ns)
  /\ Len(b.items) < CountOf(ns) => next = Nth(Len(b.items) + 1, ns)

\* A range that was never begun.
Refused(b, result, ns) ==
  /\ RangeArgs(ns) /\ b = NoContainer /\ ~result.ok
  /\ \/ Step(ns) = 0
     \/ result = Oom
     \/ Step(ns) # 0 /\ result = Raises("range() result has too many items") /\ CountOf(ns) > MaxWord

RangeInv ==
  op = "range" =>
    /\ at = "running" => Filling(box, todo, args)
    /\ at = "done" => \/ Refused(box, answer, args)
                      \/ /\ Filling(box, todo, args)
                         /\ IF answer.ok THEN Len(box.items) = CountOf(args) ELSE answer = Oom

LEMMA RangeBegins ==
  ASSUME AnswerInv, StartRange
  PROVE  RangeInv'
<1>1. at = "idle" /\ box = NoContainer
  BY DEF StartRange, Idle, AnswerInv
<1>2. PICK n \in 1..3 : \E ns \in [1..n -> Ints], granted \in BOOLEAN :
    LET count == RangeCount(Start(ns), Stop(ns), Step(ns))
    IN  CASE Step(ns) = 0 -> Finished("range", ns, Raises("range() step must not be zero"))
          [] Step(ns) # 0 /\ count > MaxWord ->
               Finished("range", ns, Raises("range() result has too many items"))
          [] Step(ns) # 0 /\ count <= MaxWord /\ ListRefused(count, granted) ->
               Finished("range", ns, Oom)
          [] OTHER -> Begin("range", ns, NewContainer(count, count), Start(ns))
  BY DEF StartRange
<1>3. PICK ns \in [1..n -> Ints], granted \in BOOLEAN :
          CASE Step(ns) = 0 -> Finished("range", ns, Raises("range() step must not be zero"))
          [] Step(ns) # 0 /\ CountOf(ns) > MaxWord ->
               Finished("range", ns, Raises("range() result has too many items"))
          [] Step(ns) # 0 /\ CountOf(ns) <= MaxWord /\ ListRefused(CountOf(ns), granted) ->
               Finished("range", ns, Oom)
          [] OTHER -> Begin("range", ns, NewContainer(CountOf(ns), CountOf(ns)), Start(ns))
  BY <1>2 DEF CountOf
<1>4. RangeArgs(ns)
  BY DEF RangeArgs
<1>5. ASSUME NEW result, Finished("range", ns, result), ~result.ok,
             \/ Step(ns) = 0
             \/ result = Oom
             \/ Step(ns) # 0 /\ result = Raises("range() result has too many items") /\ CountOf(ns) > MaxWord
      PROVE  RangeInv'
  <2>1. at' = "done" /\ args' = ns /\ answer' = result /\ box' = NoContainer
    BY <1>1, <1>5 DEF Finished
  <2>2. Refused(NoContainer, result, ns)
    BY <1>4, <1>5 DEF Refused
  <2> QED BY <2>1, <2>2 DEF RangeInv
<1>6. CASE Step(ns) = 0
  <2>1. Finished("range", ns, Raises("range() step must not be zero"))
    BY <1>3, <1>6
  <2> QED BY <1>5, <1>6, <2>1, Answers
<1>7. CASE Step(ns) # 0
  <2>1. CountOf(ns) \in Int /\ MaxWord \in Int
    BY <1>4, <1>7, RangeItems, HalfType DEF MaxWord
  <2>2. CASE CountOf(ns) > MaxWord
    <3>0. ~(CountOf(ns) <= MaxWord)
      BY <2>1, <2>2
    <3>1. Finished("range", ns, Raises("range() result has too many items"))
      BY <1>3, <1>7, <2>2, <3>0
    <3> QED BY <1>5, <1>7, <2>2, <3>1, Answers
  <2>3. CASE ~(CountOf(ns) > MaxWord) /\ ListRefused(CountOf(ns), granted)
    <3>1. CountOf(ns) <= MaxWord
      BY <2>1, <2>3
    <3>2. Finished("range", ns, Oom)
      BY <1>3, <1>7, <2>3, <3>1
    <3>3. ~Oom.ok
      BY Answers DEF Oom
    <3> QED BY <1>5, <3>2, <3>3
  <2>4. CASE ~(CountOf(ns) > MaxWord) /\ ~ListRefused(CountOf(ns), granted)
    <3>1. Begin("range", ns, NewContainer(CountOf(ns), CountOf(ns)), Start(ns))
      BY <1>3, <1>7, <2>4
    <3> DEFINE b == NewContainer(CountOf(ns), CountOf(ns))
    <3>2. at' = "running" /\ args' = ns /\ box' = b /\ todo' = Start(ns)
      BY <3>1 DEF Begin
    <3>3. b.items = <<>> /\ b = [items |-> b.items, cap |-> CountOf(ns), want |-> CountOf(ns)]
      BY DEF NewContainer
    <3> HIDE DEF b
    <3>4. b.items \in Seq(Int) /\ Len(b.items) = 0 /\ 1..0 = {}
      BY <3>3
    <3>5. CountOf(ns) \in Nat /\ Nth(1, ns) = Start(ns) /\ 0 + 1 = 1
      BY <1>4, <1>7, RangeItems, HalfType
    <3>6. Filling(b, Start(ns), ns)
      BY <1>4, <1>7, <3>3, <3>4, <3>5 DEF Filling
    <3> QED BY <3>2, <3>6 DEF RangeInv
  <2> QED BY <2>2, <2>3, <2>4
<1> QED BY <1>6, <1>7

\* A number more is the next one, and the number after it is a word.
LEMMA RangeGoesOn ==
  ASSUME NEW b, NEW next, NEW ns, Filling(b, next, ns), Len(b.items) < b.want, NEW granted \in BOOLEAN
  PROVE  /\ Put(b, next, granted).ok
         /\ Filling(Put(b, next, granted).box,
                    IF Len(Put(b, next, granted).box.items) < b.want THEN Wrap(next + Step(ns)) ELSE next, ns)
<1> DEFINE s == b.items
           m == CountOf(ns)
           c == [items |-> Append(s, next), cap |-> m, want |-> m]
           k == Len(s) + 1
           z == IF Len(c.items) < m THEN Wrap(next + Step(ns)) ELSE next
<1>1. /\ RangeArgs(ns) /\ Step(ns) # 0 /\ b = [items |-> s, cap |-> m, want |-> m]
      /\ s \in Seq(Int) /\ \A i \in 1..Len(s) : s[i] = Nth(i, ns)
      /\ Len(s) < m => next = Nth(Len(s) + 1, ns)
  BY DEF Filling
<1>2. b.want = m
  <2> HIDE DEF s, m
  <2>1. [items |-> s, cap |-> m, want |-> m].want = m
    OBVIOUS
  <2> QED BY <1>1, <2>1
<1>3. Len(s) < m /\ m \in Nat /\ Len(s) \in Nat /\ next = Nth(k, ns)
  BY <1>1, <1>2, RangeItems, HalfType
<1>4. Put(b, next, granted) = [ok |-> TRUE, box |-> c]
  <2> HIDE DEF s, m
  <2>1. Put([items |-> s, cap |-> m, want |-> m], next, granted) = [ok |-> TRUE, box |-> c]
    BY <1>3, PutInRoom, SMTT(40)
  <2> QED BY <1>1, <2>1
<1>5. Put(b, next, granted).ok /\ Put(b, next, granted).box = c
  BY <1>4
<1> HIDE DEF s, m
<1>6. c.items = Append(s, next) /\ c = [items |-> c.items, cap |-> m, want |-> m]
  <2>1. c.items = Append(s, next)
    OBVIOUS
  <2> QED BY <2>1
<1> HIDE DEF c
<1>7. k \in 1..m /\ next \in Words /\ next \in Int /\ Step(ns) \in Int /\ k \in Nat \ {0}
  <2>1. k \in 1..m /\ k \in Nat \ {0}
    BY <1>3
  <2>2. Step(ns) \in Int
    BY <1>1, RangeArgsAre, WordsAre
  <2>3. \A i \in 1..m : Nth(i, ns) \in Words
    BY <1>1, RangeItems DEF m
  <2>4. next \in Words
    BY <1>3, <2>1, <2>3
  <2> QED BY <2>1, <2>2, <2>4, WordsAre
<1>8. /\ c.items \in Seq(Int) /\ Len(c.items) = k
      /\ \A i \in 1..Len(s) : c.items[i] = s[i]
      /\ c.items[k] = next
  BY <1>1, <1>6, <1>7, AppendProperties
<1>9. ASSUME NEW i \in 1..k PROVE c.items[i] = Nth(i, ns)
  <2>1. CASE i = k
    BY <1>3, <1>8, <2>1
  <2>2. CASE i # k
    <3>1. i \in 1..Len(s)
      BY <1>3, <2>2
    <3> QED BY <1>1, <1>8, <3>1
  <2> QED BY <2>1, <2>2
<1>10. k < m => z = Nth(k + 1, ns)
  <2> SUFFICES ASSUME k < m PROVE z = Nth(k + 1, ns)
    OBVIOUS
  <2>1. k + 1 \in 1..m
    BY <1>3, <1>7
  <2>2. Nth(k + 1, ns) = next + Step(ns) /\ Nth(k + 1, ns) \in Words
    BY <1>1, <1>3, <1>7, <2>1, RangeItems DEF m
  <2>3. z = Wrap(next + Step(ns))
    BY <1>8
  <2> QED BY <2>2, <2>3, WrapKeeps
<1>11. k <= m
  BY <1>7
<1>12. Filling(c, z, ns)
  <2> HIDE DEF z, k
  <2> QED BY <1>1, <1>6, <1>8, <1>9, <1>10, <1>11 DEF Filling, m
<1> QED BY <1>2, <1>5, <1>12

LEMMA RangeInvInductive == Spec => [](AnswerInv /\ RangeInv)
<1>1. Init => RangeInv
  BY DEF Init, RangeInv
<1>2. AnswerInv /\ RangeInv /\ [Next]_vars => RangeInv'
  <2> SUFFICES ASSUME AnswerInv, RangeInv, [Next]_vars, op' = "range", at' # "idle" PROVE RangeInv'
    BY DEF RangeInv
  <2>0. StartRange \/ RangeItem \/ RangeEnd \/ UNCHANGED vars
    BY ContainerSteps
  <2>1. CASE StartRange
    BY <2>1, RangeBegins
  <2>2. CASE RangeItem
    <3>1. PICK number \in BOOLEAN, granted \in BOOLEAN :
            IF ~number \/ ~Put(box, todo, granted).ok THEN GivesUp
            ELSE /\ box' = Put(box, todo, granted).box
                 /\ todo' = IF Len(Put(box, todo, granted).box.items) < box.want
                            THEN Wrap(todo + Step(args)) ELSE todo
                 /\ UNCHANGED <<at, answer>>
      BY <2>2 DEF RangeItem
    <3>2. at = "running" /\ op = "range" /\ args' = args /\ Len(box.items) < box.want
      BY <2>2 DEF RangeItem, Running
    <3>3. Filling(box, todo, args)
      BY <3>2 DEF RangeInv
    <3>4. CASE GivesUp
      <4>1. at' = "done" /\ answer' = Oom /\ box' = box /\ todo' = todo
        BY <3>4 DEF GivesUp
      <4>2. ~answer'.ok
        BY <4>1, Answers DEF Oom
      <4> QED BY <3>2, <3>3, <4>1, <4>2 DEF RangeInv
    <3>5. CASE ~GivesUp
      <4>1. /\ box' = Put(box, todo, granted).box /\ at' = at
            /\ todo' = IF Len(Put(box, todo, granted).box.items) < box.want
                       THEN Wrap(todo + Step(args)) ELSE todo
        BY <3>1, <3>5
      <4>2. Filling(box', todo', args)
        BY <3>2, <3>3, <4>1, RangeGoesOn
      <4> QED BY <3>2, <4>1, <4>2 DEF RangeInv
    <3> QED BY <3>4, <3>5
  <2>3. CASE RangeEnd
    <3>1. at = "running" /\ op = "range" /\ args' = args /\ Len(box.items) = box.want
          /\ at' = "done" /\ answer' = Gives(Nothing) /\ box' = box /\ todo' = todo
      BY <2>3 DEF RangeEnd, Running, Completes
    <3>2. Filling(box, todo, args)
      BY <3>1 DEF RangeInv
    <3>3. box.want = CountOf(args)
      <4> DEFINE s == box.items
                 m == CountOf(args)
      <4>1. box = [items |-> s, cap |-> m, want |-> m]
        BY <3>2 DEF Filling
      <4> HIDE DEF s, m
      <4>2. [items |-> s, cap |-> m, want |-> m].want = m
        OBVIOUS
      <4>3. box.want = m
        BY <4>1, <4>2
      <4> QED BY <4>3 DEF m
    <3>4. answer'.ok
      BY <3>1, Answers
    <3> QED BY <3>1, <3>2, <3>3, <3>4 DEF RangeInv
  <2>4. CASE UNCHANGED vars
    BY <2>4 DEF RangeInv, vars
  <2> QED BY <2>0, <2>1, <2>2, <2>3, <2>4
<1> QED BY <1>1, <1>2, AnswerInvInductive, PTL DEF Spec

(* range makes exactly the numbers from start towards stop, whatever words they *)
(* are, and raises an error only for a step of 0, too many items or no memory.  *)
(* The list was made with the room for them: filling it asks for no more.       *)
THEOREM RangeIsExact == Spec => []RangeExact
<1>1. RangeInv /\ AnswerInv => RangeExact
  <2> SUFFICES ASSUME RangeInv, AnswerInv, op = "range" PROVE RangeExact
    BY DEF RangeExact
  <2>0. at = "running" \/ at = "done"
    BY DEF AnswerInv
  <2>1. ASSUME Filling(box, todo, args)
        PROVE  \A i \in DOMAIN box.items : box.items[i] = Nth(i, args) /\ Before(box.items[i], args)
    <3>1. DOMAIN box.items = 1..Len(box.items) /\ Len(box.items) \in Nat
      BY <2>1 DEF Filling
    <3>2. ASSUME NEW i \in 1..Len(box.items) PROVE box.items[i] = Nth(i, args) /\ Before(box.items[i], args)
      <4>1. i \in Nat \ {0} /\ i <= CountOf(args) /\ box.items[i] = Nth(i, args)
        <5>1. CountOf(args) \in Int
          BY <2>1, RangeItems DEF Filling
        <5> QED BY <2>1, <3>1, <5>1 DEF Filling
      <4>2. Before(Nth(i, args), args)
        BY <2>1, <4>1, RangeItems DEF Filling
      <4> QED BY <4>1, <4>2
    <3> QED BY <3>1, <3>2
  <2>2. ASSUME Filling(box, todo, args), Len(box.items) < box.want PROVE Put(box, todo, FALSE).ok
    BY <2>2, RangeGoesOn
  <2>3. Filling(box, todo, args) => TrueCount(args) = CountOf(args)
    BY TrueCountIs DEF Filling
  <2>4. CASE at = "running"
    <3>1. Filling(box, todo, args)
      BY <2>4 DEF RangeInv
    <3> QED BY <2>1, <2>2, <2>4, <3>1 DEF RangeExact
  <2>5. CASE at = "done" /\ Filling(box, todo, args)
             /\ IF answer.ok THEN Len(box.items) = CountOf(args) ELSE answer = Oom
    BY <2>1, <2>3, <2>5 DEF RangeExact
  <2>6. CASE at = "done" /\ Refused(box, answer, args)
    <3>1. box.items = <<>>
      BY <2>6 DEF Refused, NoContainer, NewContainer
    <3>2. DOMAIN box.items = {}
      BY <3>1
    <3>3. \/ Step(args) = 0
          \/ answer = Oom
          \/ answer = Raises("range() result has too many items") /\ TrueCount(args) > MaxWord
      BY <2>6, TrueCountIs DEF Refused
    <3>4. ~answer.ok
      BY <2>6 DEF Refused
    <3> QED BY <2>6, <3>2, <3>3, <3>4 DEF RangeExact
  <2> QED BY <2>0, <2>4, <2>5, <2>6 DEF RangeInv
<1> QED BY <1>1, RangeInvInductive, PTL


----------------------------------------------------------------------------
(* Dictionaries.                                                             *)

LEMMA BoolIs ==
  ASSUME NEW x \in BOOLEAN
  PROVE  BoolOf(x).tag = "bool" /\ BoolOf(x).kind = "finite" /\ BoolOf(x).q \in Int
BY Bounds DEF BoolOf

LEMMA KeyIs ==
  ASSUME NEW a \in Keys
  PROVE  a \in Numbers \/ (a.tag = "bool" /\ a.kind = "finite" /\ a.q \in Int)
BY BoolIs, OperationsAssumption

\* The equality msDictSet asks for is sameness of keys.
LEMMA KeyEquals ==
  ASSUME NEW a \in Keys, NEW b \in Keys
  PROVE  ValueEquals(a, b, a = b) <=> SameKey(a, b)
<1>1. CASE a \in Numbers /\ b \in Numbers
  <2>1. ValueEquals(a, b, a = b) <=> FloatEq(a, b)
    BY <1>1, NumbersEqual
  <2>2. a.tag # "bool" /\ b.tag # "bool"
    BY <1>1, NumberIs
  <2> QED BY <2>1, <2>2 DEF SameKey, Same
<1>2. CASE a.tag = "bool" /\ b.tag = "bool"
  <2>1. a.kind = "finite" /\ b.kind = "finite"
    <3>1. a \notin Numbers /\ b \notin Numbers
      BY <1>2, NumberIs
    <3> QED BY <3>1, KeyIs
  <2>2. SameKey(a, b) <=> a.q = b.q
    BY <1>2, <2>1 DEF SameKey, Same, FloatEq
  <2>3. CASE a = b
    BY <1>2, <2>2, <2>3 DEF ValueEquals
  <2>4. CASE a # b
    BY <1>2, <2>2, <2>4 DEF ValueEquals
  <2> QED BY <2>3, <2>4
<1>3. CASE (a.tag = "bool") # (b.tag = "bool")
  <2>1. a # b
    BY <1>3
  <2>2. ~ValueEquals(a, b, FALSE)
    BY <1>3 DEF ValueEquals
  <2>3. (a = b) = FALSE
    BY <2>1
  <2>4. ~ValueEquals(a, b, a = b)
    BY <2>2, <2>3
  <2> QED BY <1>3, <2>4 DEF SameKey
<1> QED BY <1>1, <1>2, <1>3, KeyIs, NumberIs

LEMMA SameKeyBack ==
  ASSUME NEW a, NEW b, SameKey(a, b)
  PROVE  SameKey(b, a)
BY DEF SameKey, Same, FloatEq

LEMMA SameKeyOn ==
  ASSUME NEW a, NEW b, NEW c, SameKey(a, b), SameKey(b, c)
  PROVE  SameKey(a, c)
BY DEF SameKey, Same, FloatEq

\* The places in 1..t that are in F.
RankIn(F, t) == Cardinality(F \cap 1..t)

LEMMA RankNext ==
  ASSUME NEW F, NEW t \in Nat
  PROVE  /\ RankIn(F, t) \in Nat /\ RankIn(F, 0) = 0
         /\ RankIn(F, t + 1) = IF t + 1 \in F THEN RankIn(F, t) + 1 ELSE RankIn(F, t)
<1> DEFINE S == F \cap 1..t
<1>1. IsFiniteSet(1..t)
  BY FS_Interval
<1>2. IsFiniteSet(S) /\ Cardinality(S) \in Nat
  <2>1. S \in SUBSET (1..t)
    OBVIOUS
  <2> HIDE DEF S
  <2> QED BY <1>1, <2>1, FS_Subset, FS_CardinalityType
<1>3. RankIn(F, 0) = 0
  <2>1. F \cap 1..0 = {}
    OBVIOUS
  <2> QED BY <2>1, FS_EmptySet DEF RankIn
<1>4. CASE t + 1 \in F
  <2>1. F \cap 1..(t + 1) = S \cup {t + 1} /\ t + 1 \notin S
    BY <1>4
  <2> HIDE DEF S
  <2>2. Cardinality(S \cup {t + 1}) = Cardinality(S) + 1
    BY <1>2, <2>1, FS_AddElement
  <2> QED BY <1>2, <1>3, <1>4, <2>1, <2>2 DEF RankIn, S
<1>5. CASE t + 1 \notin F
  <2>1. F \cap 1..(t + 1) = S
    BY <1>5
  <2> QED BY <1>2, <1>3, <1>5, <2>1 DEF RankIn
<1> QED BY <1>4, <1>5

LEMMA RankGrows ==
  ASSUME NEW F, NEW s \in Nat, NEW t \in Nat, s <= t
  PROVE  RankIn(F, s) <= RankIn(F, t)
<1> DEFINE T == {d \in Nat : RankIn(F, s) <= RankIn(F, s + d)}
<1>1. 0 \in T
  BY RankNext
<1>2. ASSUME NEW d \in Nat, d \in T PROVE d + 1 \in T
  <2>1. s + d \in Nat /\ s + (d + 1) = (s + d) + 1
    OBVIOUS
  <2>2. RankIn(F, s + d) \in Nat /\ RankIn(F, s) \in Nat /\ RankIn(F, (s + d) + 1) \in Nat
    BY <2>1, RankNext
  <2>3. RankIn(F, s + d) <= RankIn(F, (s + d) + 1)
    BY <2>1, <2>2, RankNext
  <2> QED BY <1>2, <2>1, <2>2, <2>3
<1> HIDE DEF T
<1>3. \A d \in Nat : d \in T
  BY <1>1, <1>2, NatInduces
<1>4. t - s \in Nat /\ s + (t - s) = t
  OBVIOUS
<1> QED BY <1>3, <1>4 DEF T

\* The members of F up to t have the ranks from 1 on, each its own.
LEMMA RankIsPlace ==
  ASSUME NEW F, F \subseteq Nat \ {0}, NEW t \in Nat
  PROVE  /\ \A i \in F \cap 1..t : RankIn(F, i) \in 1..RankIn(F, t)
         /\ \A i, j \in F : RankIn(F, i) = RankIn(F, j) => i = j
         /\ \A e \in 1..RankIn(F, t) : \E i \in F \cap 1..t : RankIn(F, i) = e
<1>1. ASSUME NEW i \in F, NEW j \in F, i < j PROVE RankIn(F, i) < RankIn(F, j)
  <2>1. i \in Nat /\ j - 1 \in Nat /\ i <= j - 1 /\ (j - 1) + 1 = j
    BY <1>1
  <2>2. RankIn(F, j) = RankIn(F, j - 1) + 1 /\ RankIn(F, j - 1) \in Nat /\ RankIn(F, i) \in Nat
    BY <2>1, RankNext
  <2>3. RankIn(F, i) <= RankIn(F, j - 1)
    BY <2>1, RankGrows
  <2> QED BY <2>2, <2>3
<1>2. ASSUME NEW i \in F \cap 1..t PROVE RankIn(F, i) \in 1..RankIn(F, t)
  <2>1. i - 1 \in Nat /\ (i - 1) + 1 = i /\ i \in Nat /\ i <= t
    OBVIOUS
  <2>2. RankIn(F, i) = RankIn(F, i - 1) + 1 /\ RankIn(F, i - 1) \in Nat
    BY <2>1, RankNext
  <2>3. RankIn(F, i) <= RankIn(F, t) /\ RankIn(F, t) \in Nat
    BY <2>1, RankGrows, RankNext
  <2> QED BY <2>2, <2>3
<1>3. ASSUME NEW i \in F, NEW j \in F, RankIn(F, i) = RankIn(F, j) PROVE i = j
  <2>1. i \in Nat /\ j \in Nat /\ RankIn(F, i) \in Nat /\ RankIn(F, j) \in Nat
    BY RankNext
  <2>2. ~(i < j) /\ ~(j < i)
    BY <1>1, <1>3, <2>1
  <2> QED BY <2>1, <2>2
<1> DEFINE T == {s \in Nat : \A e \in 1..RankIn(F, s) : \E i \in F \cap 1..s : RankIn(F, i) = e}
<1>4. 0 \in T
  <2>1. 1..RankIn(F, 0) = {}
    BY RankNext
  <2> QED BY <2>1
<1>5. ASSUME NEW s \in Nat, s \in T PROVE s + 1 \in T
  <2>1. RankIn(F, s) \in Nat /\ RankIn(F, s + 1) = IF s + 1 \in F THEN RankIn(F, s) + 1 ELSE RankIn(F, s)
    BY RankNext
  <2>2. ASSUME NEW e \in 1..RankIn(F, s + 1) PROVE \E i \in F \cap 1..(s + 1) : RankIn(F, i) = e
    <3>1. CASE e \in 1..RankIn(F, s)
      <4>1. PICK i \in F \cap 1..s : RankIn(F, i) = e
        BY <1>5, <3>1
      <4>2. i \in F \cap 1..(s + 1)
        OBVIOUS
      <4> QED BY <4>1, <4>2
    <3>2. CASE e \notin 1..RankIn(F, s)
      <4>1. s + 1 \in F /\ e = RankIn(F, s + 1)
        BY <2>1, <3>2
      <4>2. s + 1 \in F \cap 1..(s + 1)
        BY <4>1
      <4> QED BY <4>1, <4>2
    <3> QED BY <3>1, <3>2
  <2> QED BY <2>2
<1> HIDE DEF T
<1>6. \A s \in Nat : s \in T
  BY <1>4, <1>5, NatInduces
<1>7. \A e \in 1..RankIn(F, t) : \E i \in F \cap 1..t : RankIn(F, i) = e
  BY <1>6 DEF T
<1> QED BY <1>2, <1>3, <1>7


\* The places of the keys that came first.
Firsts(ns) == {i \in 1..Len(ns) : \A j \in 1..(i - 1) : ~SameKey(ns[j], ns[i])}
Rank(ns, i) == RankIn(Firsts(ns), i)

\* The entry of the first key at i, once t keys have been set.
IsEntry(entry, i, t, ns) ==
  /\ entry.key = ns[i]
  /\ entry.value \in i..t
  /\ entry.value = i \/ SameKey(ns[entry.value], ns[i])
  /\ \A j \in (entry.value + 1)..t : ~SameKey(ns[j], ns[i])

Entries == [key : Keys, value : Nat]
DictArgs(ns) == \E n \in Nat : ns \in [1..n -> Keys]

\* What the first t keys make of a dictionary.
Holding(items, t, ns) ==
  /\ DictArgs(ns) /\ t \in 0..Len(ns)
  /\ items \in Seq(Entries) /\ Len(items) = Rank(ns, t)
  /\ \A i \in Firsts(ns) \cap 1..t : IsEntry(items[Rank(ns, i)], i, t, ns)

LEMMA DictArgsAre ==
  ASSUME NEW ns, DictArgs(ns)
  PROVE  Len(ns) \in Nat /\ (\A i \in 1..Len(ns) : ns[i] \in Keys) /\ Firsts(ns) \subseteq Nat \ {0}
<1>1. PICK n \in Nat : ns \in [1..n -> Keys]
  BY DEF DictArgs
<1>2. Len(ns) = n
  BY <1>1
<1> QED BY <1>1, <1>2 DEF Firsts

\* A key met before has a first.
LEMMA HasFirst ==
  ASSUME NEW ns, DictArgs(ns), NEW t \in 0..Len(ns), NEW k, NEW j \in 1..t, SameKey(ns[j], k)
  PROVE  \E i \in Firsts(ns) \cap 1..t : SameKey(ns[i], k)
<1> DEFINE U == {i \in 1..t : SameKey(ns[i], k)}
<1>0. Len(ns) \in Nat
  BY DictArgsAre
<1>1. PICK i \in U : \A x \in U : i <= x
  <2>1. U \subseteq Nat /\ U # {}
    OBVIOUS
  <2> HIDE DEF U
  <2> QED BY <2>1, NatLeast
<1>2. ASSUME NEW x \in 1..(i - 1), SameKey(ns[x], ns[i]) PROVE FALSE
  <2>1. SameKey(ns[x], k)
    BY <1>1, <1>2, SameKeyOn
  <2>2. x \in U /\ ~(i <= x)
    BY <1>1, <2>1
  <2> QED BY <1>1, <2>2
<1>3. i \in Firsts(ns)
  BY <1>0, <1>1, <1>2 DEF Firsts
<1> QED BY <1>1, <1>3

\* The entries of a dictionary with the key k.
LEMMA EntryOfIs ==
  ASSUME NEW items, NEW t, NEW ns, Holding(items, t, ns), NEW k \in Keys
  PROVE  /\ EntryOf(items, k) = {e \in 1..Len(items) : SameKey(items[e].key, k)}
         /\ EntryOf(items, k) # {} => /\ FirstEntry(items, k) \in 1..Len(items)
                                      /\ SameKey(items[FirstEntry(items, k)].key, k)
<1> DEFINE E == EntryOf(items, k)
<1>1. items \in Seq(Entries) /\ DOMAIN items = 1..Len(items) /\ Len(items) \in Nat
  BY DEF Holding
<1>2. \A e \in 1..Len(items) : items[e].key \in Keys
  <2>1. \A e \in 1..Len(items) : items[e] \in Entries
    BY <1>1
  <2> QED BY <2>1 DEF Entries
<1>3. \A e \in 1..Len(items) : ValueEquals(items[e].key, k, items[e].key = k) <=> SameKey(items[e].key, k)
  BY <1>2, KeyEquals
<1>4. E = {e \in 1..Len(items) : SameKey(items[e].key, k)}
  BY <1>1, <1>3 DEF EntryOf
<1>5. ASSUME E # {} PROVE FirstEntry(items, k) \in E
  <2>1. E \subseteq Nat
    BY <1>1, <1>4
  <2> HIDE DEF E
  <2>2. PICK e \in E : \A x \in E : e <= x
    BY <1>5, <2>1, NatLeast
  <2>3. (CHOOSE i \in E : \A j \in E : i <= j) \in E
    BY <2>2
  <2> QED BY <2>3 DEF FirstEntry, E
<1> QED BY <1>4, <1>5

\* A key that is new.
LEMMA HoldingNew ==
  ASSUME NEW items, NEW t \in Nat, NEW ns, Holding(items, t, ns), t < Len(ns),
         \A e \in 1..Len(items) : ~SameKey(items[e].key, ns[t + 1])
  PROVE  Holding(Append(items, [key |-> ns[t + 1], value |-> t + 1]), t + 1, ns)
<1> DEFINE F == Firsts(ns)
           x == [key |-> ns[t + 1], value |-> t + 1]
           s == Append(items, x)
<1>0. /\ DictArgs(ns) /\ items \in Seq(Entries) /\ Len(items) = RankIn(F, t) /\ Len(ns) \in Nat
      /\ \A i \in F \cap 1..t : IsEntry(items[RankIn(F, i)], i, t, ns)
      /\ F \subseteq Nat \ {0} /\ t + 1 \in 1..Len(ns) /\ t \in 0..Len(ns) /\ t + 1 \in 0..Len(ns)
  BY DictArgsAre DEF Holding, Rank
<1>1. x \in Entries /\ x.key = ns[t + 1] /\ x.value = t + 1
  BY <1>0, DictArgsAre DEF Entries
<1>2. \A j \in 1..t : ~SameKey(ns[j], ns[t + 1])
  <2> SUFFICES ASSUME NEW j \in 1..t, SameKey(ns[j], ns[t + 1]) PROVE FALSE
    OBVIOUS
  <2>1. PICK i \in F \cap 1..t : SameKey(ns[i], ns[t + 1])
    BY <1>0, HasFirst
  <2>2. RankIn(F, i) \in 1..Len(items)
    BY <1>0, RankIsPlace
  <2>3. items[RankIn(F, i)].key = ns[i]
    BY <1>0 DEF IsEntry
  <2> QED BY <2>1, <2>2, <2>3
<1>3. t + 1 \in F
  BY <1>0, <1>2 DEF Firsts
<1> HIDE DEF F, x
<1>4. RankIn(F, t + 1) = RankIn(F, t) + 1 /\ RankIn(F, t) \in Nat
  BY <1>3, RankNext
<1>5. /\ s \in Seq(Entries) /\ Len(s) = Len(items) + 1
      /\ \A e \in 1..Len(items) : s[e] = items[e]
      /\ s[Len(items) + 1] = x
  BY <1>0, <1>1, AppendProperties
<1> HIDE DEF s
<1>6. ASSUME NEW i \in F \cap 1..(t + 1) PROVE IsEntry(s[RankIn(F, i)], i, t + 1, ns)
  <2>1. CASE i = t + 1
    <3>1. s[RankIn(F, i)] = x
      BY <1>0, <1>4, <1>5, <2>1
    <3>2. (t + 1 + 1)..(t + 1) = {}
      OBVIOUS
    <3> QED BY <1>1, <2>1, <3>1, <3>2 DEF IsEntry
  <2>2. CASE i # t + 1
    <3>1. i \in F \cap 1..t /\ i \in Nat
      BY <2>2
    <3>2. RankIn(F, i) \in 1..Len(items)
      BY <1>0, <3>1, RankIsPlace
    <3> DEFINE y == items[RankIn(F, i)]
    <3>3. s[RankIn(F, i)] = y /\ IsEntry(y, i, t, ns)
      BY <1>0, <1>5, <3>1, <3>2
    <3>4. ~SameKey(ns[t + 1], ns[i])
      BY <1>2, <3>1, SameKeyBack
    <3>5. y.value \in Nat
      BY <3>1, <3>3 DEF IsEntry
    <3> HIDE DEF y
    <3>6. IsEntry(y, i, t + 1, ns)
      <4>1. y.key = ns[i] /\ y.value \in i..t + 1 /\ (y.value = i \/ SameKey(ns[y.value], ns[i]))
        BY <3>1, <3>3 DEF IsEntry
      <4>2. ASSUME NEW j \in (y.value + 1)..(t + 1) PROVE ~SameKey(ns[j], ns[i])
        <5>1. j = t + 1 \/ j \in (y.value + 1)..t
          BY <3>5
        <5> QED BY <3>3, <3>4, <5>1 DEF IsEntry
      <4> QED BY <4>1, <4>2 DEF IsEntry
    <3> QED BY <3>3, <3>6
  <2> QED BY <2>1, <2>2
<1> QED BY <1>0, <1>4, <1>5, <1>6 DEF Holding, Rank, F, s, x

\* A key that an entry has.
LEMMA HoldingAgain ==
  ASSUME NEW items, NEW t \in Nat, NEW ns, Holding(items, t, ns), t < Len(ns),
         NEW e \in 1..Len(items), SameKey(items[e].key, ns[t + 1])
  PROVE  Holding([items EXCEPT ![e].value = t + 1], t + 1, ns)
<1> DEFINE F == Firsts(ns)
           y == [items[e] EXCEPT !.value = t + 1]
           s == [items EXCEPT ![e] = y]
           k == ns[t + 1]
<1>0. /\ DictArgs(ns) /\ items \in Seq(Entries) /\ Len(items) = RankIn(F, t) /\ Len(ns) \in Nat
      /\ \A i \in F \cap 1..t : IsEntry(items[RankIn(F, i)], i, t, ns)
      /\ F \subseteq Nat \ {0} /\ t + 1 \in 1..Len(ns) /\ t \in 0..Len(ns) /\ t + 1 \in 0..Len(ns)
  BY DictArgsAre DEF Holding, Rank
<1>1. items[e] \in Entries
  BY <1>0
<1>2. y \in Entries /\ y.key = items[e].key /\ y.value = t + 1
  <2> DEFINE z == items[e]
  <2>1. z \in Entries
    BY <1>1
  <2> HIDE DEF z
  <2>2. [z EXCEPT !.value = t + 1] \in Entries /\ [z EXCEPT !.value = t + 1].key = z.key
        /\ [z EXCEPT !.value = t + 1].value = t + 1
    BY <2>1 DEF Entries
  <2> QED BY <2>2 DEF z
<1> HIDE DEF F, y
<1>9. /\ \A i, j \in F : RankIn(F, i) = RankIn(F, j) => i = j
      /\ \A d \in 1..RankIn(F, t) : \E i \in F \cap 1..t : RankIn(F, i) = d
  BY <1>0, RankIsPlace
<1>3. PICK i0 \in F \cap 1..t : RankIn(F, i0) = e
  BY <1>0, <1>9
<1>4. items[e].key = ns[i0] /\ SameKey(ns[i0], k)
  BY <1>0, <1>3 DEF IsEntry
<1>5. t + 1 \notin F
  <2>1. i0 \in 1..(t + 1) - 1
    BY <1>3
  <2> QED BY <1>4, <2>1 DEF Firsts, F
<1>6. RankIn(F, t + 1) = RankIn(F, t)
  BY <1>5, RankNext
<1>7. /\ s \in Seq(Entries) /\ Len(s) = Len(items)
      /\ \A d \in 1..Len(items) : s[d] = IF d = e THEN y ELSE items[d]
  BY <1>0, <1>2, ExceptSeq
<1>8. ASSUME NEW i \in F \cap 1..(t + 1) PROVE IsEntry(s[RankIn(F, i)], i, t + 1, ns)
  <2>1. i \in F \cap 1..t /\ i \in Nat
    BY <1>5
  <2>2. RankIn(F, i) \in 1..Len(items)
    BY <1>0, <2>1, RankIsPlace
  <2>3. CASE RankIn(F, i) = e
    <3>1. i = i0
      BY <1>3, <1>9, <2>3
    <3>2. s[RankIn(F, i)] = y
      BY <1>7, <2>2, <2>3
    <3>3. SameKey(ns[t + 1], ns[i])
      BY <1>4, <3>1, SameKeyBack
    <3>4. (t + 1 + 1)..(t + 1) = {} /\ t + 1 \in i..t + 1
      BY <2>1
    <3> QED BY <1>2, <1>4, <3>1, <3>2, <3>3, <3>4 DEF IsEntry
  <2>4. CASE RankIn(F, i) # e
    <3> DEFINE x == items[RankIn(F, i)]
    <3>1. s[RankIn(F, i)] = x /\ IsEntry(x, i, t, ns)
      BY <1>0, <1>7, <2>1, <2>2, <2>4
    <3>2. ~SameKey(ns[t + 1], ns[i])
      <4> SUFFICES ASSUME SameKey(ns[t + 1], ns[i]) PROVE FALSE
        OBVIOUS
      <4>1. SameKey(ns[i0], ns[i])
        BY <1>4, SameKeyOn
      <4>2. SameKey(ns[i], ns[i0])
        BY <4>1, SameKeyBack
      <4>3. i # i0 /\ i \in Nat /\ i0 \in Nat /\ i \in F /\ i0 \in F /\ i >= 1 /\ i0 >= 1
        BY <1>3, <2>1, <2>4
      <4>4. CASE i < i0
        <5>1. i \in 1..(i0 - 1)
          BY <4>3, <4>4
        <5> QED BY <4>2, <4>3, <5>1 DEF F, Firsts
      <4>5. CASE i0 < i
        <5>1. i0 \in 1..(i - 1)
          BY <4>3, <4>5
        <5> QED BY <4>1, <4>3, <5>1 DEF F, Firsts
      <4> QED BY <4>3, <4>4, <4>5
    <3>3. x.value \in Nat
      BY <2>1, <3>1 DEF IsEntry
    <3> HIDE DEF x, s
    <3>4. IsEntry(x, i, t + 1, ns)
      <4>1. x.key = ns[i] /\ x.value \in i..t + 1 /\ (x.value = i \/ SameKey(ns[x.value], ns[i]))
        BY <2>1, <3>1 DEF IsEntry
      <4>2. ASSUME NEW j \in (x.value + 1)..(t + 1) PROVE ~SameKey(ns[j], ns[i])
        <5>1. j = t + 1 \/ j \in (x.value + 1)..t
          BY <3>3
        <5> QED BY <3>1, <3>2, <5>1 DEF IsEntry
      <4> QED BY <4>1, <4>2 DEF IsEntry
    <3> QED BY <3>1, <3>4
  <2> QED BY <2>3, <2>4
<1> HIDE DEF s
<1>10. Holding(s, t + 1, ns)
  BY <1>0, <1>6, <1>7, <1>8 DEF Holding, Rank, F
<1> QED BY <1>10 DEF s, y


\* An item that is put comes last, whether or not the room had to be made.
LEMMA PutLast ==
  ASSUME NEW b, DOMAIN b = {"items", "cap", "want"}, NEW x, NEW granted, Put(b, x, granted).ok
  PROVE  /\ Put(b, x, granted).box.items = Append(b.items, x)
         /\ DOMAIN Put(b, x, granted).box = {"items", "cap", "want"}
<1> DEFINE room == Room(b, granted)
           c == [b EXCEPT !.cap = room.cap, !.items = Append(@, x)]
           r == [ok |-> room.ok, box |-> IF room.ok THEN c ELSE b]
<1>1. Put(b, x, granted) = r
  BY Zenon DEF Put
<1>2. c.items = Append(b.items, x) /\ DOMAIN c = {"items", "cap", "want"}
  <2>1. c = [k \in DOMAIN b |-> IF k = "items" THEN Append(b.items, x) ELSE IF k = "cap" THEN room.cap ELSE b[k]]
    <3> HIDE DEF room
    <3> QED OBVIOUS
  <2> HIDE DEF c, room
  <2> QED BY <2>1
<1> HIDE DEF room, c
<1>3. r.ok = room.ok /\ r.box = IF room.ok THEN c ELSE b
  OBVIOUS
<1>4. r.ok
  BY <1>1
<1>5. r.box = c
  BY <1>3, <1>4
<1> QED BY <1>1, <1>2, <1>5

DictInv ==
  op = "dict" =>
    /\ DOMAIN box = {"items", "cap", "want"} /\ Holding(box.items, todo, args)
    /\ at = "done" /\ answer.ok => todo = Len(args)

LEMMA HoldingNothing ==
  ASSUME NEW ns, DictArgs(ns)
  PROVE  Holding(<<>>, 0, ns)
<1>1. Rank(ns, 0) = 0
  BY RankNext DEF Rank
<1>2. 0 \in 0..Len(ns) /\ Firsts(ns) \cap 1..0 = {}
  BY DictArgsAre
<1>3. <<>> \in Seq(Entries) /\ Len(<<>>) = 0
  OBVIOUS
<1> QED BY <1>1, <1>2, <1>3 DEF Holding

LEMMA DictGoesOn ==
  ASSUME NEW b, DOMAIN b = {"items", "cap", "want"}, NEW t, NEW ns, Holding(b.items, t, ns), t < Len(ns),
         NEW granted, DictSet(b, ns[t + 1], t + 1, granted).ok
  PROVE  /\ Holding(DictSet(b, ns[t + 1], t + 1, granted).box.items, t + 1, ns)
         /\ DOMAIN DictSet(b, ns[t + 1], t + 1, granted).box = {"items", "cap", "want"}
<1> DEFINE k == ns[t + 1]
           v == t + 1
           set == DictSet(b, k, v, granted)
           e == FirstEntry(b.items, k)
<1>0. t \in Nat /\ k \in Keys
  <2>1. DictArgs(ns) /\ t \in 0..Len(ns)
    BY DEF Holding
  <2>2. Len(ns) \in Nat /\ \A i \in 1..Len(ns) : ns[i] \in Keys
    BY <2>1, DictArgsAre
  <2>3. t \in Nat /\ t + 1 \in 1..Len(ns)
    BY <2>1, <2>2
  <2> QED BY <2>2, <2>3
<1>1. CASE EntryOf(b.items, k) # {}
  <2> DEFINE c == [b EXCEPT !.items[e].value = v]
             s == [b.items EXCEPT ![e].value = v]
  <2>1. set = [ok |-> TRUE, box |-> c]
    BY <1>1 DEF DictSet
  <2>2. c = [b EXCEPT !.items = s]
    OBVIOUS
  <2>3. e \in 1..Len(b.items) /\ SameKey(b.items[e].key, k)
    BY <1>0, <1>1, EntryOfIs
  <2>4. Holding(s, t + 1, ns)
    BY <1>0, <2>3, HoldingAgain
  <2> HIDE DEF s
  <2>5. [b EXCEPT !.items = s].items = s /\ DOMAIN [b EXCEPT !.items = s] = {"items", "cap", "want"}
    OBVIOUS
  <2> HIDE DEF c, k, v, e
  <2>6. set.box = c
    BY <2>1
  <2> QED BY <2>2, <2>4, <2>5, <2>6 DEF k, v
<1>2. CASE EntryOf(b.items, k) = {}
  <2> DEFINE x == [key |-> k, value |-> v]
  <2>1. set = Put(b, x, granted)
    BY <1>2 DEF DictSet
  <2>2. \A d \in 1..Len(b.items) : ~SameKey(b.items[d].key, k)
    BY <1>0, <1>2, EntryOfIs
  <2>3. Holding(Append(b.items, x), t + 1, ns)
    BY <1>0, <2>2, HoldingNew
  <2>4. set.box.items = Append(b.items, x) /\ DOMAIN set.box = {"items", "cap", "want"}
    <3>1. Put(b, x, granted).ok
      BY <2>1
    <3> HIDE DEF x, set
    <3> QED BY <2>1, <3>1, PutLast
  <2> QED BY <2>3, <2>4
<1> QED BY <1>1, <1>2

LEMMA DictInvInductive == Spec => [](AnswerInv /\ DictInv)
<1>1. Init => DictInv
  BY DEF Init, DictInv
<1>2. AnswerInv /\ DictInv /\ [Next]_vars => DictInv'
  <2> SUFFICES ASSUME AnswerInv, DictInv, [Next]_vars, op' = "dict" PROVE DictInv'
    BY DEF DictInv
  <2>0. StartDict \/ DictPair \/ DictEnd \/ UNCHANGED vars
    <3>1. CASE at' = "idle"
      BY <3>1 DEF AnswerInv, Next, vars, Take, Finished, Begin, Running,
         Binary, Unary, Comparison, KeyComparison, Extreme, StartRange, RangeItem, RangeEnd, GivesUp, Completes,
         StartList, ListItem, ListEnd, StartUnpack, UnpackPlain, UnpackStar, UnpackEnd
    <3>2. CASE at' # "idle"
      BY <3>2, ContainerSteps
    <3> QED BY <3>1, <3>2
  <2>1. CASE StartDict
    <3>1. PICK n \in 0..MaxPairs, granted \in BOOLEAN : \E ks \in [1..n -> Keys] :
            IF granted THEN Begin("dict", ks, NewContainer(0, n), 0) ELSE Finished("dict", ks, Oom)
      BY <2>1 DEF StartDict
    <3>2. PICK ks \in [1..n -> Keys] :
            IF granted THEN Begin("dict", ks, NewContainer(0, n), 0) ELSE Finished("dict", ks, Oom)
      BY <3>1
    <3>3. at = "idle" /\ box = NoContainer /\ todo = 0
      BY <2>1 DEF StartDict, Idle, AnswerInv
    <3>4. DictArgs(ks)
      <4>1. n \in Nat
        BY OperationsAssumption
      <4> QED BY <4>1 DEF DictArgs
    <3>5. args' = ks /\ todo' = 0 /\ (box' = NewContainer(0, n) \/ box' = NewContainer(0, 0))
          /\ ~(at' = "done" /\ answer'.ok)
      BY <3>2, <3>3, Answers DEF Begin, Finished, NoContainer, Oom
    <3>6. box'.items = <<>> /\ DOMAIN box' = {"items", "cap", "want"}
      BY <3>5 DEF NewContainer
    <3> QED BY <3>4, <3>5, <3>6, HoldingNothing DEF DictInv
  <2>2. CASE DictPair
    <3>1. at = "running" /\ op = "dict" /\ args' = args /\ todo < Len(args)
      BY <2>2 DEF DictPair, Running
    <3>2. DOMAIN box = {"items", "cap", "want"} /\ Holding(box.items, todo, args)
      BY <3>1 DEF DictInv
    <3>3. PICK granted \in BOOLEAN :
            IF DictSet(box, args[todo + 1], todo + 1, granted).ok
            THEN box' = DictSet(box, args[todo + 1], todo + 1, granted).box /\ todo' = todo + 1 /\ UNCHANGED <<at, answer>>
            ELSE GivesUp
      BY <2>2 DEF DictPair
    <3>4. CASE GivesUp
      <4>1. box' = box /\ todo' = todo /\ answer' = Oom
        BY <3>4 DEF GivesUp
      <4>2. ~answer'.ok
        BY <4>1, Answers DEF Oom
      <4> QED BY <3>1, <3>2, <4>1, <4>2 DEF DictInv
    <3>5. CASE ~GivesUp
      <4>1. /\ DictSet(box, args[todo + 1], todo + 1, granted).ok
            /\ box' = DictSet(box, args[todo + 1], todo + 1, granted).box /\ todo' = todo + 1 /\ at' = at
        BY <3>3, <3>5
      <4>2. Holding(box'.items, todo + 1, args) /\ DOMAIN box' = {"items", "cap", "want"}
        BY <3>1, <3>2, <4>1, DictGoesOn
      <4> QED BY <3>1, <4>1, <4>2 DEF DictInv
    <3> QED BY <3>4, <3>5
  <2>3. CASE DictEnd
    BY <2>3 DEF DictEnd, Running, Completes, DictInv
  <2>4. CASE UNCHANGED vars
    BY <2>4 DEF DictInv, vars
  <2> QED BY <2>0, <2>1, <2>2, <2>3, <2>4
<1> QED BY <1>1, <1>2, AnswerInvInductive, PTL DEF Spec

(* A dictionary under construction, refused or not, has one entry for each      *)
(* different key set so far, in the order they first came and under the key     *)
(* that came first, with the value that came last, whatever the keys are.       *)
THEOREM DictIsExact == Spec => []DictExact
<1>1. DictInv => DictExact
  <2> SUFFICES ASSUME DictInv, op = "dict" PROVE DictExact
    BY DEF DictExact
  <2> DEFINE F == {i \in 1..todo : \A j \in 1..(i - 1) : ~SameKey(args[j], args[i])}
  <2>1. Holding(box.items, todo, args)
    BY DEF DictInv
  <2>2. todo \in 0..Len(args) /\ Len(args) \in Nat /\ todo \in Nat
    BY <2>1, DictArgsAre DEF Holding
  <2>3. F = Firsts(args) \cap 1..todo
    BY <2>2 DEF Firsts
  <2>4. Cardinality(F) = Rank(args, todo)
    BY <2>3 DEF Rank, RankIn
  <2>5. ASSUME NEW i \in F PROVE IsEntry(box.items[Cardinality(F \cap 1..i)], i, todo, args)
    <3>1. F \cap 1..i = Firsts(args) \cap 1..i
      BY <2>2, <2>3
    <3>2. Cardinality(F \cap 1..i) = Rank(args, i)
      BY <3>1 DEF Rank, RankIn
    <3> QED BY <2>1, <2>3, <3>2 DEF Holding
  <2>6. Len(box.items) = Cardinality(F)
    BY <2>1, <2>4 DEF Holding
  <2>7. at = "done" /\ answer.ok => todo = Len(args)
    BY DEF DictInv
  <2> QED BY <2>5, <2>6, <2>7 DEF DictExact, IsEntry
<1> QED BY <1>1, DictInvInductive, PTL
=============================================================================
