------------------------------ MODULE MsNumber ------------------------------
(* Numbers of the interpreter: words of WordBits bits in two's complement    *)
(* and binary floats of Precision bits, their equality, hash and order       *)
(* (src/object/ms_object.c, ms_operator.c) and the checked arithmetic of the *)
(* machine (src/vm/ms_vm.c).                                                 *)
EXTENDS Integers

CONSTANTS WordBits,    \* 64 in the code
          Precision,   \* 53: significant bits of a float
          FracBits,    \* the finest float is 2^(-FracBits)
          ExpMax       \* the largest has exponent ExpMax

ASSUME NumberAssumption ==
  /\ WordBits \in Nat \ {0, 1} /\ Precision \in Nat \ {0} /\ FracBits \in Nat /\ ExpMax \in Nat
  /\ Precision + ExpMax > WordBits + FracBits   \* floats reach past the words, as they do in C
  /\ Precision <= WordBits                      \* and are whole numbers there

(*************************** words and C arithmetic ***************************)

\* b to the n: a function of its own for every n, so that it can be unfolded.
PowerOf(b, n) == LET power[k \in 0..n] == IF k = 0 THEN 1 ELSE b * power[k - 1] IN power[n]
TwoTo(n) == PowerOf(2, n)

Half == TwoTo(WordBits - 1)
MinWord == -Half
MaxWord == Half - 1
Words == MinWord..MaxWord
Wrap(x) == ((x + Half) % (2 * Half)) - Half
Unsigned(x) == x % (2 * Half)
Magnitude(x) == IF x < 0 THEN -x ELSE x

\* C rounds a quotient towards zero, and the remainder has the dividend's sign.
CDiv(a, b) == LET q == Magnitude(a) \div Magnitude(b) IN IF (a < 0) = (b < 0) THEN q ELSE -q
CRem(a, b) == a - b * CDiv(a, b)

(*********************************** numbers **********************************)

\* A number is held exactly, as a count q of units of 2^(-FracBits).
One == TwoTo(FracBits)
IntOf(v)    == [tag |-> "int", kind |-> "finite", q |-> v * One, neg |-> v < 0]
FloatOf(q, s) == [tag |-> "float", kind |-> "finite", q |-> q, neg |-> s]
\* A float whose value depends on rounding that no property is about.
SomeFloat   == [tag |-> "float", kind |-> "some", q |-> 0, neg |-> FALSE]
NaN         == [tag |-> "float", kind |-> "nan", q |-> 0, neg |-> FALSE]
InfQ == TwoTo(Precision + ExpMax)
Infinity(s) == [tag |-> "float", kind |-> "inf", q |-> IF s THEN -InfQ ELSE InfQ, neg |-> s]
BoolOf(b)   == [tag |-> "bool", kind |-> "finite", q |-> IF b THEN One ELSE 0, neg |-> FALSE]

Quanta == {m * TwoTo(e) : m \in 0..(TwoTo(Precision) - 1), e \in 0..ExpMax}
Ints   == {IntOf(v) : v \in Words}
Floats == {FloatOf(q, FALSE) : q \in Quanta} \cup {FloatOf(-q, TRUE) : q \in Quanta}   \* -0.0 among them
            \cup {NaN, Infinity(FALSE), Infinity(TRUE)}
Numbers == Ints \cup Floats

WordOf(n) == CDiv(n.q, One)     \* also the conversion of a float, which drops the fraction

\* (double)v: the nearest float, and of two the one with an even significand.
ToDouble(v) ==
  LET a    == Magnitude(v) * One
      e    == CHOOSE k \in 0..ExpMax : a < TwoTo(Precision + k) /\ (k = 0 \/ a >= TwoTo(Precision + k - 1))
      m    == a \div TwoTo(e)
      rest == 2 * (a % TwoTo(e))
      up   == rest > TwoTo(e) \/ (rest = TwoTo(e) /\ m % 2 = 1)
      q    == (IF up THEN m + 1 ELSE m) * TwoTo(e)
  IN  FloatOf(IF v < 0 THEN -q ELSE q, v < 0)

(* Comparison of floats in C. *)
FloatEq(a, b) == a.kind # "nan" /\ b.kind # "nan" /\ a.q = b.q
FloatLt(a, b) == a.kind # "nan" /\ b.kind # "nan" /\ a.q < b.q

\* The float is in the range of the words; NaN and the infinities are not.
InWordRange(f) == f.kind = "finite" /\ f.q >= MinWord * One /\ f.q < (MaxWord + 1) * One
\* The float is a whole number that is a word.
IsWhole(f) == InWordRange(f) /\ FloatEq(ToDouble(WordOf(f)), f)

(****************************** equality and hash *****************************)

\* The comparison C makes when an int meets a double.
CrossEqualsAsFloats(i, f) == FloatEq(ToDouble(WordOf(i)), f)

CrossEquals(i, f) == IsWhole(f) /\ WordOf(f) = WordOf(i)

\* Identity is asked first, for floats too.
ValueEqualsSameFirst(a, b, same) ==
  \/ same
  \/ a.tag = "int" /\ b.tag = "float" /\ CrossEquals(a, b)
  \/ a.tag = "float" /\ b.tag = "int" /\ CrossEquals(b, a)
  \/ a.tag = b.tag /\ (IF a.tag = "float" THEN FloatEq(a, b) ELSE a.q = b.q)

\* same: the two operands are one object.
ValueEquals(a, b, same) ==
  IF same THEN a.tag = "float" => FloatEq(a, a)
  ELSE \/ a.tag = "int" /\ b.tag = "float" /\ CrossEquals(a, b)
       \/ a.tag = "float" /\ b.tag = "int" /\ CrossEquals(b, a)
       \/ a.tag = b.tag /\ (IF a.tag = "float" THEN FloatEq(a, b) ELSE a.q = b.q)

\* What is mixed into the hash: the bits of a word, or those of the value itself.
HashOf(n) ==
  IF n.tag = "float" /\ IsWhole(n) THEN [word |-> TRUE, of |-> IntOf(WordOf(n))]
  ELSE [word |-> n.tag = "int", of |-> n]

(************************************ order ***********************************)

Unordered == 2
Sign(x) == IF x < 0 THEN -1 ELSE IF x > 0 THEN 1 ELSE 0

CompareIntFloatRounded(i, f) ==
  CASE f.kind = "nan" -> Unordered
    [] OTHER -> IF FloatLt(ToDouble(i), f) THEN -1 ELSE IF FloatLt(f, ToDouble(i)) THEN 1 ELSE 0

CompareIntFloat(i, f) ==
  CASE f.kind = "nan" -> Unordered
    [] f.kind = "inf" -> IF f.q > 0 THEN -1 ELSE 1
    [] f.kind = "finite" /\ f.q >= (MaxWord + 1) * One -> -1
    [] f.kind = "finite" /\ f.q < MinWord * One -> 1
    [] OTHER -> LET truncated == WordOf(f)
                IN  IF i # truncated THEN Sign(i - truncated)
                    ELSE IF FloatEq(ToDouble(truncated), f) THEN 0
                    ELSE IF f.q > 0 THEN -1 ELSE 1

\* The operands are numbers.
Compare(a, b) ==
  CASE a.tag = "int" /\ b.tag = "int" -> Sign(WordOf(a) - WordOf(b))
    [] a.tag = "float" /\ b.tag = "float" ->
         IF FloatLt(a, b) THEN -1 ELSE IF FloatLt(b, a) THEN 1 ELSE IF FloatEq(a, b) THEN 0 ELSE Unordered
    [] a.tag = "int" /\ b.tag = "float" -> CompareIntFloat(WordOf(a), b)
    [] OTHER -> LET order == CompareIntFloat(WordOf(b), a)
                IN  IF order = Unordered THEN order ELSE -order

ComparisonFromOrder(op, order) ==
  CASE op = "EQ" -> order = 0
    [] op = "NE" -> order # 0
    [] op = "LT" -> order = -1
    [] op = "LE" -> order = -1 \/ order = 0
    [] op = "GT" -> order = 1
    [] op = "GE" -> order = 1 \/ order = 0
=============================================================================
