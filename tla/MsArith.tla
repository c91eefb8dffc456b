------------------------------- MODULE MsArith -------------------------------
(* Arithmetic on words: the fast paths of the machine (src/vm/ms_vm.c), which *)
(* check for overflow before they compute, and the general operators they fall *)
(* back on (src/object/ms_operator.c).                                         *)
EXTENDS MsNumber

Nothing == [tag |-> "none", kind |-> "none", q |-> 0, neg |-> FALSE]
Gives(n)   == [ok |-> TRUE, why |-> "", value |-> n]
Raises(w)  == [ok |-> FALSE, why |-> w, value |-> Nothing]

BinaryOps == {"ADD", "SUB", "MUL", "DIV", "FLOORDIV", "MOD", "POW", "SHL", "SHR"}
UnaryOps  == {"PLUS", "NEG", "INVERT", "NOT", "abs", "int"}

\* What does not fit in a word is computed modulo its width: no check may rely on it.
AddOverflows(l, r) == \/ r > 0 /\ l > Wrap(MaxWord - r)
                      \/ r < 0 /\ l < Wrap(MinWord - r)

SubOverflows(l, r) == \/ r > 0 /\ l < Wrap(MinWord + r)
                      \/ r < 0 /\ l > Wrap(MaxWord + r)

\* The product of two negative words is checked against the wrong limit.
MulOverflowsMixed(l, r) ==
  CASE l = 0 \/ r = 0 -> FALSE
    [] l = -1 -> r = MinWord
    [] r = -1 -> l = MinWord
    [] OTHER -> \/ l > 0 /\ r > 0 /\ l > CDiv(MaxWord, r)
                \/ l > 0 /\ r < 0 /\ r < CDiv(MinWord, l)
                \/ l < 0 /\ r > 0 /\ l < CDiv(MinWord, r)
                \/ l < 0 /\ r < 0 /\ l < CDiv(MinWord, r)

MulOverflows(l, r) ==
  CASE l = 0 \/ r = 0 -> FALSE
    [] l = -1 -> r = MinWord
    [] r = -1 -> l = MinWord
    [] OTHER -> \/ l > 0 /\ r > 0 /\ l > CDiv(MaxWord, r)
                \/ l > 0 /\ r < 0 /\ r < CDiv(MinWord, l)
                \/ l < 0 /\ r > 0 /\ l < CDiv(MinWord, r)
                \/ l < 0 /\ r < 0 /\ l < CDiv(MaxWord, r)

\* Neither operand of the unsigned shifts is negative.
ShiftRight(l, r) == IF l >= 0 THEN Unsigned(l) \div TwoTo(r) ELSE -1 - Unsigned(-1 - l) \div TwoTo(r)

(* The general operators, after a fast path has given up. *)
IntBinaryOp(op, l, r) ==
  CASE op \in {"ADD", "SUB", "MUL", "POW", "SHL"} -> Raises("integer overflow")
    [] op \in {"DIV", "FLOORDIV", "MOD"} /\ r = 0 -> Raises("division by zero")
    [] op = "DIV" /\ r # 0 -> Gives(SomeFloat)
    [] op \in {"FLOORDIV", "MOD"} /\ r # 0 -> Raises("integer overflow")
    [] op = "SHR" -> IF r < 0 \/ r >= WordBits THEN Raises("invalid shift count")
                     ELSE Gives(IntOf(ShiftRight(l, r)))

\* Squaring and multiplying: a round goes from res * base^exponent to half the
\* exponent, if its products fit.
RoundFits(s) ==
  /\ s.exponent % 2 = 1 => ~MulOverflows(s.res, s.base)
  /\ s.exponent \div 2 # 0 => ~MulOverflows(s.base, s.base)

PowerRound(s) ==
  IF s.exponent = 0 \/ ~RoundFits(s) THEN s
  ELSE [res      |-> IF s.exponent % 2 = 1 THEN Wrap(s.res * s.base) ELSE s.res,
        base     |-> IF s.exponent \div 2 # 0 THEN Wrap(s.base * s.base) ELSE s.base,
        exponent |-> s.exponent \div 2]

\* More rounds than are needed: one that does not fit leaves an exponent.
Power(l, r) ==
  LET s[k \in 0..r] == IF k = 0 THEN [res |-> 1, base |-> l, exponent |-> r] ELSE PowerRound(s[k - 1])
  IN  IF s[r].exponent = 0 THEN Gives(IntOf(s[r].res)) ELSE Raises("integer overflow")

FloorDivOrMod(op, l, r) ==
  LET remainder == CRem(l, r)
      result    == IF op = "FLOORDIV" THEN CDiv(l, r) ELSE remainder
  IN  IF remainder # 0 /\ ((l < 0) # (r < 0))
      THEN Wrap(result + (IF op = "FLOORDIV" THEN -1 ELSE r)) ELSE result

ShiftLeft(l, r) ==
  CASE r = WordBits - 1 -> IF l = 0 THEN Gives(IntOf(0))
                           ELSE IF l = -1 THEN Gives(IntOf(MinWord)) ELSE IntBinaryOp("SHL", l, r)
    [] OTHER -> IF MulOverflows(l, TwoTo(r)) THEN IntBinaryOp("SHL", l, r) ELSE Gives(IntOf(Wrap(l * TwoTo(r))))

\* msVmBinaryOp on two words.
BinaryOp(op, l, r) ==
  CASE op = "ADD" -> IF AddOverflows(l, r) THEN IntBinaryOp(op, l, r) ELSE Gives(IntOf(Wrap(l + r)))
    [] op = "SUB" -> IF SubOverflows(l, r) THEN IntBinaryOp(op, l, r) ELSE Gives(IntOf(Wrap(l - r)))
    [] op = "MUL" -> IF MulOverflows(l, r) THEN IntBinaryOp(op, l, r) ELSE Gives(IntOf(Wrap(l * r)))
    [] op = "DIV" -> IF r = 0 THEN IntBinaryOp(op, l, r) ELSE Gives(SomeFloat)
    [] op \in {"FLOORDIV", "MOD"} ->
         IF r = 0 \/ (l = MinWord /\ r = -1) THEN IntBinaryOp(op, l, r)
         ELSE Gives(IntOf(FloorDivOrMod(op, l, r)))
    [] op = "POW" -> IF r < 0 THEN Gives(SomeFloat) ELSE Power(l, r)
    [] op \in {"SHL", "SHR"} ->
         IF r < 0 \/ r >= WordBits THEN Raises("invalid shift count")
         ELSE IF op = "SHL" THEN ShiftLeft(l, r) ELSE Gives(IntOf(ShiftRight(l, r)))

(* One operand: operators, of which PLUS is compiled to 0 + n, and two builtin *)
(* functions, on a word or a float.                                             *)
Truthy(n) == ~FloatEq(n, IntOf(0))

\* 0.0 + f: the sum of zeros of both signs is positive.
ZeroPlus(f) == IF f.kind = "finite" /\ f.q = 0 THEN FloatOf(0, FALSE) ELSE f

Flipped(f) == IF f.kind = "nan" THEN f ELSE [f EXCEPT !.q = -@, !.neg = ~@]

Negation(v) == IF v # MinWord THEN Gives(IntOf(-v)) ELSE Raises("integer overflow")

WordUnaryOp(op, v) ==
  CASE op = "PLUS"   -> BinaryOp("ADD", 0, v)
    [] op = "NEG"    -> Negation(v)
    [] op = "INVERT" -> Gives(IntOf(-1 - v))
    [] op = "abs"    -> IF v >= 0 THEN Gives(IntOf(v))
                        ELSE IF v = MinWord THEN Raises("abs() overflow") ELSE Gives(IntOf(-v))
    [] op = "int"    -> Gives(IntOf(v))

FloatUnaryOp(op, f) ==
  CASE op = "PLUS"   -> Gives(ZeroPlus(f))
    [] op = "NEG"    -> Gives(Flipped(f))
    [] op = "INVERT" -> Raises("unsupported unary operand")
    [] op = "abs"    -> Gives(IF f.neg THEN Flipped(f) ELSE f)
    [] op = "int"    -> IF InWordRange(f) THEN Gives(IntOf(WordOf(f)))
                        ELSE Raises("cannot convert float to int")

UnaryOp(op, n) ==
  IF op = "NOT" THEN Gives(BoolOf(~Truthy(n)))
  ELSE IF n.tag = "int" THEN WordUnaryOp(op, WordOf(n)) ELSE FloatUnaryOp(op, n)

(* Folding of constants in the compiler (src/compiler/ms_compiler.c), which has *)
(* overflow checks of its own.                                                  *)
FoldMulOverflows(a, b) ==
  IF a > 0 THEN IF b > 0 THEN a > CDiv(MaxWord, b) ELSE b < CDiv(MinWord, a)
  ELSE IF b > 0 THEN a < CDiv(MinWord, b) ELSE a # 0 /\ b < CDiv(MaxWord, a)

NoFold == Raises("not folded")

FoldBinary(op, a, b) ==
  CASE op = "ADD" -> IF AddOverflows(a, b) THEN NoFold ELSE Gives(IntOf(Wrap(a + b)))
    [] op = "SUB" -> IF SubOverflows(a, b) THEN NoFold ELSE Gives(IntOf(Wrap(a - b)))
    [] op = "MUL" -> IF FoldMulOverflows(a, b) THEN NoFold ELSE Gives(IntOf(Wrap(a * b)))
    [] OTHER -> NoFold

\* A float under + is left as it is.
FoldUnaryPlain(op, n) ==
  CASE op = "NOT"    -> Gives(BoolOf(~Truthy(n)))
    [] op = "PLUS"   -> Gives(n)
    [] op = "INVERT" -> IF n.tag = "int" THEN Gives(IntOf(-1 - WordOf(n))) ELSE NoFold
    [] op = "NEG"    -> IF n.tag = "float" THEN Gives(Flipped(n))
                        ELSE IF WordOf(n) = MinWord THEN NoFold ELSE Gives(IntOf(-WordOf(n)))
    [] OTHER -> NoFold

FoldUnary(op, n) ==
  CASE op = "NOT"    -> Gives(BoolOf(~Truthy(n)))
    [] op = "PLUS"   -> Gives(IF n.tag = "float" THEN ZeroPlus(n) ELSE n)
    [] op = "INVERT" -> IF n.tag = "int" THEN Gives(IntOf(-1 - WordOf(n))) ELSE NoFold
    [] op = "NEG"    -> IF n.tag = "float" THEN Gives(Flipped(n))
                        ELSE IF WordOf(n) = MinWord THEN NoFold ELSE Gives(IntOf(-WordOf(n)))
    [] OTHER -> NoFold
=============================================================================
