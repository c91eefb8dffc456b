---------------------------- MODULE MsSemantics -----------------------------
(* What a program means, stated on its syntax tree and not on any code: the *)
(* reference the compiled code is compared with.  Scopes are nested maps    *)
(* from names to values, there are no slots, no stack and no jumps.         *)
(*                                                                          *)
(* The values of globals, and the results of operators and calls, are       *)
(* symbolic terms; the outcome of every comparison and of every test of a   *)
(* symbolic value is read from the oracle, a sequence of Booleans.  r is    *)
(* the state of the evaluation: r.val the value of the last expression,     *)
(* r.trace what the program has done to the outside so far, r.stop why it   *)
(* does not simply go on.  It stops as "starved" where the oracle has run   *)
(* out, so a prefix of the decisions determines a prefix of the trace.      *)
EXTENDS MsBytecode, SequencesExt

CONSTANTS MaxInt, LoopFuel

Term(tag, args) == [tag |-> tag, args |-> args]
IsTerm(v) == "args" \in DOMAIN v
GlobalTerm(name) == Term(name, <<>>)

Start(scopes, oracle) ==
  [scopes |-> scopes, globals |-> <<>>, oracle |-> oracle, trace |-> <<>>,
   fuel |-> LoopFuel, stop |-> "no", val |-> Nil]

Going(r) == r.stop = "no"
Stopped(r, why) == IF Going(r) THEN [r EXCEPT !.stop = why] ELSE r
Valued(r, v) == IF Going(r) THEN [r EXCEPT !.val = v] ELSE r
Does(r, event) == IF Going(r) THEN [r EXCEPT !.trace = Append(@, event), !.val = event] ELSE r

\* event(b) is what is seen when the outcome is b.
Decides(r, event(_)) ==
  IF ~Going(r) THEN r
  ELSE IF r.oracle = <<>> THEN Stopped(r, "starved")
  ELSE [r EXCEPT !.trace = Append(@, event(Head(r.oracle))),
                 !.val = Bool(Head(r.oracle)), !.oracle = Tail(@)]

\* Leaves in r.val the truth of v.
Tests(r, v) ==
  IF IsTerm(v) THEN Decides(r, LAMBDA b : Term("TEST", <<v, Bool(b)>>)) ELSE Valued(r, Bool(Truthy(v)))

\* An operator on two known integers is computed, and raises on overflow.
KnownInt(tag, args) ==
  CASE tag = "ADD" -> args[1].n + args[2].n
    [] tag = "SUB" -> args[1].n - args[2].n
    [] tag = "NEG" -> -args[1].n

Applies(r, tag, args) ==
  IF \E n \in DOMAIN args : args[n].tag # "int" THEN Does(r, Term(tag, args))
  ELSE LET n == KnownInt(tag, args)
       IN  IF -MaxInt - 1 <= n /\ n <= MaxInt THEN Valued(r, IntVal(n)) ELSE Stopped(r, "raised")

----------------------------------------------------------------------------
Bindings(r, name) == {n \in DOMAIN r.scopes : name \in DOMAIN r.scopes[n]}
Innermost(ns) == CHOOSE n \in ns : \A m \in ns : m <= n
With(f, x, v) == [y \in DOMAIN f \cup {x} |-> IF y = x THEN v ELSE f[y]]

Reads(r, name) ==
  IF ~Going(r) THEN r
  ELSE IF Bindings(r, name) # {} THEN Valued(r, r.scopes[Innermost(Bindings(r, name))][name])
  ELSE LET v == IF name \in DOMAIN r.globals THEN r.globals[name] ELSE GlobalTerm(name)
       IN  Valued(Does(r, Term("LOAD", <<GlobalTerm(name), v>>)), v)

StoresGlobal(r, name, v) ==
  [Does(r, Term("STORE", <<GlobalTerm(name), v>>)) EXCEPT !.globals = With(@, name, v)]

Assigns(r, name, v) ==
  IF ~Going(r) THEN r
  ELSE IF Bindings(r, name) # {}
  THEN [r EXCEPT !.scopes[Innermost(Bindings(r, name))] = With(@, name, v)]
  ELSE StoresGlobal(r, name, v)

Declares(r, name, v) ==
  IF ~Going(r) THEN r
  ELSE IF r.scopes = <<>> THEN StoresGlobal(r, name, v)
  ELSE [r EXCEPT !.scopes[Len(r.scopes)] = With(@, name, v)]

----------------------------------------------------------------------------
RECURSIVE Node(_, _, _)
Expr(r, e) == Node(r, e, TRUE)
Stmt(r, s) == Node(r, s, FALSE)

\* The values of several expressions, from left to right.
Exprs(r, es) ==
  LET next(d, e) == LET x == Expr(d[1], e) IN <<x, Append(d[2], x.val)>>
  IN  FoldLeft(next, <<r, <<>>>>, es)

Stmts(r, ss) == FoldLeft(LAMBDA x, s : Stmt(x, s), r, ss)

\* Every operand of a comparison is evaluated at most once, and none after
\* the first link that fails.
Compares(r, ops, es) ==
  LET link(d, n) ==
        LET x == Expr(d[1], es[n + 1])
            op == IF ops[n] = "NOT_IN" THEN "IN" ELSE ops[n]
            y == Decides(x, LAMBDA b : Term(op, <<d[2], x.val, Bool(b)>>))
            holds == IF Going(y) /\ ops[n] = "NOT_IN" THEN Valued(y, Bool(~Truthy(y.val))) ELSE y
        IN  IF d[3] THEN <<holds, x.val, Going(y) /\ Truthy(holds.val)>> ELSE d
      first == Expr(r, es[1])
  IN  FoldLeft(link, <<first, first.val, TRUE>>, [n \in DOMAIN ops |-> n])[1]

Logical(r, isAnd, left, right) ==
  LET l == Expr(r, left)
      t == Tests(l, l.val)
  IN  IF ~Going(t) THEN t
      ELSE IF Truthy(t.val) = isAnd THEN Expr(t, right) ELSE Valued(t, l.val)

Conditional(r, cond, then, otherwise) ==
  LET c == Expr(r, cond)
      t == Tests(c, c.val)
  IN  IF ~Going(t) THEN t ELSE IF Truthy(t.val) THEN Expr(t, then) ELSE Expr(t, otherwise)

Operation(r, e) ==
  LET a == Exprs(r, e.kids)
      args == IF e.tag = "PLUS" THEN <<IntVal(0)>> \o a[2] ELSE a[2]
  IN  IF ~Going(a[1]) THEN a[1]
      ELSE IF e.tag = "NOT"
      THEN LET t == Tests(a[1], args[1]) IN Valued(t, Bool(~Truthy(t.val)))
      ELSE Applies(a[1], IF e.tag = "PLUS" THEN "ADD" ELSE e.tag, args)

ExprNode(r, e) ==
  IF ~Going(r) THEN r
  ELSE CASE e.kind = "int" -> Valued(r, IntVal(e.val))
         [] e.kind = "bool" -> Valued(r, Bool(e.val = 1))
         [] e.kind = "nil" -> Valued(r, Nil)
         [] e.kind = "ident" -> Reads(r, e.tag)
         [] e.kind = "container" -> LET a == Exprs(r, e.kids) IN Valued(a[1], Term(e.tag, a[2]))
         [] e.kind \in {"unary", "binary"} -> Operation(r, e)
         [] e.kind = "logical" -> Logical(r, e.tag = "AND", e.kids[1], e.kids[2])
         [] e.kind = "conditional" -> Conditional(r, e.kids[1], e.kids[2], e.kids[3])
         [] e.kind = "compare" ->
              Compares(r, [n \in DOMAIN e.kids[1].kids |-> e.kids[1].kids[n].tag], Tail(e.kids))
         [] e.kind = "call" -> LET a == Exprs(r, e.kids) IN Does(a[1], Term("CALL", a[2]))
         [] e.kind = "lambda" -> Valued(r, Term("MAKE", <<>>))

----------------------------------------------------------------------------
\* One value for every target.
Spread(r, ts, vs) ==
  LET stars == {n \in DOMAIN ts : ts[n].kind = "star"}
      star == IF stars = {} THEN 0 ELSE CHOOSE n \in stars : TRUE
      a == Exprs(r, vs)
      extra == Len(vs) - Len(ts)
      item(n) == Term(IF n = star THEN "REST" ELSE "ITEM", <<a[2][1], IntVal(n)>>)
      shared(n) == CASE n < star \/ star = 0 -> a[2][n]
                     [] n = star -> Term("BUILD_LIST", SubSeq(a[2], n, n + extra))
                     [] n > star /\ star > 0 -> a[2][n + extra]
  IN  IF Len(vs) = 1 /\ Len(ts) > 1
      THEN <<Does(a[1], Term("UNPACK", <<a[2][1]>>)), [n \in DOMAIN ts |-> item(n)]>>
      ELSE <<a[1], IF Going(a[1]) THEN [n \in DOMAIN ts |-> shared(n)] ELSE <<>>>>

\* All values first, then the targets from the last to the first.
Binds(r, s) ==
  LET ts == s.kids[1].kids
      v == Spread(r, ts, s.kids[2].kids)
      name(n) == IF ts[n].kind = "star" THEN ts[n].kids[1].tag ELSE ts[n].tag
      bind(x, n) == IF s.kind = "decl" THEN Declares(x, name(n), v[2][n]) ELSE Assigns(x, name(n), v[2][n])
  IN  FoldLeft(bind, v[1], Reverse([n \in DOMAIN ts |-> n]))

Updates(r, s) ==
  LET name == s.kids[1].tag
      old == Reads(r, name)
      by == IF s.kind = "incdec" THEN Valued(old, IntVal(1)) ELSE Expr(old, s.kids[2])
      new == Applies(by, s.tag, <<old.val, by.val>>)
  IN  IF Going(by) THEN Assigns(new, name, new.val) ELSE by

\* The block's own variables end with it.
InBlock(r, ss) ==
  IF ~Going(r) THEN r
  ELSE LET x == Stmts([r EXCEPT !.scopes = Append(@, <<>>)], ss)
       IN  [x EXCEPT !.scopes = SubSeq(@, 1, Len(r.scopes))]

RECURSIVE Loop(_, _, _, _)
Loop(r, cond, step, body) ==
  LET c == IF cond = <<>> THEN Valued(r, Bool(TRUE)) ELSE Expr(r, cond[1])
      t == Tests(c, c.val)
      b == Stmt([t EXCEPT !.fuel = @ - 1], body)
      x == IF b.stop = "continue" THEN [b EXCEPT !.stop = "no"] ELSE b
  IN  IF ~Going(r) THEN r
      ELSE IF r.fuel = 0 THEN Stopped(r, "fuel")
      ELSE IF ~Going(t) \/ ~Truthy(t.val) THEN t
      ELSE IF x.stop = "break" THEN [x EXCEPT !.stop = "no"]
      ELSE Loop(Stmts(x, step), cond, step, body)

For(r, s) ==
  LET x == Loop(Stmt([r EXCEPT !.scopes = Append(@, <<>>)], s.kids[1]),
                <<s.kids[2]>>, <<s.kids[3]>>, s.kids[4])
  IN  [x EXCEPT !.scopes = SubSeq(@, 1, Len(r.scopes))]

If(r, s) ==
  LET c == Expr(r, s.kids[1])
      t == Tests(c, c.val)
  IN  IF ~Going(t) THEN t
      ELSE IF Truthy(t.val) THEN Stmt(t, s.kids[2])
      ELSE IF Len(s.kids) = 3 THEN Stmt(t, s.kids[3]) ELSE t

StmtNode(r, s) ==
  IF ~Going(r) THEN r
  ELSE CASE s.kind = "source" -> Stmts(r, s.kids)
         [] s.kind = "exprstmt" -> Expr(r, s.kids[1])
         [] s.kind \in {"decl", "assign"} -> Binds(r, s)
         [] s.kind \in {"augassign", "incdec"} -> Updates(r, s)
         [] s.kind = "block" -> InBlock(r, s.kids)
         [] s.kind = "if" -> If(r, s)
         [] s.kind = "while" -> Loop(r, <<s.kids[1]>>, <<>>, s.kids[2])
         [] s.kind = "for" -> IF Len(s.kids) = 1 THEN Loop(r, <<>>, <<>>, s.kids[1]) ELSE For(r, s)
         [] s.kind \in {"global", "pass"} -> r
         [] s.kind \in {"break", "continue"} -> Stopped(r, s.kind)
         [] s.kind = "return" ->
              Stopped(IF s.kids = <<>> THEN Valued(r, Nil) ELSE Expr(r, s.kids[1]), "return")
         [] s.kind = "func" -> Declares(r, s.tag, Term("MAKE", <<>>))

Node(r, n, isExpr) == IF isExpr THEN ExprNode(r, n) ELSE StmtNode(r, n)

\* A body that ends without a return gives nil.
Finished(r) == IF Going(r) THEN [r EXCEPT !.stop = "return", !.val = Nil] ELSE r

ModuleMeaning(root, oracle) == Finished(Stmt(Start(<<>>, oracle), root))

\* The parameters of a function start as unknown values of their names.
FunctionMeaning(f, oracle) ==
  LET params == {f.kids[1].kids[n].tag : n \in DOMAIN f.kids[1].kids}
      r == Start(<<[p \in params |-> GlobalTerm(p)]>>, oracle)
  IN  IF f.kind = "lambda" THEN Stopped(Expr(r, f.kids[2]), "return")
      ELSE Finished(Stmts(r, f.kids[2].kids))
============================================================================
