----------------------------- MODULE MCCompiled -----------------------------
(* Programs for MsCompiledRun: every expression of a few levels over two    *)
(* globals, every short body of every kind of loop, branches, assignments   *)
(* with several targets, nested blocks that shadow names, and functions.    *)
EXTENDS MsCompiledRun

NameList == <<"a", "b", "f", "g", "h", "q", "x", "y", "z">>

Node(kind, tag, kids) == Ast(kind, tag, 0, kids)
N(x) == Node("ident", x, <<>>)
a == N("a")
b == N("b")
f == N("f")
Lit(n) == Ast("int", "", n, <<>>)
True == Ast("bool", "", 1, <<>>)
Call(e) == Node("call", "", <<f, e>>)
Bin(tag, l, r) == Node("binary", tag, <<l, r>>)
Un(tag, e) == Node("unary", tag, <<e>>)
Logic(tag, l, r) == Node("logical", tag, <<l, r>>)
Cond(c, t, o) == Node("conditional", "", <<c, t, o>>)
Op1(tag) == Node("op", tag, <<>>)
Cmp(o, l, r) == Node("compare", "", <<Node("ops", "", <<Op1(o)>>), l, r>>)
Chain(o, p, l, m, r) == Node("compare", "", <<Node("ops", "", <<Op1(o), Op1(p)>>), l, m, r>>)
ListOf(es) == Node("container", "BUILD_LIST", es)
DictOf(es) == Node("container", "BUILD_DICT", es)

Targets(ts) == Node("targets", "", ts)
Values(es) == Node("values", "", es)
Star(x) == Node("star", "", <<N(x)>>)
Decl(x, e) == Node("decl", "", <<Targets(<<N(x)>>), Values(<<e>>)>>)
Set(x, e) == Node("assign", "", <<Targets(<<N(x)>>), Values(<<e>>)>>)
Do(e) == Node("exprstmt", "", <<e>>)
Block(ss) == Node("block", "", ss)
If(c, ss) == Node("if", "", <<c, Block(ss)>>)
IfElse(c, ss, os) == Node("if", "", <<c, Block(ss), Block(os)>>)
While(c, ss) == Node("while", "", <<c, Block(ss)>>)
Forever(ss) == Node("for", "", <<Block(ss)>>)
For(i, c, p, ss) == Node("for", "", <<i, c, p, Block(ss)>>)
Break == Node("break", "", <<>>)
Continue == Node("continue", "", <<>>)
Pass == Node("pass", "", <<>>)
Ret(es) == Node("return", "", es)
Inc(x) == Node("incdec", "ADD", <<N(x)>>)
AddTo(x, e) == Node("augassign", "ADD", <<N(x), e>>)
Func(name, ps, ss) == Node("func", name, <<Node("params", "", ps), Block(ss)>>)
Lambda(ps, e) == Node("lambda", "", <<Node("params", "", ps), e>>)
Global(xs) == Node("global", "", xs)
File(ss) == Node("source", "", ss)

----------------------------------------------------------------------------
Simple == {a, Call(b), Lit(1), True}
Level1 ==
  {Logic(t, l, r) : t \in {"AND", "OR"}, l \in Simple, r \in {b, Lit(2)}} \cup
  {Cond(c, a, b) : c \in Simple} \cup
  {Cmp("NOT_IN", a, b), Chain("LT", "LT", a, b, Call(a)), Chain("NOT_IN", "LT", a, Call(b), b),
   Un("NOT", a), Un("PLUS", a), Un("NEG", Lit(3)), Bin("ADD", Lit(3), Lit(1)), Bin("SUB", Lit(2), Lit(1)),
   ListOf(<<a, Call(b)>>), DictOf(<<a, b>>), Lambda(<<>>, Lit(1))}

Inner == {Logic("AND", a, b), Logic("OR", b, a), Cond(a, b, Call(a)), Cmp("LT", a, b),
          Chain("LT", "LT", a, b, a), Chain("NOT_IN", "LT", a, b, a), Call(a)}
Level2 ==
  {Logic(t, l, r) : t \in {"AND", "OR"}, l \in Inner, r \in Inner} \cup
  {Cond(c, v, o) : c \in Inner, v \in {a, Logic("AND", a, b)}, o \in {b, Chain("NOT_IN", "LT", a, b, a)}} \cup
  {Chain(o, "LT", l, m, b) : o \in {"LT", "NOT_IN"}, l \in Inner, m \in Inner} \cup
  {Bin("ADD", l, r) : l \in Inner, r \in Inner}

ExprPrograms ==
  {File(<<Block(<<Decl("x", e), Do(Call(N("x")))>>)>>) : e \in Level1 \cup Level2} \cup
  {File(<<Do(Bin("ADD", a, e))>>) : e \in Level1}

----------------------------------------------------------------------------
X == N("x")
LoopStmts == {Break, Continue, If(a, <<Break>>), If(b, <<Continue>>), Do(Call(X)),
              Decl("y", Logic("AND", X, a)), Inc("x"), IfElse(b, <<>>, <<Break>>)}
Bodies == {<<>>} \cup {<<s>> : s \in LoopStmts} \cup {<<s, t>> : s \in LoopStmts, t \in LoopStmts}

LoopPrograms ==
  {File(<<Block(<<Decl("x", b), loop, Do(Call(X))>>)>>) :
     loop \in {While(a, body) : body \in Bodies} \cup {Forever(body) : body \in Bodies} \cup
              {For(Decl("x", a), Cmp("LT", X, b), AddTo("x", Call(X)), body) : body \in Bodies} \cup
              {Forever(<<While(a, body), Break>>) : body \in Bodies}}

----------------------------------------------------------------------------
Assign(kind, ts, es) == Node(kind, "", <<Targets(ts), Values(es)>>)
Y == N("y")
AssignPrograms ==
  {File(<<Assign("decl", <<X, Y>>, <<a, b>>), Assign("assign", <<X, Y>>, <<Y, X>>), Do(Call(Y))>>),
   File(<<Block(<<Assign("decl", <<X, Y>>, <<a, b>>), Assign("assign", <<X, Y>>, <<Y, X>>), Do(Call(Y))>>)>>),
   File(<<Assign("decl", <<X, Star("y")>>, <<a>>), Do(Call(Y))>>),
   File(<<Block(<<Assign("decl", <<X, Star("y"), N("z")>>, <<Call(a)>>), Do(Bin("ADD", X, Call(N("z"))))>>)>>),
   File(<<Block(<<Assign("decl", <<X, Star("y")>>, <<a, b, Call(a)>>), Do(Bin("ADD", X, Call(Y)))>>)>>),
   File(<<Block(<<Assign("decl", <<Star("x"), Y>>, <<a>>), Do(Call(X)), Do(Call(Y))>>)>>),
   File(<<Assign("decl", <<X, X>>, <<a, b>>), Do(Call(X))>>),
   File(<<Decl("x", a), Block(<<Set("x", b), Decl("x", X), Block(<<Decl("x", Call(X)), Inc("x")>>), Do(Call(X))>>),
          Do(Call(X))>>),
   File(<<Block(<<Do(a), Decl("x", b), Block(<<Do(Call(X)), Decl("y", a), Do(Y)>>), Decl("y", X), Do(Call(Y)), Do(X)>>)>>),
   File(<<If(a, <<Decl("x", b), Do(X)>>), Block(<<Decl("y", a), Do(b), Decl("x", Y), Do(Call(X)), Do(Y)>>)>>),
   File(<<Global(<<X>>), Decl("x", a), AddTo("x", Logic("OR", X, b)), Do(Call(X))>>),
   File(<<Decl("x", a), Block(<<Global(<<X>>), Set("x", b), Decl("x", a), Inc("x")>>), Do(Call(X))>>),
   File(<<Func("g", <<>>, <<Pass>>), Do(Call(N("g"))), Block(<<Func("g", <<>>, <<Pass>>), Do(Call(N("g")))>>)>>)}

----------------------------------------------------------------------------
Endings == {<<Ret(<<a>>)>>, <<Ret(<<>>)>>, <<Do(Call(X))>>, <<>>, <<IfElse(a, <<Ret(<<X>>)>>, <<Ret(<<b>>)>>)>>,
            <<While(X, <<Ret(<<X>>)>>)>>, <<Forever(<<If(X, <<Ret(<<b>>)>>), If(a, <<Break>>)>>)>>}
Beginnings == {<<>>, <<If(Y, <<Ret(<<Y>>)>>)>>, <<Decl("z", Logic("AND", X, Y)), Set("x", N("z"))>>,
               <<Global(<<a>>), Set("a", X)>>}

\* The body's last statement is an `if` without an alternative whose block
\* returns: the branch not taken has nowhere to go.
OpenFuncs == {Func("g", <<X, Y>>, <<If(Y, <<Ret(<<Y>>)>>)>>)}

Funcs ==
  ({Func("g", <<X, Y>>, s \o e) : s \in Beginnings, e \in Endings} \ OpenFuncs) \cup
  {Lambda(<<X>>, e) : e \in {X, Logic("AND", X, a), Cond(X, a, b), Chain("NOT_IN", "LT", X, a, b)}}

----------------------------------------------------------------------------
\* Sources with an error in them, and constructs that are not implemented.
Long == <<a, a, a, a>>
Deep(e) == Un("NOT", Un("NOT", Un("NOT", Un("NOT", e))))
BadStmts ==
  {Set("q", a), Decl("x", Deep(Deep(b))), Do(Node("call", "", <<f>> \o Long)), Do(ListOf(Long)),
   Do(Node("index", "", <<a, b>>)), Node("import", "", <<>>), Do(Lit(9)), Do(Un("NEG", Lit(4))),
   Assign("decl", <<X, Y>>, <<a, b, a>>), Assign("decl", <<Star("x")>>, <<a>>), Decl("f", Lit(1)),
   Assign("assign", <<Node("index", "", <<>>)>>, <<a>>), Assign("decl", <<X, Y, N("z"), N("q")>>, <<a>>),
   Block(<<Block(<<Block(<<Block(<<Pass>>)>>)>>)>>), Ret(<<a, b>>),
   Func("g", <<X>>, <<Decl("y", X), Func("h", <<>>, <<Do(X), Set("y", a)>>)>>),
   Func("g", <<X>>, <<Global(<<X>>)>>), Func("g", <<Star("x")>>, <<Pass>>), Do(Lambda(<<Star("x")>>, a)),
   Func("g", <<>>, <<Global(<<Y>>), Decl("y", a)>>), Func("g", <<>>, <<Set("a", Lit(1))>>),
   Func("g", <<>>, <<Global(<<Y>>), Func("y", <<>>, <<>>)>>),
   Node("augassign", "ADD", <<Node("index", "", <<>>), a>>)}
BadPrograms ==
  {File(<<Decl("f", a), While(a, <<s, If(b, <<Break>>)>>), For(Decl("x", a), X, Inc("x"), <<s, Continue>>)>>) :
     s \in BadStmts} \cup
  {File(<<s, Forever(<<s, Break>>)>>) : s \in BadStmts}

\* A program with one of everything, for every allocation that may fail.
Whole ==
  File(<<Global(<<X>>), Decl("x", Lit(1)),
         For(Decl("y", a), Chain("LT", "NOT_IN", Y, b, X), Inc("y"),
             <<If(Logic("AND", a, Y), <<Continue>>),
               Do(Cond(b, Call(Bin("ADD", Lit(1), Lit(1))), Un("NEG", a))), Break>>),
         Func("g", <<Y>>, <<While(Y, <<Ret(<<Lambda(<<>>, a)>>)>>)>>),
         Assign("assign", <<X, Star("x")>>, <<a, b, ListOf(<<a>>)>>)>>)

AllPrograms == ExprPrograms \cup LoopPrograms \cup AssignPrograms \cup Funcs
Job(p, n) == [program |-> p, fuel |-> n]

\* The n-th allocation is refused; with Plenty, none is.
Plenty == 1000
MCJobs == {Job(p, Plenty) : p \in AllPrograms} \cup
          {Job(p, n) : p \in BadPrograms \cup {Whole}, n \in 0..120 \cup {Plenty}}
OpenJobs == {Job(p, Plenty) : p \in OpenFuncs}
============================================================================
