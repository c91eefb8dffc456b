----------------------------- MODULE MsCompiler -----------------------------
(* The walk over the syntax tree that turns a source file into prototypes: *)
(* expressions, statements, functions, name resolution and constant        *)
(* folding.  Every operator takes the compiler's state and returns the     *)
(* state the C function of that name leaves behind; MsEmit holds what they *)
(* do to the function under construction.                                  *)
(*                                                                         *)
(* A node of the tree is Ast(kind, tag, val, kids): tag is an operator or  *)
(* a name, val the value of a literal.  Not in the model: the REPL's       *)
(* PRINT_EXPR, floats and strings as literals, line numbers.               *)
EXTENDS MsEmit

CONSTANTS MaxNodes,      \* MS_COMPILER_MAX_NODE_DEPTH
          MaxItems,      \* 255: arguments, container items, targets
          MaxInt,        \* INT64_MAX
          StateGlobals   \* the names the state knew before this compilation

ASSUME CompilerAssumption ==
  /\ MaxNodes \in Nat
  /\ MaxItems \in Nat \ {0}
  /\ MaxInt \in Nat

Ast(kind, tag, val, kids) == [kind |-> kind, tag |-> tag, val |-> val, kids |-> kids]

NoFunc == [code |-> <<>>]

CompilerInit(fuel) ==
  [fn |-> NoFunc, parents |-> <<>>, built |-> <<>>, sticky |-> "OK", diags |-> 0,
   nodes |-> 0, fuel |-> fuel, broken |-> FALSE]

\* Visit, on a node that may be entered, one level deeper.
Entered(c, Visit(_)) ==
  IF ~Live(c) THEN c
  ELSE IF c.nodes + 1 > MaxNodes THEN Fail(c, "SYNTAX")
  ELSE LET k == Visit([c EXCEPT !.nodes = @ + 1]) IN [k EXCEPT !.nodes = @ - 1]

----------------------------------------------------------------------------
\* Constant folding.
InInt(n) == -MaxInt - 1 <= n /\ n <= MaxInt

FoldBinary(tag, l, r) ==
  IF l.tag # "int" \/ r.tag # "int" THEN NoValue
  ELSE LET n == IF tag = "ADD" THEN l.n + r.n ELSE l.n - r.n
       IN  IF InInt(n) THEN IntVal(n) ELSE NoValue

FoldUnary(tag, v) ==
  CASE v = NoValue -> NoValue
    [] v # NoValue /\ tag = "NOT" -> Bool(~Truthy(v))
    [] v.tag = "int" /\ tag = "PLUS" -> v
    [] v.tag = "int" /\ tag = "NEG" /\ InInt(-v.n) -> IntVal(-v.n)
    [] OTHER -> NoValue

\* The compiler's state after the attempt (reading a number allocates, and
\* the nesting is checked) and the value, NoValue when e is not constant.
RECURSIVE EvalConst(_, _, _)
EvalConst(c, e, level) ==
  IF ~Live(c) THEN <<c, NoValue>>
  ELSE IF level > 0 /\ c.nodes + level > MaxNodes THEN <<Fail(c, "SYNTAX"), NoValue>>
  ELSE CASE e.kind = "int" ->
              LET k == Alloc(c)
              IN  <<k, IF Live(k) /\ InInt(e.val) THEN IntVal(e.val) ELSE NoValue>>
         [] e.kind = "bool" -> <<c, Bool(e.val = 1)>>
         [] e.kind = "nil" -> <<c, Nil>>
         [] e.kind = "unary" /\ e.tag = "NEG" /\ e.kids[1].kind = "int" ->
              LET k == IF c.nodes + level + 1 > MaxNodes THEN Fail(c, "SYNTAX") ELSE Alloc(c)
              IN  <<k, IF Live(k) /\ InInt(-e.kids[1].val) THEN IntVal(-e.kids[1].val)
                       ELSE NoValue>>
         [] e.kind = "unary" /\ ~(e.tag = "NEG" /\ e.kids[1].kind = "int") ->
              LET o == EvalConst(c, e.kids[1], level + 1)
              IN  <<o[1], FoldUnary(e.tag, o[2])>>
         [] e.kind = "binary" /\ e.tag \in {"ADD", "SUB"} ->
              LET l == EvalConst(c, e.kids[1], level + 1)
                  r == EvalConst(l[1], e.kids[2], level + 1)
              IN  IF l[2] = NoValue THEN l ELSE <<r[1], FoldBinary(e.tag, l[2], r[2])>>
         [] OTHER -> <<c, NoValue>>

EmitConst(c, v) ==
  CASE v.tag = "int" -> EmitConstObject(c, v)
    [] v.tag = "bool" -> Emit(c, IF Truthy(v) THEN "LOAD_TRUE" ELSE "LOAD_FALSE", 0, 0, 1)
    [] OTHER -> Emit(c, "LOAD_NIL", 0, 0, 1)

EmitIntLiteral(c, e) ==
  LET k == Alloc(c)
  IN  IF Live(k) /\ ~InInt(e.val) THEN Emit(Report(k), "LOAD_NIL", 0, 0, 1)
      ELSE IF Live(k) THEN EmitConstObject(k, IntVal(e.val)) ELSE k

----------------------------------------------------------------------------
\* Names.
LocalOf(f, name) == ResolveLocal(f.scope, name)

ResolveName(c, name) ==
  CASE LocalOf(c.fn, name) # NoSlot -> "LOCAL"
    [] LocalOf(c.fn, name) = NoSlot /\ IsMarkedGlobal(c.fn.scope, name) -> "GLOBAL"
    [] LocalOf(c.fn, name) = NoSlot /\ ~IsMarkedGlobal(c.fn.scope, name) ->
         IF \E f \in 1..Len(c.parents) - 1 : LocalOf(c.parents[f], name) # NoSlot
         THEN "UPVALUE" ELSE "GLOBAL"

\* An assignment needs a local, a captured variable or a declared global.
ValidateStore(c, name) ==
  IF \/ ResolveName(c, name) # "GLOBAL"
     \/ IsMarkedGlobal(c.fn.scope, name)
     \/ name \in StateGlobals
  THEN c ELSE Fail(c, "SYNTAX")

EmitLoadName(c, name) ==
  CASE ~Live(c) -> c
    [] Live(c) /\ ResolveName(c, name) = "LOCAL" -> EmitLocal(c, "LOAD_LOCAL", LocalOf(c.fn, name))
    [] Live(c) /\ ResolveName(c, name) = "UPVALUE" -> Emit(Report(c), "LOAD_NIL", 0, 0, 1)
    [] Live(c) /\ ResolveName(c, name) = "GLOBAL" ->
         EmitConstant(c, "LOAD_GLOBAL", NameValue(name), 1)

EmitStoreName(c, name) ==
  CASE ~Live(c) -> c
    [] Live(c) /\ ResolveName(c, name) = "LOCAL" -> EmitLocal(c, "STORE_LOCAL", LocalOf(c.fn, name))
    [] Live(c) /\ ResolveName(c, name) = "UPVALUE" ->
         LET n == LocalCount(c.fn.scope)
         IN  ReleaseLocals(EmitLocal(AllocHiddenLocal(Report(c)), "STORE_LOCAL", n), n)
    [] Live(c) /\ ResolveName(c, name) = "GLOBAL" ->
         EmitConstant(c, "STORE_GLOBAL", NameValue(name), -1)

TargetName(t) == IF t.kind = "star" THEN t.kids[1].tag ELSE t.tag
Stars(ts) == {i \in DOMAIN ts : ts[i].kind = "star"}
StarTarget(ts) == IF Stars(ts) = {} THEN 0 ELSE CHOOSE i \in Stars(ts) : \A j \in Stars(ts) : i <= j

AtModuleTop(c) == c.fn.isModule /\ ScopeDepth(c.fn.scope) = 0

\* d.any: has this declaration declared anything yet.
DeclareTarget(d, name) ==
  LET c == IF Live(d.c) THEN Alloc(d.c) ELSE d.c
      marked == IsMarkedGlobal(c.fn.scope, name)
      new(k) == [c |-> k, any |-> TRUE]
  IN  CASE ~Live(c) -> [d EXCEPT !.c = c]
        [] Live(c) /\ AtModuleTop(c) /\ ~marked ->
             LET k == Alloc(c)
             IN  IF Live(k) THEN new([k EXCEPT !.fn.scope = MarkGlobal(@, name)])
                 ELSE [d EXCEPT !.c = k]
        [] Live(c) /\ AtModuleTop(c) /\ marked ->
             [c |-> [c EXCEPT !.fn.pending = @ \ {name}], any |-> d.any \/ name \in c.fn.pending]
        [] Live(c) /\ ~AtModuleTop(c) /\ ~c.fn.isModule /\ marked -> [d EXCEPT !.c = Fail(c, "SYNTAX")]
        [] OTHER -> IF HasLocalAtDepth(c.fn.scope, name) THEN [d EXCEPT !.c = c]
                    ELSE new(DeclareLocal(c, name))

StoreTarget(c, name, kind) ==
  LET k == IF Live(c) THEN Alloc(c) ELSE c
      v == IF kind = "assign" /\ Live(k) THEN ValidateStore(k, name) ELSE k
  IN  EmitStoreName(v, name)

\* The values are on the stack, the last on top.
BindTargets(c, kind, names) ==
  LET none == [c |-> c, any |-> FALSE]
      d == IF kind = "decl" THEN FoldLeft(DeclareTarget, none, names) ELSE none
      s == FoldLeft(LAMBDA k, name : StoreTarget(k, name, kind), d.c, Reverse(names))
  IN  IF Live(s) /\ kind = "decl" /\ ~d.any THEN Fail(s, "SYNTAX") ELSE s

CompileGlobal(c, names) ==
  FoldLeft(LAMBDA d, name :
             LET k == IF Live(d) THEN Alloc(d) ELSE d
                 new == ~IsMarkedGlobal(k.fn.scope, name)
                 m == IF new THEN Alloc(k) ELSE k
                 p == IF new /\ k.fn.isModule THEN Alloc(m) ELSE m
             IN  CASE ~Live(k) -> k
                   [] Live(k) /\ LocalOf(k.fn, name) # NoSlot -> Fail(k, "SYNTAX")
                   [] Live(k) /\ LocalOf(k.fn, name) = NoSlot ->
                        IF ~Live(p) THEN p
                        ELSE [p EXCEPT !.fn.scope = MarkGlobal(@, name),
                                       !.fn.pending = IF new /\ k.fn.isModule
                                                      THEN @ \cup {name} ELSE @],
           c, names)

----------------------------------------------------------------------------
\* Functions: the context of the function, and what its end makes of it.
PushFunc(c, isModule, params) ==
  LET k == Alloc(c)
  IN  IF Live(k) THEN [k EXCEPT !.fn = FuncCtx(isModule, params), !.parents = <<c.fn>> \o @]
      ELSE k

AbortFunc(c) ==
  [Asserted(c, c.fn.loops = <<>>) EXCEPT !.fn = Head(c.parents), !.parents = Tail(@)]

EndsInReturn(c) == c.fn.code # <<>> /\ c.fn.code[CurrentPc(c)].op = "RETURN"

ProtoOf(c) ==
  [code |-> c.fn.code, consts |-> c.fn.consts, paramCount |-> c.fn.params,
   localCount |-> c.fn.scope.localMax, stackSize |-> c.fn.max,
   variadic |-> FALSE, isAsync |-> FALSE]

\* Mutant: nothing is added to a body that does not end in RETURN.
PopFuncBare(c) ==
  LET k == Alloc(c)
  IN  AbortFunc(IF Live(k) THEN [k EXCEPT !.built = Append(@, ProtoOf(k))] ELSE k)

PopFunc(c) ==
  LET e == IF EndsInReturn(c) THEN c
           ELSE Emit(Emit(c, "LOAD_NIL", 0, 0, 1), "RETURN", 0, 0, -1)
      k == IF Live(e) THEN Alloc(e) ELSE e
  IN  AbortFunc(IF Live(k) THEN [k EXCEPT !.built = Append(@, ProtoOf(k))] ELSE k)

\* The function made at run time is bound to its name.
BindFunctionName(c, name) ==
  LET k == IF Live(c) THEN Alloc(c) ELSE c
      m == IF IsMarkedGlobal(k.fn.scope, name) THEN k ELSE Alloc(k)
      d == DeclareLocal(k, name)
  IN  CASE ~Live(k) -> k
        [] Live(k) /\ ~k.fn.isModule /\ IsMarkedGlobal(k.fn.scope, name) -> Fail(k, "SYNTAX")
        [] Live(k) /\ AtModuleTop(k) ->
             IF Live(m) THEN EmitConstant([m EXCEPT !.fn.scope = MarkGlobal(@, name)],
                                          "STORE_GLOBAL", NameValue(name), -1)
             ELSE m
        [] OTHER -> IF Live(d) THEN EmitLocal(d, "STORE_LOCAL", LocalCount(k.fn.scope)) ELSE d

\* The prototype just built becomes a constant of the function around it.
MakeFunction(c) ==
  LET k == IF Len(c.fn.consts) >= MaxConsts THEN Fail(c, "SYNTAX") ELSE Alloc(c)
  IN  IF ~Live(c) THEN c
      ELSE IF ~Live(k) THEN k
      ELSE Emit([k EXCEPT !.fn.consts = Append(@, Val("proto", Len(k.built)))],
                "UNIMPLEMENTED", 0, Len(c.fn.consts), 1)

----------------------------------------------------------------------------
Negated == {"NOT_IN"}
CompareOp(tag) == IF tag = "NOT_IN" THEN OpNo("IN") ELSE OpNo(tag)
EmitNot(c) == Emit(c, "UNARY", OpNo("NOT"), 0, 0)

\* An expression that cannot be compiled still leaves one value.
Unsupported(c) == Emit(Report(c), "LOAD_NIL", 0, 0, 1)

\* An expression or a statement.
RECURSIVE CompileNode(_, _, _)
CompileExpr(c, e) == CompileNode(c, e, TRUE)
CompileStmt(c, s) == CompileNode(c, s, FALSE)

CompileExprs(c, es) == FoldLeft(LAMBDA k, e : CompileExpr(k, e), c, es)
CompileStmts(c, ss) == FoldLeft(LAMBDA k, s : CompileStmt(k, s), c, ss)

\* `and` and `or` keep the value of the operand that decides in a temporary.
CompileLogical(c, e) ==
  LET k == EvalConst(c, e.kids[1], 0)
      n == LocalCount(c.fn.scope)
      h == AllocHiddenLocal(k[1])
      l == EmitLocal(EmitLocal(CompileExpr(h, e.kids[1]), "STORE_LOCAL", n), "LOAD_LOCAL", n)
      j == EmitJumpPlaceholder(l, IF e.tag = "AND" THEN "JUMP_IF_FALSE" ELSE "JUMP_IF_TRUE")
      r == EmitLocal(CompileExpr(j, e.kids[2]), "STORE_LOCAL", n)
      p == PatchToCurrent(r, CurrentPc(l), j.fn.depth)
  IN  CASE k[2] # NoValue /\ Truthy(k[2]) = (e.tag = "OR") -> EmitConst(k[1], k[2])
        [] k[2] # NoValue /\ Truthy(k[2]) # (e.tag = "OR") -> CompileExpr(k[1], e.kids[2])
        [] k[2] = NoValue -> ReleaseLocals(EmitLocal(p, "LOAD_LOCAL", n), n)

\* kids: the condition, the value, the value otherwise.
CompileConditional(c, e) ==
  LET k == EvalConst(c, e.kids[1], 0)
      b == CompileExpr(k[1], e.kids[1])
      j == EmitJumpPlaceholder(b, "JUMP_IF_FALSE")
      v == CompileExpr(j, e.kids[2])
      x == EmitJumpPlaceholder(v, "JUMP")
      p == PatchToCurrent(AtDepth(x, j.fn.depth), CurrentPc(b), j.fn.depth)
      o == CompileExpr(p, e.kids[3])
      d == IF Live(o) THEN Asserted(o, o.fn.depth = x.fn.depth) ELSE o
  IN  CASE k[2] # NoValue /\ Truthy(k[2]) -> CompileExpr(k[1], e.kids[2])
        [] k[2] # NoValue /\ ~Truthy(k[2]) -> CompileExpr(k[1], e.kids[3])
        [] k[2] = NoValue -> PatchToCurrent(d, CurrentPc(v), x.fn.depth)

\* a < b < c keeps b on the stack; a link that fails jumps to the end.
CompileDirectChain(c, ops, es) ==
  LET start == [c |-> CompileExprs(c, SubSeq(es, 1, 2)), pcs |-> <<>>]
      link(d, n) ==
        LET k == Emit(d.c, "CMP_CHAIN", CompareOp(ops[n]), 0, -1)
            a == IF Live(k) THEN Alloc(k) ELSE k
        IN  [c |-> CompileExpr(a, es[n + 2]), pcs |-> Append(d.pcs, CurrentPc(d.c))]
      links == FoldLeft(link, start, [n \in 1..Len(ops) - 1 |-> n])
      last == Emit(links.c, "COMPARE", CompareOp(ops[Len(ops)]), 0, -1)
  IN  FoldLeft(LAMBDA k, pc : PatchTo(k, pc, CurrentPc(last)), last, links.pcs)

\* With a negated link, the operand two links share is kept in a temporary.
CompileGenericChain(c, ops, es) ==
  LET n == LocalCount(c.fn.scope)
      depth == c.fn.depth
      h == AllocHiddenLocal(c)
      link(d, i) ==
        LET l == IF i = 1 THEN CompileExpr(d.c, es[1]) ELSE EmitLocal(d.c, "LOAD_LOCAL", n)
            r == EmitLocal(EmitLocal(CompileExpr(l, es[i + 1]), "STORE_LOCAL", n), "LOAD_LOCAL", n)
            t == Emit(r, "COMPARE", CompareOp(ops[i]), 0, -1)
            u == IF ops[i] \in Negated THEN EmitNot(t) ELSE t
            j == EmitJumpPlaceholder(u, "JUMP_IF_FALSE")
            a == IF Live(j) THEN Alloc(j) ELSE j
        IN  [c |-> a, pcs |-> Append(d.pcs, CurrentPc(u))]
      links == FoldLeft(link, [c |-> h, pcs |-> <<>>], [i \in DOMAIN ops |-> i])
      t == Emit(links.c, "LOAD_TRUE", 0, 0, 1)
      x == EmitJumpPlaceholder(t, "JUMP")
      f == Emit(PatchAll(AtDepth(x, depth), links.pcs, depth), "LOAD_FALSE", 0, 0, 1)
  IN  IF Live(h) THEN ReleaseLocals(PatchToCurrent(f, CurrentPc(t), depth + 1), n) ELSE h

\* kids: a node that lists the operators, then the operands.
CompileComparison(c, e) ==
  LET ops == [n \in DOMAIN e.kids[1].kids |-> e.kids[1].kids[n].tag]
      es == Tail(e.kids)
      k == Emit(CompileExprs(c, es), "COMPARE", CompareOp(ops[1]), 0, -1)
  IN  IF Len(ops) = 1 THEN IF ops[1] \in Negated THEN EmitNot(k) ELSE k
      ELSE IF \E n \in DOMAIN ops : ops[n] \in Negated THEN CompileGenericChain(c, ops, es)
      ELSE CompileDirectChain(c, ops, es)

\* kids: the callee, the arguments.
CompileCall(c, e) ==
  LET count == Len(e.kids) - 1
  IN  IF count > MaxItems \/ \E n \in 2..count + 1 : e.kids[n].kind = "kwarg" THEN Unsupported(c)
      ELSE Emit(CompileExprs(c, e.kids), "CALL", count, 0, -count)

CompileContainer(c, e) ==
  LET count == Len(e.kids)
      items == IF e.tag = "BUILD_DICT" THEN count \div 2 ELSE count
  IN  IF items > MaxItems THEN Unsupported(c)
      ELSE Emit(CompileExprs(c, e.kids), e.tag, items, 0, 1 - count)

CompileUnary(c, e) ==
  IF e.tag = "PLUS"
  THEN Emit(CompileExpr(EmitConst(c, IntVal(0)), e.kids[1]), "BINARY", OpNo("ADD"), 0, -1)
  ELSE Emit(CompileExpr(c, e.kids[1]), "UNARY", OpNo(e.tag), 0, 0)

CompileBinary(c, e) == Emit(CompileExprs(c, e.kids), "BINARY", OpNo(e.tag), 0, -1)

\* A constant operation is folded.
CompileOperator(c, e) ==
  LET k == EvalConst(c, e, 0)
  IN  CASE k[2] # NoValue -> EmitConst(k[1], k[2])
        [] k[2] = NoValue /\ e.kind = "unary" -> CompileUnary(k[1], e)
        [] k[2] = NoValue /\ e.kind = "binary" -> CompileBinary(k[1], e)

\* kids: a node that lists the parameters, then the body: the expression of
\* a lambda, the block of a function.
CompileFunction(c, e) ==
  LET params == e.kids[1].kids
      body == e.kids[2]
      failed == IF Len(params) > MaxLocals THEN Fail(c, "SYNTAX") ELSE Report(c)
      p == PushFunc(c, FALSE, Len(params))
      d == FoldLeft(LAMBDA k, x : LET a == Alloc(k)
                                  IN  IF Live(a) THEN DeclareLocal(a, x.tag) ELSE a, p, params)
      b == IF e.kind = "lambda" THEN Emit(CompileExpr(d, body), "RETURN", 0, 0, -1)
           ELSE CompileStmts(d, body.kids)
      m == MakeFunction(PopFunc(b))
  IN  CASE Len(params) > MaxLocals \/ \E n \in DOMAIN params : params[n].kind # "ident" ->
             IF e.kind = "lambda" THEN Emit(failed, "LOAD_NIL", 0, 0, 1) ELSE failed
        [] OTHER -> IF ~Live(p) THEN p
                    ELSE IF e.kind = "lambda" THEN m ELSE BindFunctionName(m, e.tag)

ExprNode(c, e) ==
  Entered(c, LAMBDA k :
    CASE e.kind = "int" -> EmitIntLiteral(k, e)
      [] e.kind \in {"bool", "nil"} -> EmitConst(k, IF e.kind = "nil" THEN Nil ELSE Bool(e.val = 1))
      [] e.kind = "ident" -> EmitLoadName(Alloc(k), e.tag)
      [] e.kind = "container" -> CompileContainer(k, e)
      [] e.kind \in {"unary", "binary"} -> CompileOperator(k, e)
      [] e.kind = "logical" -> CompileLogical(k, e)
      [] e.kind = "conditional" -> CompileConditional(k, e)
      [] e.kind = "compare" -> CompileComparison(k, e)
      [] e.kind = "call" -> CompileCall(k, e)
      [] e.kind = "lambda" -> CompileFunction(k, e)
      [] OTHER -> Unsupported(k))

----------------------------------------------------------------------------
\* a, *b, c := values: the surplus of several values is made into a list,
\* a single value is taken apart at run time.
PushValues(c, ts, vs) ==
  LET star == StarTarget(ts)
      middle == Len(vs) - Len(ts) + 1
      u == Emit(CompileExpr(c, vs[1]), "UNPACK", Len(ts),
                IF star = 0 THEN NoStar ELSE star - 1, Len(ts) - 1)
      l == Emit(CompileExprs(c, SubSeq(vs, 1, star - 1 + middle)), "BUILD_LIST", middle, 0, 1 - middle)
  IN  CASE Len(vs) = 1 /\ Len(ts) > 1 ->
             IF Len(ts) > MaxItems THEN Fail(c, "SYNTAX")
             ELSE IF Live(u) /\ u.fn.max < u.fn.depth + 1 THEN [u EXCEPT !.fn.max = u.fn.depth + 1]
             ELSE u
        [] ~(Len(vs) = 1 /\ Len(ts) > 1) /\ star > 0 ->
             CompileExprs(l, SubSeq(vs, star + middle, Len(vs)))
        [] OTHER -> CompileExprs(c, vs)

\* kids: a node that lists the targets, a node that lists the values.
CompileDeclOrAssign(c, s) ==
  LET ts == s.kids[1].kids
      vs == s.kids[2].kids
      star == StarTarget(ts)
      mismatch == IF star = 0 THEN Len(vs) # Len(ts) ELSE Len(vs) + 1 < Len(ts)
      refused == \/ star > 0 /\ Len(ts) < 2
                 \/ \E i \in DOMAIN ts : ts[i].kind \notin {"ident", "star"}
                 \/ star > 0 /\ Len(vs) > 1 /\ Len(vs) - Len(ts) + 1 > MaxItems
      v == PushValues(c, ts, vs)
  IN  CASE Len(vs) > 1 /\ mismatch /\ ~refused -> Fail(c, "SYNTAX")
        [] refused -> Report(c)
        [] OTHER -> IF Live(v) THEN BindTargets(v, s.kind, [i \in DOMAIN ts |-> TargetName(ts[i])])
                    ELSE v

\* x op= e, and x++ as x ADD= 1 without its own literal node.
CompileUpdate(c, s) ==
  LET name == s.kids[1].tag
      a == Alloc(c)
      k == IF Live(a) THEN ValidateStore(a, name) ELSE a
      l == EmitLoadName(k, name)
      v == IF s.kind = "incdec" THEN EmitConstObject(l, IntVal(1)) ELSE CompileExpr(l, s.kids[2])
  IN  IF s.kids[1].kind # "ident" THEN Report(c)
      ELSE EmitStoreName(Emit(v, "BINARY", OpNo(s.tag), 0, -1), name)

CompileBlock(c, s) ==
  IF ~CanNest(c.fn.scope) THEN Fail(c, "SYNTAX")
  ELSE PopScope(CompileStmts([c EXCEPT !.fn.scope = BeginBlock(@)], s.kids))

\* kids: the condition, the block, the alternative if there is one.
CompileIf(c, s) ==
  LET depth == c.fn.depth
      b == CompileExpr(c, s.kids[1])
      t == CompileStmt(EmitJumpPlaceholder(b, "JUMP_IF_FALSE"), s.kids[2])
      x == EmitJumpPlaceholder(t, "JUMP")
      o == CompileStmt(PatchToCurrent(x, CurrentPc(b), depth), s.kids[3])
  IN  IF Len(s.kids) = 2 THEN PatchToCurrent(t, CurrentPc(b), depth)
      ELSE PatchToCurrent(o, CurrentPc(t), depth)

\* kids: the condition, the body.
CompileWhile(c, s) ==
  LET depth == c.fn.depth
      head == CurrentPc(c)
      b == CompileExpr(LoopEnter(c, head, TRUE), s.kids[1])
      t == CompileStmt(EmitJumpPlaceholder(b, "JUMP_IF_FALSE"), s.kids[2])
  IN  IF ~CanEnterLoop(c) THEN LoopEnter(c, head, TRUE)
      ELSE LoopLeave(EmitBackEdge(t, head), <<CurrentPc(b)>>, depth)

CompileBareFor(c, s) ==
  LET head == CurrentPc(c)
      t == CompileStmt(LoopEnter(c, head, TRUE), s.kids[1])
  IN  IF ~CanEnterLoop(c) THEN LoopEnter(c, head, TRUE)
      ELSE LoopLeave(EmitBackEdge(t, head), <<>>, c.fn.depth)

\* Mutant: continue takes the step twice away, straight to the condition.
CompileForClauseNoStep(c, s) ==
  LET depth == c.fn.depth
      i == CompileStmt([c EXCEPT !.fn.scope = BeginBlock(@)], s.kids[1])
      head == CurrentPc(i)
      b == CompileExpr(LoopEnter(i, head, FALSE), s.kids[2])
      t == CompileStmt(EmitJumpPlaceholder(b, "JUMP_IF_FALSE"), s.kids[4])
      p == ResolveContinues(CompileStmt(t, s.kids[3]), depth)
  IN  IF ~CanNest(c.fn.scope) THEN Fail(c, "SYNTAX")
      ELSE IF ~CanEnterLoop(i) THEN PopScope(LoopEnter(i, head, FALSE))
      ELSE PopScope(LoopLeave(EmitBackEdge(p, head), <<CurrentPc(b)>>, depth))

\* kids: the initialisation, the condition, the step, the body.
CompileForClause(c, s) ==
  LET depth == c.fn.depth
      i == CompileStmt([c EXCEPT !.fn.scope = BeginBlock(@)], s.kids[1])
      head == CurrentPc(i)
      b == CompileExpr(LoopEnter(i, head, FALSE), s.kids[2])
      t == CompileStmt(EmitJumpPlaceholder(b, "JUMP_IF_FALSE"), s.kids[4])
      p == CompileStmt(ResolveContinues(t, depth), s.kids[3])
  IN  IF ~CanNest(c.fn.scope) THEN Fail(c, "SYNTAX")
      ELSE IF ~CanEnterLoop(i) THEN PopScope(LoopEnter(i, head, FALSE))
      ELSE PopScope(LoopLeave(EmitBackEdge(p, head), <<CurrentPc(b)>>, depth))

CompileReturn(c, s) ==
  IF Len(s.kids) > 1 THEN Report(c)
  ELSE Emit(IF s.kids = <<>> THEN Emit(c, "LOAD_NIL", 0, 0, 1) ELSE CompileExpr(c, s.kids[1]),
            "RETURN", 0, 0, -1)

CompileExprStmt(c, s) ==
  LET k == CompileExpr(c, s.kids[1]) IN IF Live(k) THEN StoreDiscard(k) ELSE k

StmtNode(c, s) ==
  Entered(c, LAMBDA k :
    CASE s.kind = "source" -> CompileStmts(k, s.kids)
      [] s.kind = "exprstmt" -> CompileExprStmt(k, s)
      [] s.kind \in {"decl", "assign"} -> CompileDeclOrAssign(k, s)
      [] s.kind \in {"augassign", "incdec"} -> CompileUpdate(k, s)
      [] s.kind = "block" -> CompileBlock(k, s)
      [] s.kind = "if" -> CompileIf(k, s)
      [] s.kind = "while" -> CompileWhile(k, s)
      [] s.kind = "for" -> IF Len(s.kids) = 1 THEN CompileBareFor(k, s) ELSE CompileForClause(k, s)
      [] s.kind = "global" -> CompileGlobal(k, [i \in DOMAIN s.kids |-> s.kids[i].tag])
      [] s.kind = "pass" -> k
      [] s.kind = "break" -> CompileBreak(k)
      [] s.kind = "continue" -> CompileContinue(k)
      [] s.kind = "return" -> CompileReturn(k, s)
      [] s.kind = "func" -> CompileFunction(k, s)
      [] OTHER -> Report(k))

CompileNode(c, n, isExpr) == IF isExpr THEN ExprNode(c, n) ELSE StmtNode(c, n)

\* A source file: built ends with the prototype of the module, or the
\* compiler is left with an error and no function open.
Ended(c) ==
  IF Live(c) /\ c.diags = 0 THEN PopFunc(c)
  ELSE [AbortFunc(c) EXCEPT !.sticky = IF Live(c) THEN "SYNTAX" ELSE @]

Compile(root, fuel) ==
  LET p == PushFunc(CompilerInit(fuel), TRUE, 0)
  IN  IF Live(p) THEN Ended(CompileStmt(p, root)) ELSE p
============================================================================
