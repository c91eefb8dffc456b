------------------------------- MODULE MsEmit -------------------------------
(* What the compiler does to one function at a time: emission into the     *)
(* prototype's builder with the depth of the evaluation stack it expects   *)
(* at run time, jumps that are emitted first and patched later, the stack  *)
(* of open loops, and the two kinds of error.                              *)
(*                                                                         *)
(* c is the compiler (struct MsCompiler); c.fn the function being compiled *)
(* and c.parents the functions around it.  An error recorded with Fail is  *)
(* sticky: nothing is emitted after it.  One recorded with Report is not,  *)
(* unless it fills the list of diagnostics.  c.fuel counts the calls that  *)
(* may allocate: the one that finds it at 0 is refused, the others are     *)
(* not.  c.broken records that an assertion of the C code did not hold.    *)
EXTENDS MsBytecode, MsScope, SequencesExt

\* Names lists the names of the programs.
CONSTANTS MaxConsts, MaxDiags, Names

ASSUME EmitAssumption == MaxConsts \in Nat /\ MaxDiags \in Nat \ {0}

FuncCtx(isModule, params) ==
  [code |-> <<>>, consts |-> <<>>, protos |-> <<>>, depth |-> 0, max |-> 0,
   scope |-> ScopeCtxInit, pending |-> {}, loops |-> <<>>,
   isModule |-> isModule, params |-> params]

Live(c) == c.sticky = "OK"
CurrentPc(c) == Len(c.fn.code)

----------------------------------------------------------------------------
Reported(c) == [c EXCEPT !.diags = IF @ < MaxDiags THEN @ + 1 ELSE @]

Report(c) ==
  IF c.sticky = "OOM" THEN c
  ELSE LET d == Reported(c)
       IN  IF Live(c) /\ d.diags = MaxDiags THEN [d EXCEPT !.sticky = "SYNTAX"] ELSE d

Fail(c, result) == IF Live(c) THEN [Reported(c) EXCEPT !.sticky = result] ELSE c

\* One call that may allocate.
AllocOk(c) == c.fuel # 0
Charged(c) == [c EXCEPT !.fuel = @ - 1]
Alloc(c) == IF AllocOk(c) THEN Charged(c) ELSE Fail(Charged(c), "OOM")

Asserted(c, holds) == [c EXCEPT !.broken = @ \/ ~holds]

----------------------------------------------------------------------------
EmitTo(c, op, a, bx, depth) ==
  [Asserted(c, depth >= 0) EXCEPT !.fn.code = Append(@, I(op, a, bx)),
                                  !.fn.depth = depth,
                                  !.fn.max = IF depth > @ THEN depth ELSE @]

Emit(c, op, a, bx, delta) ==
  IF ~Live(c) THEN c
  ELSE LET k == Alloc(c)
       IN  IF Live(k) THEN EmitTo(k, op, a, bx, k.fn.depth + delta) ELSE k

EmitJumpPlaceholder(c, op) == Emit(c, op, 0, 0, IF op = "JUMP" THEN 0 ELSE -1)

PatchTo(c, jumpPc, target) ==
  IF Live(c) THEN [c EXCEPT !.fn.code[jumpPc + 1].bx = target - (jumpPc + 1)] ELSE c

\* A jump to the next instruction is turned into a NOP.
PatchToCurrent(c, jumpPc, expectedDepth) ==
  IF ~Live(c) THEN c
  ELSE LET k == Asserted(c, c.fn.depth = expectedDepth)
       IN  IF k.fn.code[jumpPc + 1].op = "JUMP" /\ CurrentPc(k) = jumpPc + 1
           THEN [k EXCEPT !.fn.code[jumpPc + 1] = I("NOP", 0, 0)]
           ELSE PatchTo(k, jumpPc, CurrentPc(k))

PatchAll(c, pcs, expectedDepth) ==
  FoldLeft(LAMBDA k, pc : PatchToCurrent(k, pc, expectedDepth), c, pcs)

EmitBackEdge(c, target) ==
  LET k == EmitJumpPlaceholder(c, "JUMP")
  IN  PatchTo(k, CurrentPc(k) - 1, target)

\* The depth in force after a jump is the one recorded when it was emitted.
AtDepth(c, depth) == [c EXCEPT !.fn.depth = depth]

----------------------------------------------------------------------------
InnerLoop(c) == c.fn.loops[Len(c.fn.loops)]
CanEnterLoop(c) == AllocOk(c)

LoopEnter(c, head, continueIsHead) ==
  IF ~AllocOk(c) THEN Alloc(c)
  ELSE [Charged(c) EXCEPT !.fn.loops =
          Append(@, [loopHead |-> head, breaks |-> <<>>, continues |-> <<>>,
                     continueIsHead |-> continueIsHead])]

ResolveContinues(c, expectedDepth) ==
  LET k == Asserted(PatchAll(c, InnerLoop(c).continues, expectedDepth),
                    ~InnerLoop(c).continueIsHead)
  IN  [k EXCEPT !.fn.loops[Len(c.fn.loops)].continues = <<>>]

\* Mutant: a loop that was left in error stays open.
LoopLeaveLive(c, exits, expectedDepth) ==
  LET k == PatchAll(c, exits \o InnerLoop(c).breaks, expectedDepth)
  IN  IF Live(k) THEN [k EXCEPT !.fn.loops = SubSeq(@, 1, Len(@) - 1)] ELSE k

\* exits is the jump taken when the condition is false, if there is one.
LoopLeave(c, exits, expectedDepth) ==
  LET k == PatchAll(Asserted(c, InnerLoop(c).continues = <<>>),
                    exits \o InnerLoop(c).breaks, expectedDepth)
  IN  [k EXCEPT !.fn.loops = SubSeq(@, 1, Len(@) - 1)]

\* A jump out of the innermost loop (which = "breaks") or to its next round.
EmitLoopJump(c, which) ==
  LET j == Asserted(EmitJumpPlaceholder(c, "JUMP"), c.fn.loops # <<>>)
      k == IF Live(j) THEN Alloc(j) ELSE j
  IN  IF Live(k) THEN [k EXCEPT !.fn.loops[Len(k.fn.loops)][which] = Append(@, CurrentPc(c))] ELSE k

CompileBreak(c) == EmitLoopJump(c, "breaks")

CompileContinue(c) ==
  IF c.fn.loops # <<>> /\ InnerLoop(c).continueIsHead THEN EmitBackEdge(c, InnerLoop(c).loopHead)
  ELSE EmitLoopJump(c, "continues")

----------------------------------------------------------------------------
\* The constant pool keeps each value once.
IndexOf(c, v) == CHOOSE n \in DOMAIN c.fn.consts : c.fn.consts[n] = v

AddConst(c, v) ==
  IF ~Live(c) THEN c
  ELSE IF Len(c.fn.consts) >= MaxConsts THEN Fail(c, "SYNTAX")
  ELSE IF \E n \in DOMAIN c.fn.consts : c.fn.consts[n] = v THEN c
  ELSE LET k == Alloc(c) IN IF Live(k) THEN [k EXCEPT !.fn.consts = Append(@, v)] ELSE k

EmitConstant(c, op, v, delta) ==
  LET k == AddConst(c, v)
  IN  IF Live(k) THEN Emit(k, op, 0, IndexOf(k, v) - 1, delta) ELSE k

\* An object is made for the constant before the pool is searched.
EmitConstObject(c, v) == EmitConstant(Alloc(c), "LOAD_CONST", v, 1)

NameValue(name) == Val("str", CHOOSE n \in DOMAIN Names : Names[n] = name)

----------------------------------------------------------------------------
AllocHiddenLocal(c) ==
  IF CanAlloc(c.fn.scope) THEN [c EXCEPT !.fn.scope = AllocLocal(@, Hidden)]
  ELSE Fail(c, "SYNTAX")

DeclareLocal(c, name) ==
  IF CanAlloc(c.fn.scope) THEN [c EXCEPT !.fn.scope = AllocLocal(@, name)]
  ELSE Fail(c, "SYNTAX")

ReleaseLocals(c, n) == [c EXCEPT !.fn.scope = Released(@, n)]

PopScope(c) == [c EXCEPT !.fn.scope = EndBlock(@)]

\* The value of an expression statement goes to a slot that its block
\* allocates once.
StoreDiscard(c) ==
  LET b == Len(c.fn.scope.blocks)
      k == IF c.fn.scope.blocks[b].discardSlot # NoSlot THEN c
           ELSE LET h == AllocHiddenLocal(c)
                IN  IF Live(h) THEN [h EXCEPT !.fn.scope.blocks[b].discardSlot =
                                       LocalCount(c.fn.scope)]
                    ELSE h
  IN  IF Live(k) THEN Emit(k, "STORE_LOCAL", k.fn.scope.blocks[b].discardSlot, 0, -1) ELSE k

EmitLocal(c, op, slot) == Emit(c, op, slot, 0, IF op = "LOAD_LOCAL" THEN 1 ELSE -1)
============================================================================
