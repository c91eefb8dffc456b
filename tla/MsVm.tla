------------------------------- MODULE MsVm -------------------------------
(* The execution core of the interpreter: one coroutine (call frames and    *)
(* value stack in growable arrays), the dispatch loop msVmRun, the calling   *)
(* convention, native functions that call back into the machine, and error   *)
(* unwinding.                                                                *)
(*                                                                           *)
(* The C stack of the process is "acts": a sequence of activations, each a   *)
(* msVmRun loop or a native function one of them called.  The host program   *)
(* is in control while acts is empty.                                        *)
(*                                                                           *)
(* Code is data here: Proto maps prototype ids to arbitrary bytecode, so the *)
(* safety of the machine does not rest on the compiler.  What an operator    *)
(* computes is not modelled: it yields any value of Results, or an error.    *)
EXTENDS MsBytecode, FiniteSets

CONSTANTS
  Proto,          \* the prototypes, by id
  EntryProtos,    \* the ids that the host passes to msCallProto
  InitGlobals,    \* the globals the host defined: builtins and functions
  Results,        \* the values operators, unpacking and native code produce
  NativeProtos,   \* the ids that native functions pass to msCallProto
  DirectApi,      \* TRUE: the host also uses msVmPushFrame and msVmRun
  Reuse,          \* bound, if FALSE: the host makes one call per coroutine
  HostTopMax,     \* bound: the host calls and pushes with no more than this on the stack
  StackInitCap, StackMaxCap, FramesInitCap, FramesMax

VARIABLES
  co,       \* the coroutine
  acts,     \* the activations of the C stack, innermost last
  globals,  \* the global variables of the state that are defined
  err,      \* the error slot of the state
  ret       \* what the machine last returned to C: a status and *out

vars == <<co, acts, globals, err, ret>>

Value == [tag : {"nil", "bool", "int", "str", "list", "dict", "cfn"}, n : Nat]
           \cup [tag : {"fn"}, n : DOMAIN Proto]

ProtoType ==
  [paramCount : Int, localCount : Int, stackSize : Int, variadic : BOOLEAN,
   isAsync : BOOLEAN, consts : Seq(Value), code : Seq(Instr)]

ASSUME ProtoAssumption ==
  /\ DOMAIN Proto \subseteq Nat
  /\ \A id \in DOMAIN Proto : Proto[id] \in ProtoType
  /\ EntryProtos \subseteq DOMAIN Proto /\ NativeProtos \subseteq DOMAIN Proto

ASSUME ValueAssumption ==
  /\ Results \subseteq Value
  /\ DOMAIN InitGlobals \subseteq Nat /\ InitGlobals \in [DOMAIN InitGlobals -> Value]
  /\ DirectApi \in BOOLEAN
  /\ Reuse \in BOOLEAN /\ HostTopMax \in Nat

ASSUME CapAssumption ==
  /\ StackInitCap \in Nat \ {0} /\ StackMaxCap \in Nat /\ StackInitCap <= StackMaxCap
  /\ FramesInitCap \in Nat \ {0} /\ FramesMax \in Nat /\ FramesInitCap <= FramesMax

Frame == [proto : DOMAIN Proto, pc : Int, base : Int]

RunAct == [type : {"run"}, stopAt : Nat, top : Int, call : BOOLEAN]
NativeAct == [type : {"native"}, argc : Nat, base : Int, cap : Nat]

Status == {"ok", "runtime", "oom"}

CoTypeOK(c) ==
  /\ c.stackCap \in Nat
  /\ c \in [frames : Seq(Frame), framesCap : Nat, stackTop : Int, stackCap : Nat,
            stack : [0..c.stackCap - 1 -> Value \cup {Junk}]]

TypeOK ==
  /\ CoTypeOK(co)
  /\ acts \in Seq(RunAct \cup NativeAct)
  /\ DOMAIN globals \subseteq Nat /\ globals \in [DOMAIN globals -> Value]
  /\ err \in {"none", "runtime", "oom"}
  /\ ret \in [status : Status, out : Value \cup {NoValue, Junk}]

----------------------------------------------------------------------------
(* Growing the two arrays.                                                  *)

\* The capacities the doubling loop goes through from its starting point.
CapSteps(start, max) ==
  {max} \cup {c \in start..max : \E k \in 0..max : c = start * 2^k}

\* Mutant: the loop stops one slot short.
GrownCapsShort(cap, init, max, needed) ==
  LET steps == CapSteps(IF cap = 0 THEN init ELSE cap, max)
  IN  {c \in steps : c + 1 >= needed /\ \A d \in steps : d < c => d + 1 < needed}

\* The capacity it stops at: the first one that is large enough.
GrownCaps(cap, init, max, needed) ==
  LET steps == CapSteps(IF cap = 0 THEN init ELSE cap, max)
  IN  {c \in steps : c >= needed /\ \A d \in steps : d < c => d < needed}

Outcome(res, c) == [res |-> res, co |-> c]

\* msVmEnsureStack: the new array keeps its values, and what the new slots
\* hold is undefined.
EnsureStack(c, needed) ==
  IF needed < 0 \/ needed > StackMaxCap THEN {Outcome("runtime", c)}
  ELSE IF needed <= c.stackCap THEN {Outcome("ok", c)}
  ELSE {Outcome("oom", c)} \cup
       {Outcome("ok",
          [c EXCEPT !.stackCap = cap,
                    !.stack = [i \in 0..cap - 1 |-> IF i < c.stackCap THEN c.stack[i] ELSE Junk]]) :
          cap \in GrownCaps(c.stackCap, StackInitCap, StackMaxCap, needed)}

EnsureFrames(c, needed) ==
  IF needed > FramesMax THEN {Outcome("runtime", c)}
  ELSE IF needed <= c.framesCap THEN {Outcome("ok", c)}
  ELSE {Outcome("oom", c)} \cup
       {Outcome("ok", [c EXCEPT !.framesCap = cap]) :
          cap \in GrownCaps(c.framesCap, FramesInitCap, FramesMax, needed)}

----------------------------------------------------------------------------
(* msVmPushFrameAt.  The arguments are in place below the top of the stack, *)
(* or argv points to them: into the stack (inStack, from slot index on), or  *)
(* to values elsewhere in memory.                                            *)

StackArgs(index) == [inStack |-> TRUE, index |-> index, vals |-> <<>>]
HeapArgs(vals) == [inStack |-> FALSE, index |-> 0, vals |-> vals]

\* An argv inside the live part of the stack is followed to the grown array;
\* any other pointer into the old array dangles once the array has moved.
ArgAt(c, grown, argv, argc, j) ==
  IF ~argv.inStack THEN argv.vals[j + 1]
  ELSE IF argv.index + argc <= c.stackTop \/ grown.stackCap = c.stackCap
       THEN grown.stack[argv.index + j]
  ELSE Junk

PushRefused(c, p, argc, inPlace, base) ==
  \/ p.paramCount < 0 \/ argc # p.paramCount
  \/ p.variadic
  \/ p.localCount < p.paramCount \/ p.stackSize < 0 \/ base < 1
  \/ base + p.localCount + p.stackSize > StackMaxCap
  \/ Len(c.frames) >= FramesMax
  \/ inPlace /\ c.stackTop < base + argc

\* Mutant: the first local that is no parameter is left as it was.
PushedStackUnfilled(c, grown, id, argc, inPlace, base, argv) ==
  [i \in 0..grown.stackCap - 1 |->
     IF ~inPlace /\ i = base - 1 THEN Nil
     ELSE IF ~inPlace /\ i \in base..base + argc - 1 THEN ArgAt(c, grown, argv, argc, i - base)
     ELSE IF i \in base + argc + 1..base + Proto[id].localCount - 1 THEN Nil
     ELSE grown.stack[i]]

PushedStack(c, grown, id, argc, inPlace, base, argv) ==
  [i \in 0..grown.stackCap - 1 |->
     IF ~inPlace /\ i = base - 1 THEN Nil
     ELSE IF ~inPlace /\ i \in base..base + argc - 1 THEN ArgAt(c, grown, argv, argc, i - base)
     ELSE IF i \in base + argc..base + Proto[id].localCount - 1 THEN Nil
     ELSE grown.stack[i]]

NewFrame(id, base) == [proto |-> id, pc |-> 0, base |-> base]

Pushed(c, grown, id, argc, inPlace, base, argv) ==
  [grown EXCEPT !.stack = PushedStack(c, grown, id, argc, inPlace, base, argv),
                !.stackTop = base + Proto[id].localCount,
                !.frames = Append(grown.frames, NewFrame(id, base))]

\* All outcomes: refused, out of memory in either array (the stack stays
\* grown when only the frames fail), or the frame pushed.
PushFrameAt(c, id, argc, inPlace, base, argv) ==
  LET p == Proto[id]
      frameOutcomes(s) ==
        {IF f.res = "ok"
           THEN Outcome("ok", Pushed(c, f.co, id, argc, inPlace, base, argv)) ELSE f :
           f \in EnsureFrames(s.co, Len(c.frames) + 1)}
  IN  IF PushRefused(c, p, argc, inPlace, base) THEN {Outcome("runtime", c)}
      ELSE UNION {IF s.res = "ok" THEN frameOutcomes(s) ELSE {s} :
                    s \in EnsureStack(c, base + p.localCount + p.stackSize)}

----------------------------------------------------------------------------
(* The instruction about to execute.                                        *)

InHost == acts = <<>>
Act == acts[Len(acts)]
InVm == acts # <<>> /\ Act.type = "run"
InNative == acts # <<>> /\ Act.type = "native"
CallerActs == SubSeq(acts, 1, Len(acts) - 1)

\* The evaluation stack of a frame starts above its locals.
LocalsEnd(f) == f.base + Proto[f.proto].localCount

Top == co.frames[Len(co.frames)]
P == Proto[Top.proto]
Floor == LocalsEnd(Top)
WindowEnd == Floor + P.stackSize
PcOk == Top.pc \in 0..Len(P.code) - 1
Ins == P.code[Top.pc + 1]

CanPush == co.stackTop >= Floor /\ co.stackTop < WindowEnd
Holds(n) == co.stackTop >= Floor + n
Peek(n) == co.stack[co.stackTop - 1 - n]

ConstOk == Ins.bx \in 0..Len(P.consts) - 1
Const == P.consts[Ins.bx + 1]

Executes(ops) == InVm /\ PcOk /\ Ins.op \in ops

\* The coroutine after the fetch, which has advanced pc.
Fetched == [co EXCEPT !.frames[Len(co.frames)].pc = @ + 1]

\* n frames are left, and top slots.
Cut(c, n, top) == [c EXCEPT !.frames = SubSeq(c.frames, 1, n), !.stackTop = top]

Popped(c, n) == [c EXCEPT !.stackTop = @ - n]
PushedOn(c, v) == [c EXCEPT !.stack[c.stackTop] = v, !.stackTop = @ + 1]
\* Mutant: offsets count from the jump, not from the instruction after it.
JumpedFromJump(c, off) ==
  [c EXCEPT !.frames[Len(c.frames)].pc = IF @ + off < 1 THEN -1 ELSE @ + off - 1]

\* Mutant: the sign of the offset is lost.
JumpedBack(c, off) ==
  [c EXCEPT !.frames[Len(c.frames)].pc = IF @ - off < 0 THEN -1 ELSE @ - off]

Jumped(c, off) ==
  [c EXCEPT !.frames[Len(c.frames)].pc = IF @ + off < 0 THEN -1 ELSE @ + off]

\* What the checks of the dispatch loop reject whatever the operands hold.
Fault ==
  \/ Ins.op = "UNIMPLEMENTED"
  \/ /\ Ins.op \in Singletons \cup {"LOAD_CONST", "LOAD_LOCAL", "LOAD_GLOBAL"}
     /\ ~CanPush
  \/ Ins.op \in {"LOAD_CONST", "LOAD_GLOBAL", "STORE_GLOBAL"} /\ ~ConstOk
  \/ Ins.op \in {"LOAD_GLOBAL", "STORE_GLOBAL"} /\ ConstOk /\ Const.tag # "str"
  \/ Ins.op \in {"LOAD_LOCAL", "STORE_LOCAL", "MOVE"} /\ Ins.a >= P.localCount
  \/ Ins.op = "MOVE" /\ Ins.bx \notin 0..P.localCount - 1
  \/ Ins.op \in CondJumps \cup {"STORE_LOCAL", "STORE_GLOBAL", "UNARY", "UNPACK", "RETURN"}
     /\ ~Holds(1)
  \/ Ins.op = "CMP_CHAIN" /\ Ins.a \notin Comparisons
  \/ Ins.op \in {"BINARY", "COMPARE", "CMP_CHAIN"} /\ ~Holds(2)
  \/ Ins.op \in Builds /\ (~Holds(BuildCount(Ins)) \/ (BuildCount(Ins) = 0 /\ ~CanPush))
  \/ /\ Ins.op = "UNPACK"
     /\ \/ Ins.a < 1
        \/ Ins.bx # NoStar /\ Ins.bx \notin 0..Ins.a - 1
        \/ co.stackTop - 1 + Ins.a >= WindowEnd
  \/ Ins.op = "CALL" /\ co.stackTop - Ins.a < 1

Runs(ops) == Executes(ops) /\ ~Fault

Continue(c) == co' = c /\ UNCHANGED <<acts, globals, err, ret>>

Returned(status, out) == [status |-> status, out |-> out]

\* Mutant: all frames go, those of the callers too.
UnwindAllFrames(k, c, r) ==
  /\ co' = Cut(c, 0, acts[k].top)
  /\ acts' = SubSeq(acts, 1, k - 1)
  /\ err' = r
  /\ ret' = Returned(r, NoValue)
  /\ UNCHANGED globals

\* Mutant: the frames go, what they left on the stack stays.
UnwindKeepTop(k, c, r) ==
  /\ co' = Cut(c, acts[k].stopAt, c.stackTop)
  /\ acts' = SubSeq(acts, 1, k - 1)
  /\ err' = r
  /\ ret' = Returned(r, NoValue)
  /\ UNCHANGED globals

\* An error ends the msVmRun loop of activation k: its frames are discarded,
\* the stack is cut to where it entered (msCallProto: to where that entered),
\* and the caller in C gets the status.
Unwind(k, c, r) ==
  /\ co' = Cut(c, acts[k].stopAt, acts[k].top)
  /\ acts' = SubSeq(acts, 1, k - 1)
  /\ err' = r
  /\ ret' = Returned(r, NoValue)
  /\ UNCHANGED globals

\* Raising a runtime error formats a message, which can run out of memory.
Raised(res) == IF res = "oom" THEN {"oom"} ELSE {"runtime", "oom"}

Fail == \E r \in Raised("runtime") : Unwind(Len(acts), co, r)

\* An operation with operands: it can fail, or leaves v in their place.
Produce(c, v) == Continue(PushedOn(c, v)) \/ Fail

----------------------------------------------------------------------------
(* One action per group of opcodes.                                         *)

ExecPcOutside == InVm /\ ~PcOk /\ Fail

ExecFault == Executes(Op) /\ Fault /\ Fail

ExecNop == Runs({"NOP"}) /\ Continue(Fetched)

ExecLoadConst == Runs({"LOAD_CONST"}) /\ Continue(PushedOn(Fetched, Const))

ExecLoadSingleton ==
  /\ Runs(Singletons)
  /\ Continue(PushedOn(Fetched, IF Ins.op = "LOAD_NIL" THEN Nil
                                ELSE Bool(Ins.op = "LOAD_TRUE")))

ExecMove ==
  /\ Runs({"MOVE"})
  /\ Continue([Fetched EXCEPT !.stack[Top.base + Ins.a] = co.stack[Top.base + Ins.bx]])

ExecLoadLocal ==
  Runs({"LOAD_LOCAL"}) /\ Continue(PushedOn(Fetched, co.stack[Top.base + Ins.a]))

ExecStoreLocal ==
  /\ Runs({"STORE_LOCAL"})
  /\ Continue([Popped(Fetched, 1) EXCEPT !.stack[Top.base + Ins.a] = Peek(0)])

ExecLoadGlobal ==
  /\ Runs({"LOAD_GLOBAL"})
  /\ IF Const.n \in DOMAIN globals
       THEN Continue(PushedOn(Fetched, globals[Const.n])) ELSE Fail

ExecStoreGlobal ==
  /\ Runs({"STORE_GLOBAL"})
  /\ \/ /\ co' = Popped(Fetched, 1)
        /\ globals' = [name \in DOMAIN globals \cup {Const.n} |->
                         IF name = Const.n THEN Peek(0) ELSE globals[name]]
        /\ UNCHANGED <<acts, err, ret>>
     \/ Const.n \notin DOMAIN globals /\ Unwind(Len(acts), co, "oom")

ExecOperator ==
  /\ Runs({"BINARY", "UNARY"})
  /\ \E v \in Results : Produce(Popped(Fetched, Pops(Ins)), v)

ExecCompare ==
  /\ Runs({"COMPARE"})
  /\ \E b \in BOOLEAN : Produce(Popped(Fetched, 2), Bool(b))

\* A chained comparison keeps the right operand for the next link, or leaves
\* the chain with false.
ExecCmpChain ==
  /\ Runs({"CMP_CHAIN"})
  /\ \/ Produce(Popped(Fetched, 2), Peek(0))
     \/ Produce(Jumped(Popped(Fetched, 2), Ins.bx), Bool(FALSE))

ExecJump == Runs({"JUMP"}) /\ Continue(Jumped(Fetched, Ins.bx))

ExecCondJump ==
  /\ Runs(CondJumps)
  /\ LET jumps == IF Ins.op = "JUMP_IF_NIL" THEN Peek(0).tag = "nil"
                  ELSE Truthy(Peek(0)) = (Ins.op = "JUMP_IF_TRUE")
         next == Popped(Fetched, 1)
     IN  Continue(IF jumps THEN Jumped(next, Ins.bx) ELSE next)

\* Equal keys of a dict literal share an entry.
ExecBuild ==
  /\ Runs(Builds)
  /\ \E n \in (IF Ins.op = "BUILD_LIST" THEN {Ins.a} ELSE 0..Ins.a) :
       /\ Ins.a > 0 => n > 0
       /\ Produce(Popped(Fetched, BuildCount(Ins)),
                  Val(IF Ins.op = "BUILD_LIST" THEN "list" ELSE "dict", n))

\* The list makes room for the n targets; the slot that the last one was
\* shifted down from keeps it.
Unpacked(c, target, n) ==
  LET at == c.stackTop - 1
  IN  [c EXCEPT
         !.stack = [i \in 0..c.stackCap - 1 |->
                      IF i \in at..at + n - 1 THEN target[i - at]
                      ELSE IF i = at + n THEN target[n - 1] ELSE c.stack[i]],
         !.stackTop = at + n]

\* The targets get the elements in order; a starred one gets a list of those
\* the other targets leave.
ExecUnpack ==
  /\ Runs({"UNPACK"})
  /\ LET list == Peek(0)
         star == Ins.bx # NoStar
         fits == /\ list.tag = "list"
                 /\ IF star THEN list.n >= Ins.a - 1 ELSE list.n = Ins.a
         target(f) == [i \in 0..Ins.a - 1 |->
                         IF i = Ins.bx THEN Val("list", list.n - (Ins.a - 1)) ELSE f[i]]
     IN  \/ fits /\ \E f \in [0..Ins.a - 1 -> Results] :
              Continue(Unpacked(Fetched, target(f), Ins.a))
         \/ (~fits \/ star) /\ Fail

\* The callable sits below its arguments.
Base == co.stackTop - Ins.a
Callee == co.stack[Base - 1]

\* A call the machine does not make: the callee is no function, or an async one.
ExecCallRefused ==
  /\ Runs({"CALL"})
  /\ \/ Callee.tag \notin {"fn", "cfn"}
     \/ Callee.tag = "fn" /\ Proto[Callee.n].isAsync
  /\ Fail

\* The arguments of a script function become its first locals where they are.
ExecCallScript ==
  /\ Runs({"CALL"}) /\ Callee.tag = "fn" /\ ~Proto[Callee.n].isAsync
  /\ \E o \in PushFrameAt(Fetched, Callee.n, Ins.a, TRUE, Base, HeapArgs(<<>>)) :
       IF o.res = "ok" THEN Continue(o.co)
       ELSE \E r \in Raised(o.res) : Unwind(Len(acts), o.co, r)

\* A native function runs with argv pointing into the stack array.
ExecCallNative ==
  /\ Runs({"CALL"}) /\ Callee.tag = "cfn"
  /\ co' = Fetched
  /\ acts' = Append(acts, [type |-> "native", argc |-> Ins.a, base |-> Base, cap |-> co.stackCap])
  /\ UNCHANGED <<globals, err, ret>>

\* Mutant: the return value goes to the slot below the callee.
ExecReturnLow ==
  /\ Runs({"RETURN"})
  /\ LET left == Len(co.frames) - 1
         c == PushedOn(Cut(co, left, Top.base - 2), Peek(0))
     IN  IF left > Act.stopAt THEN Continue(c)
         ELSE /\ co' = c
              /\ acts' = CallerActs
              /\ ret' = Returned("ok", IF Act.call THEN c.stack[Act.top] ELSE NoValue)
              /\ UNCHANGED <<globals, err>>

\* The return value replaces the callee slot of the caller.  The run ends when
\* its first frame returns; msCallProto then hands out what is at the slot
\* where it entered.
ExecReturn ==
  /\ Runs({"RETURN"})
  /\ LET left == Len(co.frames) - 1
         c == PushedOn(Cut(co, left, Top.base - 1), Peek(0))
     IN  IF left > Act.stopAt THEN Continue(c)
         ELSE /\ co' = c
              /\ acts' = CallerActs
              /\ ret' = Returned("ok", IF Act.call THEN c.stack[Act.top] ELSE NoValue)
              /\ UNCHANGED <<globals, err>>

----------------------------------------------------------------------------
(* Native functions and the host.                                           *)

NativeReturn ==
  /\ InNative
  /\ \E v \in Results : co' = PushedOn([co EXCEPT !.stackTop = Act.base - 1], v)
  /\ acts' = CallerActs
  /\ UNCHANGED <<globals, err, ret>>

\* A null result is an error, raised by the function itself or left over from
\* a call it made, and ends the run that called it.
NativeFail == InNative /\ \E r \in Raised("runtime") : Unwind(Len(acts) - 1, co, r)

\* msCallProto, with error slot e: the frame goes above the top of the stack,
\* with a nil in the callee slot, and a loop runs until that frame is gone.
CallProto(e, id, argc, argv) ==
  \E o \in PushFrameAt(co, id, argc, FALSE, co.stackTop + 1, argv) :
    IF o.res = "ok"
    THEN /\ co' = o.co
         /\ acts' = Append(acts, [type |-> "run", stopAt |-> Len(co.frames),
                                  top |-> co.stackTop, call |-> TRUE])
         /\ err' = e
         /\ ret' = Returned("ok", NoValue)
         /\ UNCHANGED globals
    ELSE /\ co' = Cut(o.co, Len(co.frames), co.stackTop)
         /\ \E r \in Raised(o.res) : err' = r /\ ret' = Returned(r, NoValue)
         /\ UNCHANGED <<acts, globals>>

\* The arguments C code makes up: none, or one value.
MadeArgs == {<<>>} \cup {<<v>> : v \in Results}

\* The host clears the error of the last evaluation first, as msEvalFile does.
HostCall ==
  /\ InHost /\ (Reuse \/ co.stackCap = 0) /\ co.stackTop <= HostTopMax
  /\ \E id \in EntryProtos, args \in MadeArgs : CallProto("none", id, Len(args), HeapArgs(args))

\* A native function passes values of its own, or its own arguments on, as
\* long as its argv still points into the array it was given.
NativeCall ==
  /\ InNative
  /\ \E id \in NativeProtos :
       \/ \E args \in MadeArgs : CallProto(err, id, Len(args), HeapArgs(args))
       \/ /\ Act.cap = co.stackCap
          /\ \E first \in 0..Act.argc : \E argc \in 1..Act.argc - first :
               CallProto(err, id, argc, StackArgs(Act.base + first))

\* msErrorGet and msStateClearError.
HostClearError ==
  /\ InHost /\ err # "none"
  /\ err' = "none"
  /\ UNCHANGED <<co, acts, globals, ret>>

\* msCoroutineInit: nothing is allocated.
NewCo == [frames |-> <<>>, framesCap |-> 0, stack |-> [i \in 0..-1 |-> Junk],
          stackTop |-> 0, stackCap |-> 0]

\* msCloseState frees both arrays; the host goes on with a new state.
HostReopen ==
  /\ InHost
  /\ co' = NewCo /\ globals' = InitGlobals /\ err' = "none"
  /\ UNCHANGED <<acts, ret>>

\* msVmPushFrame, with arguments that may lie in the live part of the stack.
HostPushFrame ==
  /\ InHost /\ DirectApi /\ co.stackTop <= HostTopMax
  /\ \E id \in EntryProtos, argc \in 0..2 :
     \E argv \in {HeapArgs([k \in 1..argc |-> Nil])} \cup
                 {StackArgs(index) : index \in 0..co.stackTop - argc} :
     \E o \in PushFrameAt(co, id, argc, FALSE, co.stackTop + 1, argv) :
       /\ co' = o.co
       /\ IF o.res = "ok" THEN ret' = Returned("ok", NoValue) /\ UNCHANGED err
          ELSE \E r \in Raised(o.res) : err' = r /\ ret' = Returned(r, NoValue)
       /\ UNCHANGED <<acts, globals>>

\* msVmRun on whatever frames are there.
HostRun ==
  /\ InHost /\ DirectApi
  /\ \E stopAt \in -1..Len(co.frames) + 1 :
       \/ /\ stopAt \in 0..Len(co.frames) - 1
          /\ acts' = <<[type |-> "run", stopAt |-> stopAt, top |-> co.stackTop, call |-> FALSE]>>
          /\ UNCHANGED <<co, globals, err, ret>>
       \/ /\ stopAt = Len(co.frames)
          /\ ret' = Returned("ok", NoValue)
          /\ UNCHANGED <<co, acts, globals, err>>
       \/ /\ stopAt \notin 0..Len(co.frames)
          /\ \E r \in Raised("runtime") : err' = r /\ ret' = Returned(r, NoValue)
          /\ UNCHANGED <<co, acts, globals>>

----------------------------------------------------------------------------
Init ==
  /\ co = NewCo
  /\ acts = <<>>
  /\ globals = InitGlobals
  /\ err = "none"
  /\ ret = Returned("ok", NoValue)

VmStep ==
  \/ ExecPcOutside \/ ExecFault
  \/ ExecNop \/ ExecLoadConst \/ ExecLoadSingleton \/ ExecMove
  \/ ExecLoadLocal \/ ExecStoreLocal \/ ExecLoadGlobal \/ ExecStoreGlobal
  \/ ExecOperator \/ ExecCompare \/ ExecCmpChain \/ ExecJump \/ ExecCondJump
  \/ ExecBuild \/ ExecUnpack
  \/ ExecCallRefused \/ ExecCallScript \/ ExecCallNative \/ ExecReturn

NativeStep == NativeReturn \/ NativeFail \/ NativeCall

HostStep == HostCall \/ HostClearError \/ HostReopen \/ HostPushFrame \/ HostRun

Next == VmStep \/ NativeStep \/ HostStep

Spec == Init /\ [][Next]_vars

----------------------------------------------------------------------------
(* Properties.                                                              *)

WindowOk(c, f) ==
  LET p == Proto[f.proto]
  IN  /\ f.base >= 1
      /\ 0 <= p.paramCount /\ p.paramCount <= p.localCount /\ 0 <= p.stackSize
      /\ f.base + p.localCount + p.stackSize <= c.stackCap

CoInBounds(c) ==
  /\ 0 <= c.stackTop /\ c.stackTop <= c.stackCap
  /\ \A k \in 1..Len(c.frames) : WindowOk(c, c.frames[k])
  /\ Len(c.frames) <= c.framesCap
  /\ c.stackCap <= StackMaxCap /\ c.framesCap <= FramesMax

\* Memory safety for any bytecode: the top of the stack is within the array,
\* and so is the whole window of every frame, since the windows are reserved
\* when frames are pushed and the loop relies on that without further checks
\* (ms_vm.c: msVmPushFrameAt, and every co->stack[...] of msVmRun).
InBounds == CoInBounds(co)

LiveBelow(c, n) == \A i \in 0..n - 1 : c.stack[i] # Junk

LocalsLive(frames, stack) ==
  \A k \in 1..Len(frames) : \A i \in 0..LocalsEnd(frames[k]) - 1 : stack[i] # Junk

\* No slot below the top, and no local of any frame, is one that nobody wrote:
\* the callee slot, the locals and every value on the evaluation stack are
\* initialised, also after the array moved, also the arguments that were inside
\* it, and also where bytecode has brought the top below its own locals
\* (ms_vm.c:190-220, the relocation of an aliased argv and the nil fill).
LiveInitialised == LiveBelow(co, co.stackTop) /\ LocalsLive(co.frames, co.stack)

\* The frame a run starts with is there until the run ends, in msCallProto one
\* slot above where that entered, and the slots to cut back to stay live.
RunOk(c, a) ==
  /\ a.stopAt < Len(c.frames)
  /\ 0 <= a.top /\ a.top <= c.stackCap /\ LiveBelow(c, a.top)
  /\ a.call => c.frames[a.stopAt + 1].base = a.top + 1

\* A native function is called by a run, and its callee slot and arguments
\* stay below everything that the calls it makes put on the stack.
NativeOk(c, us, k) ==
  /\ k > 1 /\ us[k - 1].type = "run"
  /\ us[k].base >= 1
  /\ k < Len(us) => us[k + 1].type = "run" /\ us[k + 1].call
                     /\ us[k].base + us[k].argc <= us[k + 1].top
  /\ k = Len(us) => us[k].base + us[k].argc <= c.stackTop

\* The C stack and the coroutine agree: what every activation will cut the
\* coroutine back to, or write into, when it ends is still there, however the
\* activations above it end (ms_vm.c:501-507, 846-911, 916-939).
ActsOk(c, us) ==
  /\ \A k \in 1..Len(us) : us[k].type = "run" => RunOk(c, us[k])
  /\ \A k \in 1..Len(us) : us[k].type = "native" => NativeOk(c, us, k)
  /\ \A j, k \in 1..Len(us) :
       j < k /\ us[j].type = "run" /\ us[k].type = "run" => us[j].stopAt < us[k].stopAt

CallStackConsistent == ActsOk(co, acts)

\* msCallProto brackets the stack whatever bytecode ran in between: a failed
\* call leaves the stack as high as it was, and a successful one leaves exactly
\* the value that RETURN had on top, which is also the one handed out
\* (ms_vm.c:931-939, with its MS_ASSERT on stackTop).
CallBracket ==
  [][InVm /\ Act.call /\ Len(acts') < Len(acts) =>
       IF ret'.status = "ok"
       THEN co'.stackTop = Act.top + 1 /\ ret'.out = Peek(0) /\ ret'.out.tag \notin {"junk", "none"}
       ELSE co'.stackTop = Act.top]_vars

\* The slots that belong to the callers of whoever is in control.
Reserved ==
  IF InVm THEN Top.base - 1 ELSE IF InNative THEN Act.base - 1 ELSE co.stackTop

\* In well-formed code a callee never changes a local or an operand of any of
\* its callers, across script calls, native calls and reallocation: all it
\* replaces is the callee slot (ms_vm.c:846-898).
SlotsFrozen ==
  [][\A i \in 0..Reserved - 1 : i < co'.stackCap => co'.stack[i] = co.stack[i]]_vars

\* Well-formed code that was called never fails a structural check of the
\* dispatch loop: no underflow or overflow of the evaluation stack, no bad
\* index, no jump out of the code, also after calls have returned into it
\* (ms_vm.c:511-902).  A frame the host pushed itself holds what the host left.
NeverFaults == InVm /\ Act.call => PcOk /\ ~Fault

----------------------------------------------------------------------------
\* The loop keeps executing, and a native function does not call back for ever.
Fairness == WF_vars(VmStep) /\ SF_vars(NativeReturn \/ NativeFail)

FairSpec == Spec /\ Fairness

\* Code without backward jumps always hands control back to the host: unbounded
\* recursion, also through native functions, ends in the frame or stack limit
\* (ms_vm.c:129-132, 174-180).
HostRegainsControl == acts # <<>> ~> acts = <<>>
============================================================================
