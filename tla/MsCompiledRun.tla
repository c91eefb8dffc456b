--------------------------- MODULE MsCompiledRun ----------------------------
(* Compiled code at work: the program of a job is compiled, one of the      *)
(* prototypes is run by a machine with one evaluation stack and one window  *)
(* of locals, and what the program does to the outside is compared with     *)
(* what MsSemantics says it means.  The outcome of every comparison and of  *)
(* every test of an unknown value is chosen by the machine and remembered   *)
(* in decisions; the reference is then asked about the same decisions.      *)
(*                                                                          *)
(* The machine is msVmRun restricted to one frame, on symbolic values; its  *)
(* frames, growth and errors are the subject of MsVm.                       *)
EXTENDS MsCompiler

CONSTANTS Jobs,          \* a source file, or a function, as a syntax tree, and which
                         \* allocation of the compiler is refused: [program, fuel]
          MaxDecisions, MaxTrace, LoopFuel

ASSUME RunAssumption == MaxDecisions \in Nat /\ MaxTrace \in Nat /\ LoopFuel \in Nat /\ \A job \in Jobs : job.fuel \in Nat

Ref == INSTANCE MsSemantics

VARIABLES program, compiler, phase, pc, stack, locals, globals, trace, decisions, result
machine == <<pc, stack, locals, globals, trace, decisions, result>>
vars == <<program, compiler, phase, machine>>

\* A function is compiled as the only statement of a source file.
IsModule(p) == p.kind = "source"
Root(p) == IF IsModule(p) THEN p
           ELSE Ast("source", "", 0, <<IF p.kind = "func" THEN p ELSE Ast("exprstmt", "", 0, <<p>>)>>)

\* The children are built before the functions around them.
Proto == IF IsModule(program) THEN compiler.built[Len(compiler.built)] ELSE compiler.built[1]
Here == Proto.code[pc + 1]
Top(n) == stack[Len(stack) - n]
Below(n) == SubSeq(stack, 1, Len(stack) - n)

Meaning == IF IsModule(program) THEN Ref!ModuleMeaning(program, decisions)
           ELSE Ref!FunctionMeaning(program, decisions)

Init ==
  /\ \E job \in Jobs : program = job.program /\ compiler = CompilerInit(job.fuel)
  /\ phase = "source"
  /\ pc = 0 /\ stack = <<>> /\ locals = <<>> /\ globals = <<>>
  /\ trace = <<>> /\ decisions = <<>> /\ result = Nil

\* The whole compilation; the frame of the prototype that is then run has
\* its parameters and, above them, nil.
CompileProgram ==
  /\ phase = "source"
  /\ UNCHANGED <<program, pc, stack, globals, trace, decisions, result>>
  /\ compiler' = Compile(Root(program), compiler.fuel)
  /\ IF compiler'.sticky = "OK"
     THEN /\ phase' = "running"
          /\ locals' = [n \in 1..Proto'.localCount |->
                          IF n <= Proto'.paramCount
                          THEN Ref!GlobalTerm(program.kids[1].kids[n].tag) ELSE Nil]
     ELSE phase' = "refused" /\ UNCHANGED locals

----------------------------------------------------------------------------
Running == phase = "running" /\ pc \in 0..Len(Proto.code) - 1 /\ Len(trace) < MaxTrace

Moves(offset) == pc' = pc + 1 + offset
Sees(event) == trace' = Append(trace, event)
SeesNothing == UNCHANGED <<trace, decisions>>
Rest == UNCHANGED <<program, compiler, phase, result>>

Pushed(v) == Append(stack, v)

Load ==
  /\ Here.op \in {"LOAD_NIL", "LOAD_TRUE", "LOAD_FALSE", "LOAD_CONST", "LOAD_LOCAL", "NOP",
                  "JUMP", "UNIMPLEMENTED"}
  /\ stack' = CASE Here.op = "LOAD_NIL" -> Pushed(Nil)
                [] Here.op = "LOAD_TRUE" -> Pushed(Bool(TRUE))
                [] Here.op = "LOAD_FALSE" -> Pushed(Bool(FALSE))
                [] Here.op = "LOAD_CONST" -> Pushed(Proto.consts[Here.bx + 1])
                [] Here.op = "LOAD_LOCAL" -> Pushed(locals[Here.a + 1])
                [] Here.op = "UNIMPLEMENTED" -> Pushed(Ref!Term("MAKE", <<>>))
                [] OTHER -> stack
  /\ Moves(IF Here.op = "JUMP" THEN Here.bx ELSE 0)
  /\ SeesNothing
  /\ UNCHANGED <<locals, globals>>

StoreLocal ==
  /\ Here.op = "STORE_LOCAL"
  /\ locals' = [locals EXCEPT ![Here.a + 1] = Top(0)]
  /\ stack' = Below(1)
  /\ Moves(0) /\ SeesNothing /\ UNCHANGED globals

GlobalName == Names[Proto.consts[Here.bx + 1].n]

AccessGlobal ==
  /\ Here.op \in {"LOAD_GLOBAL", "STORE_GLOBAL"}
  /\ LET g == Ref!GlobalTerm(GlobalName)
         v == IF GlobalName \in DOMAIN globals THEN globals[GlobalName] ELSE g
     IN  IF Here.op = "LOAD_GLOBAL"
         THEN /\ stack' = Pushed(v)
              /\ Sees(Ref!Term("LOAD", <<g, v>>))
              /\ UNCHANGED globals
         ELSE /\ globals' = Ref!With(globals, GlobalName, Top(0))
              /\ stack' = Below(1)
              /\ Sees(Ref!Term("STORE", <<g, Top(0)>>))
  /\ Moves(0) /\ UNCHANGED <<locals, decisions>>

\* Calls and operators on unknown values are seen; known integers are
\* computed, and the machine raises an error when the result does not fit.
Operate ==
  /\ Here.op \in {"BINARY", "CALL"} \/ (Here.op = "UNARY" /\ Operators[Here.a] # "NOT")
  /\ LET count == Pops(Here)
         args == SubSeq(stack, Len(stack) - count + 1, Len(stack))
         tag == IF Here.op = "CALL" THEN "CALL" ELSE Operators[Here.a]
         known == Here.op # "CALL" /\ \A n \in DOMAIN args : args[n].tag = "int"
     IN  IF known
         THEN LET n == Ref!KnownInt(tag, args)
              IN  IF InInt(n)
                  THEN /\ stack' = Append(Below(count), IntVal(n))
                       /\ Moves(0) /\ SeesNothing /\ Rest
                  ELSE /\ phase' = "raised"
                       /\ UNCHANGED <<program, compiler, pc, stack, trace, decisions, result>>
         ELSE /\ stack' = Append(Below(count), Ref!Term(tag, args))
              /\ Sees(Ref!Term(tag, args))
              /\ Moves(0) /\ UNCHANGED decisions /\ Rest
  /\ UNCHANGED <<locals, globals>>

Build ==
  /\ Here.op \in Builds
  /\ stack' = Append(Below(Pops(Here)),
                     Ref!Term(Here.op, SubSeq(stack, Len(stack) - Pops(Here) + 1, Len(stack))))
  /\ Moves(0) /\ SeesNothing /\ UNCHANGED <<locals, globals>>

Unpack ==
  /\ Here.op = "UNPACK"
  /\ stack' = Below(1) \o [n \in 1..Here.a |->
                             Ref!Term(IF n = Here.bx + 1 THEN "REST" ELSE "ITEM", <<Top(0), IntVal(n)>>)]
  /\ Sees(Ref!Term("UNPACK", <<Top(0)>>))
  /\ Moves(0) /\ UNCHANGED <<locals, globals, decisions>>

\* What to do once the outcome b of a test of v is known: at once when v is
\* a known value, with a decision when it is not.
Testing(v, Then(_)) ==
  IF Ref!IsTerm(v)
  THEN /\ Len(decisions) < MaxDecisions
       /\ \E b \in BOOLEAN : /\ decisions' = Append(decisions, b)
                             /\ Sees(Ref!Term("TEST", <<v, Bool(b)>>))
                             /\ Then(b)
  ELSE Then(Truthy(v)) /\ SeesNothing

Not ==
  /\ Here.op = "UNARY" /\ Operators[Here.a] = "NOT"
  /\ Testing(Top(0), LAMBDA b : stack' = Append(Below(1), Bool(~b)))
  /\ Moves(0) /\ UNCHANGED <<locals, globals>>

CondJump ==
  /\ Here.op \in {"JUMP_IF_FALSE", "JUMP_IF_TRUE"}
  /\ Testing(Top(0), LAMBDA b : Moves(IF b = (Here.op = "JUMP_IF_TRUE") THEN Here.bx ELSE 0))
  /\ stack' = Below(1)
  /\ UNCHANGED <<locals, globals>>

\* A link of a chain that holds leaves its right operand for the next one.
Compare ==
  /\ Here.op \in {"COMPARE", "CMP_CHAIN"}
  /\ Len(decisions) < MaxDecisions
  /\ \E b \in BOOLEAN :
       /\ decisions' = Append(decisions, b)
       /\ Sees(Ref!Term(Operators[Here.a], <<Top(1), Top(0), Bool(b)>>))
       /\ stack' = Append(Below(2), IF Here.op = "CMP_CHAIN" /\ b THEN Top(0) ELSE Bool(b))
       /\ Moves(IF Here.op = "CMP_CHAIN" /\ ~b THEN Here.bx ELSE 0)
  /\ UNCHANGED <<locals, globals>>

Return ==
  /\ Here.op = "RETURN"
  /\ phase' = "returned" /\ result' = Top(0) /\ stack' = Below(1)
  /\ UNCHANGED <<program, compiler, pc, locals, globals, trace, decisions>>

Step ==
  /\ Running
  /\ \/ Load /\ Rest
     \/ StoreLocal /\ Rest
     \/ AccessGlobal /\ Rest
     \/ Operate
     \/ Build /\ Rest
     \/ Unpack /\ Rest
     \/ Not /\ Rest
     \/ CondJump /\ Rest
     \/ Compare /\ Rest
     \/ Return

Next == CompileProgram \/ Step

Spec == Init /\ [][Next]_vars

----------------------------------------------------------------------------
AgreesWith(m) ==
  /\ IsPrefix(trace, m.trace)
  /\ phase = "returned" => m.stop = "return" /\ trace = m.trace /\ result = m.val
  /\ phase = "raised" => m.stop = "raised" /\ trace = m.trace

\* What the machine has done is what the program means, decision by
\* decision: the evaluation order, the values of locals and globals, which
\* operands are skipped, where break and continue go, and the value
\* returned (ms_compiler.c:631-889, 1161-1474, 1683-1694).
Faithful == phase \notin {"source", "refused"} => AgreesWith(Meaning)

\* Every prototype the compiler hands out fits what it declares: no
\* instruction finds fewer operands than it takes, a slot beyond localCount,
\* more than stackSize values, or control outside the code
\* (ms_compiler.c:101-135, 1634-1665).
Fits ==
  phase = "running" =>
    /\ pc \in 0..Len(Proto.code)
    /\ Len(stack) <= Proto.stackSize
    /\ pc < Len(Proto.code) =>
         /\ Len(stack) >= Pops(Here)
         /\ Here.op \in {"LOAD_LOCAL", "STORE_LOCAL"} => Here.a < Proto.localCount
         /\ Here.op = "UNPACK" => Len(stack) + Here.a <= Proto.stackSize
         /\ Here.op = "RETURN" => Len(stack) = 1

\* Whatever allocation is refused and whatever error the source has, no
\* assertion of the compiler fails, every function context and loop it
\* opened is closed, and a prototype is handed out exactly when nothing was
\* reported (ms_compiler.c:1580-1665, 1813-1836).
CleanEnd ==
  phase # "source" =>
    /\ ~compiler.broken
    /\ compiler.fn = NoFunc /\ compiler.parents = <<>> /\ compiler.nodes = 0
    /\ compiler.sticky = "OK" <=> compiler.diags = 0

\* Control never leaves the code: a body whose last statement is no return
\* gives nil (docs/tasks/13-functions-calls.md:215).
NeverRunsOff == phase = "running" => pc < Len(Proto.code)
============================================================================
