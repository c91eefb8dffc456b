---------------------------- MODULE MsBytecode ----------------------------
(* The vocabulary shared by the compiler and the virtual machine: values,  *)
(* instructions, function prototypes, and what it means for the code of a  *)
(* prototype to be well formed.                                            *)
(*                                                                         *)
(* A value is a tag and a number: the number of a list is its length, that *)
(* of a function the prototype it runs, that of a string its name.  Opcodes *)
(* that the machine treats alike are one opcode here: BINARY stands for the *)
(* twelve arithmetic opcodes, UNARY for three, COMPARE for eight, and       *)
(* UNIMPLEMENTED for those the compiler can emit and the machine rejects.   *)
(* Which of them an instruction is, and which comparison a CMP_CHAIN makes, *)
(* is the number OpNo in its operand a.                                     *)
EXTENDS Integers, Sequences

Val(tag, n) == [tag |-> tag, n |-> n]

Nil == Val("nil", 0)
Bool(b) == Val("bool", IF b THEN 1 ELSE 0)
IntVal(n) == Val("int", n)

\* A slot of a freshly (re)allocated array that nobody has written.
Junk == Val("junk", 0)

\* The null pointer.
NoValue == Val("none", 0)

Truthy(v) ==
  CASE v.tag = "nil" -> FALSE
    [] v.tag \in {"bool", "int", "str", "list", "dict"} -> v.n # 0
    [] OTHER -> TRUE

----------------------------------------------------------------------------
Singletons == {"LOAD_NIL", "LOAD_TRUE", "LOAD_FALSE"}
CondJumps == {"JUMP_IF_FALSE", "JUMP_IF_TRUE", "JUMP_IF_NIL"}
Builds == {"BUILD_LIST", "BUILD_DICT"}

Op == Singletons \cup CondJumps \cup Builds \cup
      {"NOP", "LOAD_CONST", "MOVE", "LOAD_LOCAL", "STORE_LOCAL",
       "LOAD_GLOBAL", "STORE_GLOBAL", "BINARY", "UNARY", "COMPARE",
       "CMP_CHAIN", "JUMP", "UNPACK", "CALL", "RETURN", "UNIMPLEMENTED"}

\* bx is the second operand: an index, or the signed offset of a jump.
Instr == [op : Op, a : 0..255, bx : Int]
I(op, a, bx) == [op |-> op, a |-> a, bx |-> bx]

\* Of opcodes alike, a few stand for all; they are numbered in the order of MsOpCode, in which
\* the comparisons are a range (EQ to IN).
Operators == <<"ADD", "SUB", "NEG", "NOT", "LT", "IN">>
OpNo(tag) == CHOOSE n \in DOMAIN Operators : Operators[n] = tag
Comparisons == OpNo("LT")..OpNo("IN")

\* UNPACK without a starred target.
NoStar == 65535

----------------------------------------------------------------------------
\* How many values an instruction takes off the evaluation stack and how
\* many it puts there.
BuildCount(i) == IF i.op = "BUILD_DICT" THEN 2 * i.a ELSE i.a

Pops(i) ==
  CASE i.op \in {"STORE_LOCAL", "STORE_GLOBAL", "UNARY", "UNPACK", "RETURN"} -> 1
    [] i.op \in CondJumps -> 1
    [] i.op \in {"BINARY", "COMPARE", "CMP_CHAIN"} -> 2
    [] i.op \in Builds -> BuildCount(i)
    [] i.op = "CALL" -> i.a + 1
    [] OTHER -> 0

Pushes(i) ==
  CASE i.op \in Singletons \cup Builds -> 1
    [] i.op \in {"LOAD_CONST", "LOAD_LOCAL", "LOAD_GLOBAL", "BINARY", "UNARY",
                 "COMPARE", "CMP_CHAIN", "CALL"} -> 1
    [] i.op = "UNPACK" -> i.a
    [] OTHER -> 0

\* Where control may go after the instruction at pc.
Successors(i, pc) ==
  CASE i.op = "RETURN" -> {}
    [] i.op = "JUMP" -> {pc + 1 + i.bx}
    [] i.op \in CondJumps \cup {"CMP_CHAIN"} -> {pc + 1, pc + 1 + i.bx}
    [] OTHER -> {pc + 1}

\* The operands of an instruction are ones the machine accepts.
OperandsOk(p, i) ==
  /\ i.op # "UNIMPLEMENTED"
  /\ i.op \in {"LOAD_CONST", "LOAD_GLOBAL", "STORE_GLOBAL"} => i.bx \in 0..Len(p.consts) - 1
  /\ i.op \in {"LOAD_GLOBAL", "STORE_GLOBAL"} => p.consts[i.bx + 1].tag = "str"
  /\ i.op \in {"MOVE", "LOAD_LOCAL", "STORE_LOCAL"} => i.a < p.localCount
  /\ i.op = "MOVE" => i.bx \in 0..p.localCount - 1
  /\ i.op = "CMP_CHAIN" => i.a \in Comparisons /\ i.bx >= 0
  /\ i.op = "UNPACK" => i.a >= 1 /\ (i.bx = NoStar \/ i.bx \in 0..i.a - 1)

\* d gives the depth of the evaluation stack before every instruction: it
\* starts empty, every instruction finds its operands and stays within
\* stackSize, control stays inside the code, and all ways to reach an
\* instruction agree on the depth.
DepthOk(p, d) ==
  /\ d[0] = 0
  /\ \A pc \in DOMAIN d :
       LET i == p.code[pc + 1]
           after == d[pc] - Pops(i) + Pushes(i)
       IN  /\ OperandsOk(p, i)
           /\ d[pc] >= Pops(i)
           /\ i.op # "RETURN" => after <= p.stackSize
           /\ i.op = "UNPACK" => d[pc] + i.a <= p.stackSize
           /\ \A t \in Successors(i, pc) : t \in DOMAIN d /\ d[t] = after

WellFormed(p) ==
  /\ p.code # <<>>
  /\ 0 <= p.paramCount /\ p.paramCount <= p.localCount
  /\ \E d \in [0..Len(p.code) - 1 -> 0..p.stackSize] : DepthOk(p, d)
============================================================================
