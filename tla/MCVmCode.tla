----------------------------- MODULE MCVmCode ------------------------------
(* The machine on well-formed code: recursion, calls in the middle of an     *)
(* expression, a comparison chain, unpacking, and native functions    *)
(* that call back.                                                           *)
EXTENDS MsVm, TLC

\* The global names.
Native == 1
Recur == 2

Str(name) == Val("str", name)

Plain(params, locals, size, consts, code) ==
  [paramCount |-> params, localCount |-> locals, stackSize |-> size, variadic |-> FALSE,
   isAsync |-> FALSE, consts |-> consts, code |-> code]

\* func recur(x) { x = recur(x); return x }
RecurProto ==
  Plain(1, 1, 2, <<Str(Recur)>>,
        <<I("LOAD_GLOBAL", 0, 0), I("LOAD_LOCAL", 0, 0), I("CALL", 1, 0), I("STORE_LOCAL", 0, 0),
          I("LOAD_LOCAL", 0, 0), I("RETURN", 0, 0)>>)

\* return 1 + native(native(1) ? recur : nil)
CallsProto ==
  Plain(0, 0, 4, <<IntVal(1), Str(Native), Str(Recur)>>,
        <<I("LOAD_CONST", 0, 0), I("LOAD_GLOBAL", 0, 1), I("LOAD_GLOBAL", 0, 1),
          I("LOAD_CONST", 0, 0), I("CALL", 1, 0), I("JUMP_IF_FALSE", 0, 2),
          I("LOAD_GLOBAL", 0, 2), I("JUMP", 0, 1), I("LOAD_NIL", 0, 0),
          I("CALL", 1, 0), I("BINARY", 0, 0), I("RETURN", 0, 0)>>)

\* func(x) { a, *b = [x, nil]; return a < x < b }
ChainProto ==
  Plain(1, 3, 3, <<>>,
        <<I("LOAD_LOCAL", 0, 0), I("LOAD_NIL", 0, 0), I("BUILD_LIST", 2, 0), I("UNPACK", 2, 1),
          I("STORE_LOCAL", 2, 0), I("STORE_LOCAL", 1, 0), I("LOAD_LOCAL", 1, 0),
          I("LOAD_LOCAL", 0, 0), I("CMP_CHAIN", OpNo("LT"), 2), I("LOAD_LOCAL", 2, 0),
          I("COMPARE", 0, 0), I("NOP", 0, 0), I("RETURN", 0, 0)>>)

\* func leaf(x) { return x }
LeafProto == Plain(1, 1, 1, <<>>, <<I("LOAD_LOCAL", 0, 0), I("RETURN", 0, 0)>>)

MCProto == <<RecurProto, CallsProto, ChainProto, LeafProto>>
MCInitGlobals == (Native :> Val("cfn", 0)) @@ (Recur :> Val("fn", 1))
MCResults == {IntVal(0), Val("fn", 1)}

\* The depth of the evaluation stack before every instruction: the witness
\* that the code is well formed.
Depths ==
  <<<<0, 1, 2, 1, 0, 1>>,
    <<0, 1, 2, 3, 4, 3, 2, 3, 2, 3, 2, 1>>,
    <<0, 1, 2, 1, 2, 1, 0, 1, 2, 1, 2, 1, 1>>,
    <<0, 1>>>>

ASSUME CodeAssumption ==
  \A id \in DOMAIN Proto :
    /\ Len(Depths[id]) = Len(Proto[id].code)
    /\ DepthOk(Proto[id], [pc \in 0..Len(Proto[id].code) - 1 |-> Depths[id][pc + 1]])
============================================================================
