------------------------------ MODULE MCVmAny ------------------------------
(* The machine on arbitrary bytecode: every sequence of CodeLen               *)
(* instructions of a small alphabet, in every frame layout of a small set,   *)
(* is an entry prototype.                                                    *)
EXTENDS MsVm, TLC

CodeLen == 3

\* Names, and the prototypes of the two functions the globals hold.
Native == 1
Recur == 2
Other == 3

Str(name) == Val("str", name)

Plain(params, locals, size, consts, code) ==
  [paramCount |-> params, localCount |-> locals, stackSize |-> size, variadic |-> FALSE,
   isAsync |-> FALSE, consts |-> consts, code |-> code]

\* Calls itself with its own argument.
RecurProto ==
  Plain(1, 1, 2, <<Str(Recur)>>,
        <<I("LOAD_GLOBAL", 0, 0), I("LOAD_LOCAL", 0, 0), I("CALL", 1, 0), I("RETURN", 0, 0)>>)

AsyncProto == [RecurProto EXCEPT !.isAsync = TRUE]

Alphabet ==
  <<I("LOAD_CONST", 0, 0), I("LOAD_NIL", 0, 0), I("LOAD_GLOBAL", 0, 0), I("LOAD_GLOBAL", 0, 1),
    I("LOAD_LOCAL", 0, 0), I("STORE_LOCAL", 0, 0), I("STORE_GLOBAL", 0, 2), I("MOVE", 0, 0),
    I("UNARY", 0, 0), I("BINARY", 0, 0), I("COMPARE", 0, 0), I("CMP_CHAIN", OpNo("LT"), 1),
    I("CALL", 0, 0), I("CALL", 1, 0), I("JUMP", 0, 1), I("JUMP_IF_NIL", 0, -2),
    I("UNPACK", 2, 0), I("BUILD_LIST", 2, 0), I("UNIMPLEMENTED", 0, 0), I("RETURN", 0, 0),
    I("CMP_CHAIN", OpNo("NOT"), 1)>>

\* Code number k of length n: its digits to the base of the alphabet.
Letters == Len(Alphabet)
Code(n, k) == [i \in 1..n |-> Alphabet[((k \div Letters^(i - 1)) % Letters) + 1]]

\* Ids 1 and 2 are the two functions; each layout then has a block of ids.
Block == Letters^CodeLen
Layouts == <<<<0, 1, 2>>, <<1, 1, 1>>>>
LastId == 2 + 2 * Block

Wild(id) ==
  LET k == id - 3
      layout == Layouts[1 + (k \div Block)]
  IN  Plain(layout[1], layout[2], layout[3], <<Str(Native), Str(Recur), Str(Other)>>, Code(CodeLen, k % Block))

MCProto ==
  [id \in 1..LastId |->
     IF id = 1 THEN RecurProto ELSE IF id = 2 THEN AsyncProto ELSE Wild(id)]
MCEntryProtos == 2..LastId
MCInitGlobals == (Native :> Val("cfn", 0)) @@ (Recur :> Val("fn", 1))
MCResults == {IntVal(1), Val("fn", 2)}
============================================================================
