--------------------------- MODULE MCProtoBuilder ---------------------------
(* Builders of a few instructions on two lines, builders of a pool of         *)
(* constants that are equal as values and not as constants, with children,   *)
(* and longer line tables, of which every question is asked, also before the *)
(* first and past the last instruction.                                      *)
EXTENDS MsLineAt

CONSTANTS MaxCode, MaxTries, MaxEntries, MaxLines   \* bounds on the length of the arrays

Const(t, n, s) == [tag |-> t, number |-> n, sign |-> s]
MCConstants == {Const("int", 0, 1), Const("float", 0, 1), Const("float", 0, -1),
                Const("float", 9, 0), Const("str", 0, 1)}
MCAskedPcs == -1 .. MaxLines

OfCode == /\ Len(code.items) <= MaxCode /\ Len(tries.items) <= MaxTries
          /\ consts.items = <<>> /\ ret = NoRet /\ \A c \in Children : owner[c] = "caller"

OfPool == /\ Len(consts.items) <= MaxEntries
          /\ Len(code.items) <= 1 /\ Len(out.code) <= 1 /\ tries = Nothing /\ pending = NoLine

OfLines == /\ Len(code.items) <= MaxLines /\ \A i \in DOMAIN code.items : code.items[i].format = "ABC"
           /\ tries = Nothing /\ consts.items = <<>> /\ error = "OK"
           /\ ret = NoRet /\ \A c \in Children : owner[c] = "caller"
           /\ out.built => code.items = <<>> /\ pending = NoLine

Bounded == /\ OfCode \/ OfPool \/ OfLines
           \* a second prototype is only begun
           /\ out.built => Len(code.items) + Len(consts.items) <= 1
           /\ search # "no" => OfLines
============================================================================
