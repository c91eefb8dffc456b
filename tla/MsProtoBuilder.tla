--------------------------- MODULE MsProtoBuilder ---------------------------
(* The builder of prototypes: src/vm/ms_proto.c.  Four arrays that grow by   *)
(* doubling and are shrunk when the prototype is built, any of which may be  *)
(* refused; a run-length line table; a constant pool without duplicates; and *)
(* child prototypes that change hands.                                       *)
EXTENDS Integers, Sequences, FiniteSets

CONSTANTS Lines,        \* source lines
          Constants,    \* pool values: tag, number or content, and sign (0: not a number)
          Children,     \* child prototypes a caller may add
          InitialCap,   \* MS_PROTO_INITIAL_CAP
          ConstsMax,    \* MS_PROTO_CONSTS_MAX
          SaxMax,       \* the largest jump offset, 2^23 - 1
          Offsets       \* the jump offsets tried

ASSUME BuilderAssumption ==
  /\ Lines \subseteq Nat \ {0} /\ InitialCap \in Nat \ {0}
  /\ ConstsMax \in Nat /\ SaxMax \in Nat /\ Offsets \subseteq Int
  /\ \A v \in Constants : v \in [tag : {"int", "float", "str"}, number : Int, sign : {-1, 0, 1}]

VARIABLES code, lines, consts, tries,   \* arrays: the items, the capacity noted, the room allocated
          pending,      \* the line registered for the next instruction, or NoLine
          error,        \* sticky: the first failure
          owner,        \* who has to free each child
          ret,          \* the last AddConst: its argument and the index returned
          written,      \* history: the line each instruction was emitted for, or NoLine
          out           \* the prototype built, or NoProto
builderVars == <<code, lines, consts, tries, pending, error, owner, ret, written, out>>

NoLine == 0
Nothing == [items |-> <<>>, cap |-> 0, room |-> 0]
NoProto == [built |-> FALSE, code |-> <<>>, lines |-> <<>>, consts |-> <<>>, written |-> <<>>]
NoRet == [value |-> [tag |-> "none", number |-> 0, sign |-> 0], index |-> -1]
IsNaN(v) == v.tag = "float" /\ v.sign = 0
Child(c) == [tag |-> "proto", number |-> c, sign |-> 1]

Last(s) == s[Len(s)]
SaxOk(sax) == -(SaxMax + 1) <= sax /\ sax <= SaxMax

Init == /\ code = Nothing /\ lines = Nothing /\ consts = Nothing /\ tries = Nothing
        /\ pending = NoLine /\ error = "OK" /\ written = <<>>
        /\ owner = [c \in Children |-> "caller"] /\ ret = NoRet /\ out = NoProto

----------------------------------------------------------------------------
(* Arrays.                                                                   *)

NoRoom == [items |-> <<>>, cap |-> -1, room |-> -1]

Grown(a) == LET cap == IF a.cap = 0 THEN InitialCap ELSE a.cap * 2
            IN  [a EXCEPT !.cap = cap, !.room = cap]

\* The array with a free place, as msProtoGrowArray may leave it.
WithRoom(a) == IF Len(a.items) = a.cap THEN {Grown(a), NoRoom} ELSE {a}

Push(a, x) == [a EXCEPT !.items = Append(@, x)]

Fails(e) == error' = e

----------------------------------------------------------------------------
(* Instructions and lines.                                                   *)

SetLine(line) == /\ pending' = line
                 /\ UNCHANGED <<code, lines, consts, tries, error, owner, ret, written, out>>

NeedLineEntry == pending # NoLine /\ (lines.items = <<>> \/ Last(lines.items).line # pending)

\* The line an instruction emitted now belongs to.
InForce == IF pending # NoLine THEN pending
           ELSE IF written = <<>> THEN NoLine ELSE Last(written)

Entry == [pc |-> Len(code.items), line |-> pending]

\* Both arrays have room before either is written.
Emit(instr) ==
  \E c \in WithRoom(code) :
    \E l \in IF NeedLineEntry THEN WithRoom(lines) ELSE {lines} :
      IF c = NoRoom \/ l = NoRoom
      THEN /\ Fails("OOM") /\ code' = IF c = NoRoom THEN code ELSE c
           /\ UNCHANGED <<lines, pending, written>>
      ELSE /\ code' = Push(c, instr)
           /\ lines' = IF NeedLineEntry THEN Push(l, Entry) ELSE l
           /\ written' = Append(written, InForce)
           /\ pending' = NoLine /\ UNCHANGED error

EmitABC == /\ error = "OK"
           /\ Emit([format |-> "ABC", sax |-> 0])
           /\ UNCHANGED <<consts, tries, owner, ret, out>>

EmitSAx(sax) ==
  /\ error = "OK"
  /\ IF SaxOk(sax) THEN Emit([format |-> "SAX", sax |-> sax])
     ELSE Fails("SYNTAX") /\ UNCHANGED <<code, lines, pending, written>>
  /\ UNCHANGED <<consts, tries, owner, ret, out>>

PatchSAx(pc, sax) ==
  /\ error = "OK"
  /\ IF pc \in 0..Len(code.items) - 1 /\ code.items[pc + 1].format = "SAX" /\ SaxOk(sax)
     THEN code' = [code EXCEPT !.items[pc + 1].sax = sax] /\ UNCHANGED error
     ELSE Fails("SYNTAX") /\ UNCHANGED code
  /\ UNCHANGED <<lines, consts, tries, pending, owner, ret, written, out>>

----------------------------------------------------------------------------
(* Constants, children and exception table entries.  No caller passes a      *)
(* prototype to AddConst, or anything else to AddProto.                      *)

\* msObjectValueEquals: numbers compare across tags, and NaN with nothing.
ValueEquals(v, w) == v.number = w.number /\ ~IsNaN(v) /\ ~IsNaN(w) /\ (v.tag = "str" <=> w.tag = "str")

\* The tags are not compared.
ConstEqualsByValue(v, w) == v.tag # "proto" /\ w.tag # "proto" /\ v.sign = w.sign /\ ValueEquals(v, w)

\* Equal numbers of different tags, and the two zeroes, are different constants.
ConstEquals(v, w) == v.tag = w.tag /\ v.tag # "proto" /\ v.sign = w.sign /\ ValueEquals(v, w)

AddConst(v) ==
  LET found == {i \in 1..Len(consts.items) : ConstEquals(consts.items[i], v)}
      Add(a) == consts' = Push(a, v) /\ ret' = [value |-> v, index |-> Len(a.items)] /\ UNCHANGED error
      Fail(e) == Fails(e) /\ ret' = [value |-> v, index |-> -1] /\ UNCHANGED consts
  IN  /\ error = "OK"
      /\ IF Len(consts.items) >= ConstsMax THEN Fail("SYNTAX")
         ELSE IF found # {}
         THEN /\ ret' = [value |-> v, index |-> (CHOOSE i \in found : \A j \in found : i <= j) - 1]
              /\ UNCHANGED <<consts, error>>
         ELSE \E a \in WithRoom(consts) : IF a = NoRoom THEN Fail("OOM") ELSE Add(a)
      /\ UNCHANGED <<code, lines, tries, pending, owner, written, out>>

\* The child is taken before there is room for it.
AddProtoEager(c) ==
  /\ error = "OK" /\ owner[c] = "caller"
  /\ owner' = [owner EXCEPT ![c] = "builder"]
  /\ IF Len(consts.items) >= ConstsMax THEN Fails("SYNTAX") /\ UNCHANGED consts
     ELSE \E a \in WithRoom(consts) :
            IF a = NoRoom THEN Fails("OOM") /\ UNCHANGED consts
            ELSE consts' = Push(a, Child(c)) /\ UNCHANGED error
  /\ UNCHANGED <<code, lines, tries, pending, ret, written, out>>

\* The caller keeps a child that could not be added.
AddProto(c) ==
  LET Fail(e) == Fails(e) /\ UNCHANGED <<consts, owner>>
  IN  /\ error = "OK" /\ owner[c] = "caller"
      /\ IF Len(consts.items) >= ConstsMax THEN Fail("SYNTAX")
         ELSE \E a \in WithRoom(consts) :
                IF a = NoRoom THEN Fail("OOM")
                ELSE /\ consts' = Push(a, Child(c)) /\ owner' = [owner EXCEPT ![c] = "builder"]
                     /\ UNCHANGED error
      /\ UNCHANGED <<code, lines, tries, pending, ret, written, out>>

AddTryBlock ==
  /\ error = "OK"
  /\ \E a \in WithRoom(tries) :
       IF a = NoRoom THEN Fails("OOM") /\ UNCHANGED tries ELSE tries' = Push(a, "try") /\ UNCHANGED error
  /\ UNCHANGED <<code, lines, consts, pending, owner, ret, written, out>>

\* The compiler frees a child it still owns (msCompilerCompileFunction).
FreeChild(c) ==
  /\ owner[c] = "caller" /\ owner' = [owner EXCEPT ![c] = "gone"]
  /\ UNCHANGED <<code, lines, consts, tries, pending, error, ret, written, out>>

----------------------------------------------------------------------------
(* Building and freeing.                                                     *)

\* msProtoShrinkArray changes the block, not the capacity that was noted.
Shrunk(a) == [a EXCEPT !.room = Len(a.items)]

\* A shrink may be refused only if there is something to reallocate.
ShrinkRefused(a) == a.items # <<>>

Handed(from, to) == [c \in Children |-> IF owner[c] = from THEN to ELSE owner[c]]

Empty == /\ code' = Nothing /\ lines' = Nothing /\ consts' = Nothing /\ tries' = Nothing
         /\ pending' = NoLine /\ error' = "OK" /\ written' = <<>>

BuildOk ==
  /\ out' = [built |-> TRUE, code |-> code.items, lines |-> lines.items, consts |-> consts.items,
             written |-> written]
  /\ owner' = Handed("builder", "proto") /\ Empty /\ ret' = NoRet

\* The failed build does not stick.
BuildRefusedQuiet ==
  /\ \E k \in 0..4 :
       LET arrays == <<code, consts, tries, lines>>
           After(i) == IF i <= k THEN Shrunk(arrays[i]) ELSE arrays[i]
       IN  /\ k < 4 => ShrinkRefused(arrays[k + 1])
           /\ code' = After(1) /\ consts' = After(2) /\ tries' = After(3) /\ lines' = After(4)
  /\ UNCHANGED <<pending, error, owner, ret, written, out>>

\* The arrays are shrunk one after the other; the first refusal, the one of the
\* prototype itself included, leaves those before it shrunk.
BuildRefused ==
  /\ Fails("OOM")
  /\ \E k \in 0..4 :
       LET arrays == <<code, consts, tries, lines>>
           After(i) == IF i <= k THEN Shrunk(arrays[i]) ELSE arrays[i]
       IN  /\ k < 4 => ShrinkRefused(arrays[k + 1])
           /\ code' = After(1) /\ consts' = After(2) /\ tries' = After(3) /\ lines' = After(4)
  /\ UNCHANGED <<pending, owner, ret, written, out>>

BuildEmpty == Fails("SYNTAX") /\ UNCHANGED <<code, lines, consts, tries, pending, owner, ret, written, out>>

Build == /\ error = "OK" /\ ~out.built
         /\ IF code.items = <<>> THEN BuildEmpty ELSE BuildOk \/ BuildRefused

\* msProtoBuilderDestroy frees the children it holds.
Destroy == Empty /\ owner' = Handed("builder", "gone") /\ ret' = NoRet /\ UNCHANGED out

ProtoFree == /\ out.built /\ out' = NoProto /\ owner' = Handed("proto", "gone")
             /\ UNCHANGED <<code, lines, consts, tries, pending, error, ret, written>>

Pcs == -1..Len(code.items)

Next == \/ \E line \in Lines : SetLine(line)
        \/ EmitABC \/ AddTryBlock \/ Build \/ Destroy \/ ProtoFree
        \/ \E sax \in Offsets : EmitSAx(sax) \/ \E pc \in Pcs : PatchSAx(pc, sax)
        \/ \E v \in Constants : AddConst(v)
        \/ \E c \in Children : AddProto(c) \/ FreeChild(c)

Spec == Init /\ [][Next]_builderVars

----------------------------------------------------------------------------
(* Properties.                                                               *)

ArrayOf(S) == [items : Seq(S), cap : Nat, room : Nat]
Instruction == [format : {"ABC", "SAX"}, sax : Int]
LineEntry == [pc : Nat, line : Nat \ {0}]
Item == Constants \cup {Child(c) : c \in Children}

TypeOK ==
  /\ code \in ArrayOf(Instruction) /\ lines \in ArrayOf(LineEntry)
  /\ consts \in ArrayOf(Item) /\ tries \in ArrayOf({"try"})
  /\ pending \in Nat /\ error \in {"OK", "OOM", "SYNTAX"}
  /\ owner \in [Children -> {"caller", "builder", "proto", "gone"}]
  /\ written \in Seq(Nat) /\ Len(written) = Len(code.items)
  /\ out.built \in BOOLEAN
  /\ out.lines \in Seq(LineEntry) /\ out.written \in Seq(Nat) /\ Len(out.code) = Len(out.written)

\* No array holds more than its block has room for, and a capacity is the room
\* of the block for as long as something may still be appended: what
\* msProtoBuild shrank before it failed is never written to again.
ArrayFits(a) == /\ Len(a.items) <= a.room
                /\ error = "OK" => a.cap = a.room
WritesFit == ArrayFits(code) /\ ArrayFits(lines) /\ ArrayFits(consts) /\ ArrayFits(tries)

\* t assigns every instruction the line it was emitted for: its runs are in
\* order, and each covers the instructions up to the next.
RunEnd(t, k, n) == IF k = Len(t) THEN n ELSE t[k + 1].pc
Describes(t, w) ==
  /\ \A k \in 1..Len(t) : t[k].pc < RunEnd(t, k, Len(w))
  /\ \A k \in 1..Len(t) : \A pc \in t[k].pc..RunEnd(t, k, Len(w)) - 1 : w[pc + 1] = t[k].line
  /\ \A pc \in 0..RunEnd(t, 0, Len(w)) - 1 : w[pc + 1] = NoLine

\* The line table says of every instruction which line it was emitted for,
\* whichever allocation was refused in between, and so does the built one.
LineTableExact == Describes(lines.items, written) /\ Describes(out.lines, out.written)

Distinct(pool) ==
  \A i, j \in 1..Len(pool) : i # j => pool[i] # pool[j] \/ IsNaN(pool[i])

\* The constant at the index that AddConst returned is the constant asked for,
\* to the type and to the sign of a zero; no constant but NaN is held twice.
PoolExact ==
  /\ ret.index >= 0 => consts.items[ret.index + 1] = ret.value
  /\ Distinct(consts.items) /\ Distinct(out.consts)

Holders(c) == [builder |-> {i \in 1..Len(consts.items) : consts.items[i] = Child(c)},
               proto |-> {i \in 1..Len(out.consts) : out.consts[i] = Child(c)}]

\* Every child has exactly one owner: it is in the pool of the builder or of
\* the prototype that will free it, once, and in no other.
OwnedOnce ==
  \A c \in Children :
    /\ Cardinality(Holders(c).builder) = IF owner[c] = "builder" THEN 1 ELSE 0
    /\ Cardinality(Holders(c).proto) = IF owner[c] = "proto" THEN 1 ELSE 0
============================================================================
