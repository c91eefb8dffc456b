---------------------------- MODULE MsOperations ----------------------------
(* Operations on values as the machine carries them out: arithmetic and       *)
(* comparison, the builtin functions range, min and max, and the instructions  *)
(* that build lists and dictionaries and take lists apart.  Lists and          *)
(* dictionaries (src/object/ms_list.c, ms_dict.c) grow by doubling, and every  *)
(* allocation may be refused.                                                  *)
EXTENDS MsArith, Sequences, FiniteSets

CONSTANTS FirstCapacity,   \* of a container that grows: 4
          MaxCapacity,     \* INT64_MAX
          MaxSlots,        \* SIZE_MAX divided by the size of a slot
          Keys,            \* values used as keys, and as operands of min and max
          MaxPairs,        \* pairs of a dictionary
          MaxTargets,      \* targets of an unpacking
          MaxItems         \* items of a list

ASSUME OperationsAssumption ==
  /\ {FirstCapacity, MaxCapacity, MaxSlots} \subseteq Nat \ {0}
  /\ {MaxPairs, MaxTargets, MaxItems} \subseteq Nat
  /\ Keys \subseteq Numbers \cup {BoolOf(FALSE), BoolOf(TRUE)}

VARIABLES at,       \* "idle", "running" or "done"
          op, args, \* the operation and its operands
          box,      \* the container being made
          todo,     \* range: the next item; otherwise unused
          answer
vars == <<at, op, args, box, todo, answer>>

(********************************* containers *********************************)

\* want: how many items are going to be put in.
NewContainer(cap, want) == [items |-> <<>>, cap |-> cap, want |-> want]
NoContainer == NewContainer(0, 0)

\* One more item: the room is doubled when it is used up.
Room(box_, granted) ==
  IF Len(box_.items) < box_.cap THEN [ok |-> TRUE, cap |-> box_.cap]
  ELSE LET cap == IF box_.cap = 0 THEN FirstCapacity ELSE 2 * box_.cap
       IN  [ok |-> box_.cap <= MaxCapacity \div 2 /\ cap <= MaxSlots /\ granted, cap |-> cap]

Put(box_, item, granted) ==
  LET room == Room(box_, granted)
  IN  [ok  |-> room.ok,
       box |-> IF room.ok THEN [box_ EXCEPT !.cap = room.cap, !.items = Append(@, item)] ELSE box_]

\* msNewList allocates all the room it is asked for.
ListRefused(cap, granted) == cap > MaxSlots \/ ~granted

\* Equal keys of one representation are taken to be one object.
EntryOf(entries, k) == {i \in DOMAIN entries : ValueEquals(entries[i].key, k, entries[i].key = k)}
FirstEntry(entries, k) == CHOOSE i \in EntryOf(entries, k) : \A j \in EntryOf(entries, k) : i <= j

DictSet(box_, k, v, granted) ==
  IF EntryOf(box_.items, k) # {}
  THEN [ok |-> TRUE, box |-> [box_ EXCEPT !.items[FirstEntry(box_.items, k)].value = v]]
  ELSE Put(box_, [key |-> k, value |-> v], granted)

(********************************** one step **********************************)

Oom == Raises("out of memory")

Init == /\ at = "idle" /\ op = "none" /\ args = <<>>
        /\ box = NoContainer /\ todo = 0 /\ answer = Gives(Nothing)

Finished(o, operands, result) ==
  /\ at' = "done"
  /\ op' = o /\ args' = operands /\ answer' = result
  /\ UNCHANGED <<box, todo>>

Idle == at = "idle"

Binary == Idle /\ \E o \in BinaryOps, l, r \in Words :
            Finished(o, <<IntOf(l), IntOf(r)>>, BinaryOp(o, l, r))

Unary == Idle /\ \E o \in UnaryOps, n \in Numbers : Finished(o, <<n>>, UnaryOp(o, n))

Comparisons == {"EQ", "NE", "LT", "LE", "GT", "GE"}

Comparison == Idle /\ \E o \in Comparisons, a, b \in Numbers :
                Finished(o, <<a, b>>, Gives(BoolOf(ComparisonFromOrder(o, Compare(a, b)))))

\* Whether two keys are one; a value compared with itself is one object or two.
KeyComparison == Idle /\ \E a, b \in Numbers, same \in BOOLEAN :
                   /\ same => a = b
                   /\ Finished("key", <<a, b>>, Gives(BoolOf(ValueEquals(a, b, same))))

\* min and max: an operand that has no order with the winner is passed over.
Wins(o, order) == order # Unordered /\ (IF o = "max" THEN order < 0 ELSE order > 0)
Winner(o, ns) ==
  LET best[i \in 1..Len(ns)] == IF i = 1 THEN ns[1]
        ELSE IF Wins(o, Compare(best[i - 1], ns[i])) THEN ns[i] ELSE best[i - 1]
  IN  best[Len(ns)]

Extreme == Idle /\ \E o \in {"min", "max"}, n \in 0..3 : \E ns \in [1..n -> Keys \cap Numbers] :
             Finished(o, ns, IF n = 0 THEN Raises("arg is an empty sequence") ELSE Gives(Winner(o, ns)))

(************************************ range ***********************************)

Distance(from, to) == Unsigned(Unsigned(to) - Unsigned(from))

\* -step may not be a word: the sign is changed in two steps.
Stride(step) == IF step > 0 THEN step ELSE Unsigned(Unsigned(-(step + 1)) + 1)

\* A step that ends short of stop is not counted.
RangeCountWholeSteps(start, stop, step) ==
  CASE step > 0 /\ start < stop -> Distance(start, stop) \div Stride(step)
    [] step < 0 /\ start > stop -> Distance(stop, start) \div Stride(step)
    [] OTHER -> 0

RangeCount(start, stop, step) ==
  CASE step > 0 /\ start < stop -> 1 + (Distance(start, stop) - 1) \div Stride(step)
    [] step < 0 /\ start > stop -> 1 + (Distance(stop, start) - 1) \div Stride(step)
    [] OTHER -> 0

\* The operands of range with their defaults.
Start(ns) == IF Len(ns) >= 2 THEN WordOf(ns[1]) ELSE 0
Stop(ns)  == IF Len(ns) >= 2 THEN WordOf(ns[2]) ELSE WordOf(ns[1])
Step(ns)  == IF Len(ns) = 3 THEN WordOf(ns[3]) ELSE 1

Begin(o, operands, box_, todo_) ==
  /\ at' = "running"
  /\ op' = o /\ args' = operands /\ box' = box_ /\ todo' = todo_
  /\ UNCHANGED answer

StartRange == Idle /\
  \E n \in 1..3 : \E ns \in [1..n -> Ints], granted \in BOOLEAN :
    LET count == RangeCount(Start(ns), Stop(ns), Step(ns))
    IN  CASE Step(ns) = 0 -> Finished("range", ns, Raises("range() step must not be zero"))
          [] Step(ns) # 0 /\ count > MaxWord ->
               Finished("range", ns, Raises("range() result has too many items"))
          [] Step(ns) # 0 /\ count <= MaxWord /\ ListRefused(count, granted) ->
               Finished("range", ns, Oom)
          [] OTHER -> Begin("range", ns, NewContainer(count, count), Start(ns))

Running(o) == at = "running" /\ op = o /\ UNCHANGED <<op, args>>

\* The operation fails: what has been made stays on the heap.
GivesUp == at' = "done" /\ answer' = Oom /\ UNCHANGED <<box, todo>>

Completes == at' = "done" /\ answer' = Gives(Nothing) /\ UNCHANGED <<box, todo>>

\* One item more: refused is the number, or the place for it.
RangeItem ==
  /\ Running("range") /\ Len(box.items) < box.want
  /\ \E number, granted \in BOOLEAN :
       LET put == Put(box, todo, granted)
       IN  IF ~number \/ ~put.ok THEN GivesUp
           ELSE /\ box' = put.box
                /\ todo' = IF Len(put.box.items) < box.want THEN Wrap(todo + Step(args)) ELSE todo
                /\ UNCHANGED <<at, answer>>

RangeEnd == Running("range") /\ Len(box.items) = box.want /\ Completes

(****************************** lists and pairs *******************************)

\* The operands of a literal are on the stack; items are told apart by their places.
StartList == Idle /\ \E n \in 0..MaxItems, granted \in BOOLEAN :
               IF ListRefused(n, granted) THEN Finished("list", <<>>, Oom)
               ELSE Begin("list", <<>>, NewContainer(n, n), 0)

ListItem ==
  /\ Running("list") /\ Len(box.items) < box.want
  /\ \E granted \in BOOLEAN :
       LET put == Put(box, Len(box.items) + 1, granted)
       IN  IF put.ok THEN box' = put.box /\ UNCHANGED <<at, todo, answer>> ELSE GivesUp

ListEnd == Running("list") /\ Len(box.items) = box.want /\ Completes

StartDict == Idle /\ \E n \in 0..MaxPairs, granted \in BOOLEAN : \E ks \in [1..n -> Keys] :
               IF granted THEN Begin("dict", ks, NewContainer(0, n), 0)
               ELSE Finished("dict", ks, Oom)

\* todo counts the pairs that have been set.
DictPair ==
  /\ Running("dict") /\ todo < Len(args)
  /\ \E granted \in BOOLEAN :
       LET set == DictSet(box, args[todo + 1], todo + 1, granted)
       IN  IF set.ok THEN box' = set.box /\ todo' = todo + 1 /\ UNCHANGED <<at, answer>>
           ELSE GivesUp

DictEnd == Running("dict") /\ todo = Len(args) /\ Completes

(********************************* unpacking **********************************)

\* args of an unpacking: length of the source, number of targets, the starred
\* target counted from 0, or NoStar.
NoStar == -1
Length == args[1]
Count  == args[2]
Star   == args[3]

StartUnpack == Idle /\
  \E length \in 0..MaxItems, count \in 1..MaxTargets : \E star \in {NoStar} \cup 0..(count - 1) :
    IF (IF star = NoStar THEN length = count ELSE length >= count - 1)
    THEN Begin("unpack", <<length, count, star>>, NewContainer(0, count), 0)
    ELSE Finished("unpack", <<length, count, star>>, Raises("values to unpack"))

\* The place of the source a target takes its value from.
SourceIndexFromFront(i) == i

SourceIndex(i) == IF Star # NoStar /\ i > Star THEN Length - (Count - i) ELSE i

MiddleLength == IF Star = NoStar THEN 0 ELSE Length - (Count - 1)

\* todo counts the targets done; box.items holds, for each, the places it took.
UnpackPlain ==
  /\ Running("unpack") /\ todo < Count /\ todo # Star
  /\ box' = [box EXCEPT !.items = Append(@, <<SourceIndex(todo)>>)]
  /\ todo' = todo + 1 /\ UNCHANGED <<at, answer>>

Middle(granted) ==
  LET list[j \in 0..MiddleLength] ==
        IF j = 0 THEN [ok |-> TRUE, box |-> NewContainer(MiddleLength, MiddleLength)]
        ELSE IF list[j - 1].ok THEN Put(list[j - 1].box, Star + j - 1, granted) ELSE list[j - 1]
  IN  list[MiddleLength]

UnpackStar ==
  /\ Running("unpack") /\ todo < Count /\ todo = Star
  /\ \E first, later \in BOOLEAN :
       IF ListRefused(MiddleLength, first) \/ ~Middle(later).ok THEN GivesUp
       ELSE /\ box' = [box EXCEPT !.items = Append(@, Middle(later).box.items)]
            /\ todo' = todo + 1 /\ UNCHANGED <<at, answer>>

UnpackEnd == Running("unpack") /\ todo = Count /\ Completes

(******************************* specification ********************************)

\* The machine takes the answer and goes on.
Take == /\ at = "done" /\ at' = "idle" /\ op' = "none" /\ args' = <<>>
        /\ box' = NoContainer /\ todo' = 0 /\ answer' = Gives(Nothing)

Next == \/ Binary \/ Unary \/ Comparison \/ KeyComparison \/ Extreme
        \/ StartRange \/ RangeItem \/ RangeEnd
        \/ StartList \/ ListItem \/ ListEnd
        \/ StartDict \/ DictPair \/ DictEnd
        \/ StartUnpack \/ UnpackPlain \/ UnpackStar \/ UnpackEnd
        \/ Take

Spec == Init /\ [][Next]_vars

(********************************** properties ********************************)

\* What the operators mean, on unbounded integers.
FloorOf(l, r) == IF r > 0 THEN l \div r ELSE (-l) \div (-r)
Exact(o, l, r) ==
  CASE o = "ADD" -> l + r
    [] o = "SUB" -> l - r
    [] o = "MUL" -> l * r
    [] o = "FLOORDIV" -> FloorOf(l, r)
    [] o = "MOD" -> l - r * FloorOf(l, r)
    [] o = "POW" -> PowerOf(l, r)
    [] o = "SHL" -> l * TwoTo(r)
    [] o = "SHR" -> l \div TwoTo(r)

GivesExactly(x, result) == IF x \in Words THEN result = Gives(IntOf(x)) ELSE result = Raises("integer overflow")

BinaryExact(o, l, r, result) ==
  CASE o \in {"SHL", "SHR"} /\ r \notin 0..(WordBits - 1) -> result = Raises("invalid shift count")
    [] o \in {"DIV", "FLOORDIV", "MOD"} /\ r = 0 -> result = Raises("division by zero")
    [] (o = "DIV" /\ r # 0) \/ (o = "POW" /\ r < 0) -> result = Gives(SomeFloat)
    [] o = "MOD" /\ l = MinWord /\ r = -1 -> result = Raises("integer overflow")   \* as docs/tasks/08-vm-core.md says
    [] OTHER -> GivesExactly(Exact(o, l, r), result)

\* The conversion of a float is the whole number next to it on the side of zero.
Truncates(f, v) == LET q == Magnitude(f.q) IN /\ Magnitude(v) * One <= q /\ q < (Magnitude(v) + 1) * One
                                              /\ v # 0 => (v < 0) = (f.q < 0)
Converts(f, result) ==
  IF f.kind = "finite" /\ \E v \in Words : Truncates(f, v)
  THEN result.ok /\ Truncates(f, WordOf(result.value)) ELSE ~result.ok

(* Arithmetic on words gives the exact result when that is a word and raises    *)
(* the error that fits when it is not: no check computes something that wraps.  *)
(* msVmBinaryOp, msVmUnaryOp, abs and int.                                      *)
ArithmeticExact ==
  at = "done" =>
    /\ op \in BinaryOps => BinaryExact(op, WordOf(args[1]), WordOf(args[2]), answer)
    /\ op = "NEG" /\ args[1].tag = "int" => GivesExactly(-WordOf(args[1]), answer)
    /\ op = "abs" /\ args[1].tag = "int" =>
         IF WordOf(args[1]) = MinWord THEN ~answer.ok ELSE answer.value = IntOf(Magnitude(WordOf(args[1])))
    /\ op = "int" /\ args[1].tag = "float" => Converts(args[1], answer)

(* A constant expression folded by the compiler has the value, type and sign    *)
(* the machine would have computed, and is left alone when the machine raises:  *)
(* msCompilerEvalConst against msVmBinaryOp and msVmUnaryOp.                    *)
FoldAgrees ==
  at = "done" =>
    /\ op \in {"ADD", "SUB", "MUL"} =>
         LET fold == FoldBinary(op, WordOf(args[1]), WordOf(args[2]))
         IN  IF answer.ok THEN fold = answer ELSE ~fold.ok
    /\ op \in {"PLUS", "NEG", "INVERT", "NOT"} =>
         LET fold == FoldUnary(op, args[1])
         IN  IF answer.ok THEN fold = answer ELSE ~fold.ok

\* The order of two numbers as numbers.
Less(a, b) == FloatLt(a, b)
Same(a, b) == FloatEq(a, b)

\* The operand min or max returns: nothing beats it, it is the first of its equals,
\* and NaN only when NaN came first.
Beats(o, a, b) == IF o = "max" THEN Less(b, a) ELSE Less(a, b)
IsExtreme(o, ns, w) ==
  LET first == CHOOSE i \in DOMAIN ns : ns[i] = w /\ \A j \in DOMAIN ns : ns[j] = w => i <= j
  IN  /\ \E i \in DOMAIN ns : ns[i] = w
      /\ w.kind = "nan" => ns[1].kind = "nan"
      /\ ns[1].kind # "nan" => \A i \in DOMAIN ns : ~Beats(o, ns[i], w)
      /\ \A i \in 1..(first - 1) : ~Same(ns[i], w)

Holds(o, a, b) ==
  CASE o = "EQ" -> Same(a, b)
    [] o = "NE" -> ~Same(a, b)
    [] o = "LT" -> Less(a, b)
    [] o = "LE" -> Less(a, b) \/ Same(a, b)
    [] o = "GT" -> Less(b, a)
    [] o = "GE" -> Less(b, a) \/ Same(a, b)

(* Comparisons of numbers, ints with floats included, are those of the numbers  *)
(* they stand for, without rounding; with NaN only != holds.  min and max       *)
(* follow that order, and NaN displaces no number.  msObjectCompare,            *)
(* msVmCompareNumeric and msBuiltinMinMax.                                      *)
OrderExact ==
  at = "done" =>
    /\ op \in Comparisons => answer.value = BoolOf(Holds(op, args[1], args[2]))
    /\ op \in {"min", "max"} /\ args # <<>> => IsExtreme(op, args, answer.value)

(* Values that are equal as keys have one hash, and they are the ones == calls  *)
(* equal: msObjectValueEquals, msObjectHash and msObjectCompare are three       *)
(* definitions of one notion.                                                   *)
EqualHashAlike ==
  at = "done" /\ op = "key" =>
    /\ answer.value = BoolOf(Compare(args[1], args[2]) = 0)
    /\ answer.value = BoolOf(TRUE) => HashOf(args[1]) = HashOf(args[2])

\* The numbers of a range: those from start that have not come to stop.
Before(x, ns) == IF Step(ns) > 0 THEN x < Stop(ns) ELSE x > Stop(ns)
Nth(i, ns) == Start(ns) + (i - 1) * Step(ns)
TrueCount(ns) == Cardinality({i \in 1..TwoTo(WordBits) : Before(Nth(i, ns), ns)})

(* range makes exactly the numbers from start towards stop, whatever words they *)
(* are, and raises an error only for a step of 0, too many items or no memory.  *)
(* The list was made with the room for them: filling it asks for no more.       *)
RangeExact ==
  op = "range" =>
    /\ at = "running" /\ Len(box.items) < box.want => Put(box, todo, FALSE).ok
    /\ \A i \in DOMAIN box.items : box.items[i] = Nth(i, args) /\ Before(box.items[i], args)
    /\ at = "done" /\ answer.ok => Len(box.items) = TrueCount(args)
    /\ at = "done" /\ ~answer.ok =>
         \/ Step(args) = 0
         \/ answer = Oom
         \/ answer = Raises("range() result has too many items") /\ TrueCount(args) > MaxWord

\* Equality of keys: equal numbers, or the same truth value; NaN is no key twice.
SameKey(a, b) == Same(a, b) /\ ((a.tag = "bool") = (b.tag = "bool"))

(* A dictionary under construction, refused or not, has one entry for each      *)
(* different key set so far, in the order they first came and under the key     *)
(* that came first, with the value that came last.  msDictSet.                  *)
DictExact ==
  op = "dict" =>
    LET firsts == {i \in 1..todo : \A j \in 1..(i - 1) : ~SameKey(args[j], args[i])}
    IN  /\ Len(box.items) = Cardinality(firsts)
        /\ \A i \in firsts :
             LET entry == box.items[Cardinality(firsts \cap 1..i)]
             IN  /\ entry.key = args[i]
                 /\ entry.value \in i..todo
                 /\ entry.value = i \/ SameKey(args[entry.value], args[i])
                 /\ \A j \in (entry.value + 1)..todo : ~SameKey(args[j], args[i])
        /\ at = "done" /\ answer.ok => todo = Len(args)

\* The sequences of a sequence, one after the other.
Flat(ss) == LET f[i \in 0..Len(ss)] == IF i = 0 THEN <<>> ELSE f[i - 1] \o ss[i] IN f[Len(ss)]

(* Unpacking gives every element of the list to one target, in order, one to    *)
(* each target without a star.  MS_OP_UNPACK.                                   *)
UnpackExact ==
  op = "unpack" /\ at = "done" /\ answer.ok =>
    /\ Flat(box.items) = [i \in 1..Length |-> i - 1]
    /\ \A i \in DOMAIN box.items : i - 1 # Star => Len(box.items[i]) = 1
=============================================================================
