--------------------------- MODULE MsProtoProofs ----------------------------
(* Proofs about the builder of prototypes and the line search, for any       *)
(* number of instructions, lines, constants and children, and any refusals.  *)
EXTENDS MsLineAt, FiniteSetTheorems, TLAPS

\* The runs begin inside the code.
InRange(t, w) == \A k \in 1..Len(t) : t[k].pc < Len(w)

\* What every step of the builder keeps.
BuilderInv ==
  /\ TypeOK /\ WritesFit /\ LineTableExact
  /\ InRange(lines.items, written) /\ InRange(out.lines, out.written)

----------------------------------------------------------------------------
(* Arrays.                                                                   *)

\* msProtoGrowArray leaves the items alone and a free place behind them.
LEMMA RoomFacts ==
  ASSUME NEW S, NEW a \in ArrayOf(S), NEW b \in WithRoom(a), b # NoRoom
  PROVE  /\ b \in ArrayOf(S) /\ b.items = a.items
         /\ ArrayFits(a) /\ error = "OK" => Len(b.items) + 1 <= b.room /\ b.cap = b.room
<1>1. a.items \in Seq(S) /\ a.cap \in Nat /\ a.room \in Nat /\ Len(a.items) \in Nat
  BY DEF ArrayOf
<1>2. CASE Len(a.items) = a.cap
  <2> DEFINE cap == IF a.cap = 0 THEN InitialCap ELSE a.cap * 2
  <2>1. cap \in Nat /\ cap > a.cap
    BY <1>1, BuilderAssumption
  <2>2. b = [a EXCEPT !.cap = cap, !.room = cap]
    BY <1>2 DEF WithRoom, Grown
  <2> HIDE DEF cap
  <2>3. b \in ArrayOf(S) /\ b.items = a.items /\ b.cap = cap /\ b.room = cap
    BY <2>1, <2>2 DEF ArrayOf
  <2> QED BY <1>1, <1>2, <2>1, <2>3
<1>3. CASE Len(a.items) # a.cap
  BY <1>1, <1>3 DEF WithRoom, ArrayFits
<1> QED BY <1>2, <1>3

\* An item is appended and nothing else changes.
LEMMA PushFacts ==
  ASSUME NEW S, NEW a \in ArrayOf(S), NEW x \in S
  PROVE  /\ Push(a, x) \in ArrayOf(S) /\ Push(a, x).items = Append(a.items, x)
         /\ Push(a, x).cap = a.cap /\ Push(a, x).room = a.room
         /\ Len(Push(a, x).items) = Len(a.items) + 1
<1>1. a.items \in Seq(S)
  BY DEF ArrayOf
<1>2. Append(a.items, x) \in Seq(S) /\ Len(Append(a.items, x)) = Len(a.items) + 1
  BY <1>1
<1>3. Push(a, x) = [a EXCEPT !.items = Append(a.items, x)]
  BY DEF Push
<1> QED BY <1>2, <1>3 DEF ArrayOf

\* A fresh builder, and a shrunk array.
LEMMA NothingFacts ==
  /\ \A S : Nothing \in ArrayOf(S)
  /\ Nothing.items = <<>> /\ Nothing.cap = 0 /\ Nothing.room = 0
<1>1. \A S : <<>> \in Seq(S)
  OBVIOUS
<1> QED BY <1>1 DEF Nothing, ArrayOf

LEMMA ShrunkFacts ==
  ASSUME NEW S, NEW a \in ArrayOf(S)
  PROVE  /\ Shrunk(a) \in ArrayOf(S) /\ Shrunk(a).items = a.items
         /\ Len(Shrunk(a).items) <= Shrunk(a).room
<1>1. a.items \in Seq(S) /\ Len(a.items) \in Nat
  BY DEF ArrayOf
<1> QED BY <1>1 DEF ArrayOf, Shrunk

----------------------------------------------------------------------------
(* The line table.                                                           *)

LEMMA DescribesNothing == Describes(<<>>, <<>>) /\ InRange(<<>>, <<>>)
BY DEF Describes, InRange, RunEnd

\* One more instruction of the last run; of no line, if there is no run yet.
LEMMA DescribesMore ==
  ASSUME NEW t \in Seq(LineEntry), NEW w \in Seq(Nat), Describes(t, w), InRange(t, w),
         NEW x \in Nat, x = IF t = <<>> THEN NoLine ELSE Last(t).line
  PROVE  Describes(t, Append(w, x)) /\ InRange(t, Append(w, x))
<1> DEFINE v == Append(w, x)
<1>1. Len(w) \in Nat /\ Len(v) = Len(w) + 1 /\ v[Len(w) + 1] = x
  OBVIOUS
<1>2. \A i \in 1..Len(w) : v[i] = w[i]
  OBVIOUS
<1> HIDE DEF v
<1>t. \A k \in 1..Len(t) : t[k] \in LineEntry
  OBVIOUS
<1>3. Len(t) \in Nat /\ \A k \in 1..Len(t) : t[k].pc \in Nat
  BY <1>t DEF LineEntry
<1>4. \A k \in 0..Len(t) :
        RunEnd(t, k, Len(v)) = IF k = Len(t) THEN Len(w) + 1 ELSE RunEnd(t, k, Len(w))
  BY <1>1 DEF RunEnd
<1>5. \A k \in 0..Len(t) : k # Len(t) => RunEnd(t, k, Len(w)) \in Nat /\ RunEnd(t, k, Len(w)) < Len(w)
  BY <1>3 DEF RunEnd, InRange
<1>6. \A k \in 0..Len(t) : k = Len(t) => RunEnd(t, k, Len(w)) = Len(w)
  BY DEF RunEnd
<1>7. \A k \in 1..Len(t) : t[k].pc < RunEnd(t, k, Len(v))
  BY <1>1, <1>3, <1>4 DEF Describes, InRange
<1>8. ASSUME NEW k \in 1..Len(t), NEW p \in t[k].pc..RunEnd(t, k, Len(v)) - 1
      PROVE  v[p + 1] = t[k].line
  <2>k. k \in 0..Len(t) /\ t[k].pc \in Nat
    BY <1>3
  <2>r. /\ RunEnd(t, k, Len(v)) = IF k = Len(t) THEN Len(w) + 1 ELSE RunEnd(t, k, Len(w))
        /\ k = Len(t) => RunEnd(t, k, Len(w)) = Len(w)
        /\ k # Len(t) => RunEnd(t, k, Len(w)) \in Nat /\ RunEnd(t, k, Len(w)) < Len(w)
    BY <1>4, <1>5, <1>6, <2>k
  <2>1. p \in Nat /\ p >= t[k].pc /\ p < RunEnd(t, k, Len(v))
    BY <1>1, <2>k, <2>r
  <2>2. CASE p \in t[k].pc..RunEnd(t, k, Len(w)) - 1
    <3>1. p + 1 \in 1..Len(w)
      BY <1>1, <2>k, <2>r, <2>1, <2>2
    <3> QED BY <1>2, <2>2, <3>1 DEF Describes
  <2>3. CASE p \notin t[k].pc..RunEnd(t, k, Len(w)) - 1
    <3>1. k = Len(t) /\ p = Len(w)
      BY <1>1, <2>k, <2>r, <2>1, <2>3
    <3>2. t # <<>> /\ Last(t).line = t[k].line
      BY <3>1 DEF Last
    <3> QED BY <1>1, <3>1, <3>2
  <2> QED BY <2>2, <2>3
<1>9. ASSUME NEW p \in 0..RunEnd(t, 0, Len(v)) - 1
      PROVE  v[p + 1] = NoLine
  <2>1. CASE p < Len(w)
    <3>1. p \in 0..RunEnd(t, 0, Len(w)) - 1
      BY <1>1, <1>3, <1>4, <1>5, <1>6, <2>1
    <3>2. w[p + 1] = NoLine
      BY <3>1 DEF Describes
    <3> QED BY <1>1, <1>2, <2>1, <3>2
  <2>2. CASE ~(p < Len(w))
    <3>1. 0 = Len(t) /\ p = Len(w)
      BY <1>1, <1>3, <1>4, <1>5, <1>6, <2>2
    <3>2. t = <<>>
      BY <3>1
    <3> QED BY <1>1, <3>1, <3>2
  <2> QED BY <2>1, <2>2
<1>10. InRange(t, v)
  BY <1>1, <1>3 DEF InRange
<1> QED BY <1>7, <1>8, <1>9, <1>10 DEF Describes, v

\* The first instruction of a new run.
LEMMA DescribesNew ==
  ASSUME NEW t \in Seq(LineEntry), NEW w \in Seq(Nat), Describes(t, w), InRange(t, w),
         NEW x \in Nat \ {0}
  PROVE  LET e == [pc |-> Len(w), line |-> x]
         IN  Describes(Append(t, e), Append(w, x)) /\ InRange(Append(t, e), Append(w, x))
<1> DEFINE e == [pc |-> Len(w), line |-> x]
<1> DEFINE v == Append(w, x)
<1> DEFINE u == Append(t, e)
<1>e. e \in LineEntry /\ e.pc = Len(w) /\ e.line = x
  BY DEF LineEntry
<1> HIDE DEF e
<1>1. Len(w) \in Nat /\ Len(v) = Len(w) + 1 /\ v[Len(w) + 1] = x
  OBVIOUS
<1>2. \A i \in 1..Len(w) : v[i] = w[i]
  OBVIOUS
<1>3. Len(t) \in Nat /\ Len(u) = Len(t) + 1 /\ u[Len(t) + 1] = e
  BY <1>e
<1>4. \A k \in 1..Len(t) : u[k] = t[k]
  BY <1>e
<1> HIDE DEF u, v
<1>t. \A k \in 1..Len(t) : t[k] \in LineEntry
  OBVIOUS
<1>5. \A k \in 1..Len(t) : t[k].pc \in Nat
  BY <1>t DEF LineEntry
<1>6. \A k \in 0..Len(t) : RunEnd(u, k, Len(v)) = RunEnd(t, k, Len(w))
  BY SMTT(20), <1>3, <1>4, <1>e DEF RunEnd
<1>7. RunEnd(u, Len(t) + 1, Len(v)) = Len(w) + 1
  BY <1>1, <1>3 DEF RunEnd
<1>8. \A k \in 0..Len(t) : RunEnd(t, k, Len(w)) \in Nat /\ RunEnd(t, k, Len(w)) <= Len(w)
  BY <1>1, <1>5 DEF RunEnd, InRange
<1>9. \A k \in 1..Len(u) : u[k].pc < RunEnd(u, k, Len(v))
  BY <1>1, <1>3, <1>4, <1>6, <1>7, <1>e DEF Describes
<1>10. ASSUME NEW k \in 1..Len(u), NEW p \in u[k].pc..RunEnd(u, k, Len(v)) - 1
       PROVE  v[p + 1] = u[k].line
  <2>1. CASE k \in 1..Len(t)
    <3>a. k \in 0..Len(t)
      BY <1>3, <2>1
    <3>b. RunEnd(u, k, Len(v)) = RunEnd(t, k, Len(w)) /\ RunEnd(t, k, Len(w)) \in Nat
      BY <1>6, <1>8, <3>a
    <3>c. u[k].pc = t[k].pc /\ t[k].pc \in Nat
      BY <1>4, <1>5, <2>1
    <3>1. p \in t[k].pc..RunEnd(t, k, Len(w)) - 1 /\ p \in Nat
      BY <3>b, <3>c
    <3>2. w[p + 1] = t[k].line
      BY <2>1, <3>1 DEF Describes
    <3>3. p + 1 \in 1..Len(w)
      BY <1>1, <1>8, <2>1, <3>1
    <3> QED BY <1>2, <1>4, <2>1, <3>2, <3>3
  <2>2. CASE k = Len(t) + 1
    <3>1. p = Len(w)
      BY <1>1, <1>3, <1>7, <1>e, <2>2
    <3> QED BY <1>1, <1>3, <1>e, <2>2, <3>1
  <2> QED BY <1>3, <2>1, <2>2
<1>11. ASSUME NEW p \in 0..RunEnd(u, 0, Len(v)) - 1
       PROVE  v[p + 1] = NoLine
  <2>1. p \in 0..RunEnd(t, 0, Len(w)) - 1
    BY <1>3, <1>6
  <2>2. w[p + 1] = NoLine
    BY <2>1 DEF Describes
  <2>3. p + 1 \in 1..Len(w)
    BY <1>1, <1>3, <1>8, <2>1
  <2> QED BY <1>2, <2>2, <2>3
<1>12. InRange(u, v)
  BY <1>1, <1>3, <1>4, <1>5, <1>e DEF InRange
<1> QED BY <1>9, <1>10, <1>11, <1>12 DEF Describes, e, u, v
----------------------------------------------------------------------------
(* Every step of the builder.                                                *)

LEMMA InitKeeps == Init => BuilderInv
<1> SUFFICES ASSUME Init PROVE BuilderInv
  OBVIOUS
<1>1. <<>> \in Seq(Nat) /\ <<>> \in Seq(LineEntry) /\ Len(<<>>) = 0
  OBVIOUS
<1>2. TypeOK
  BY <1>1, NothingFacts DEF Init, TypeOK, NoProto, NoLine
<1>3. WritesFit
  BY <1>1, NothingFacts DEF Init, WritesFit, ArrayFits
<1> QED BY <1>2, <1>3, NothingFacts, DescribesNothing DEF Init, BuilderInv, LineTableExact, NoProto

\* msProtoEmit: refused, in the last run, or opening a new one.
LEMMA EmitKeeps ==
  ASSUME BuilderInv, error = "OK", NEW instr \in Instruction, Emit(instr),
         UNCHANGED <<consts, tries, owner, ret, out>>
  PROVE  BuilderInv'
<1> USE DEF BuilderInv
<1>1. PICK c \in WithRoom(code), l \in IF NeedLineEntry THEN WithRoom(lines) ELSE {lines} :
        IF c = NoRoom \/ l = NoRoom
        THEN /\ Fails("OOM") /\ code' = IF c = NoRoom THEN code ELSE c
             /\ UNCHANGED <<lines, pending, written>>
        ELSE /\ code' = Push(c, instr)
             /\ lines' = IF NeedLineEntry THEN Push(l, Entry) ELSE l
             /\ written' = Append(written, InForce)
             /\ pending' = NoLine /\ UNCHANGED error
  BY DEF Emit
<1>2. /\ code \in ArrayOf(Instruction) /\ lines \in ArrayOf(LineEntry)
      /\ ArrayFits(code) /\ ArrayFits(lines)
      /\ pending \in Nat /\ written \in Seq(Nat) /\ Len(written) = Len(code.items)
      /\ code.items \in Seq(Instruction) /\ lines.items \in Seq(LineEntry)
  BY DEF TypeOK, WritesFit, ArrayOf
<1>3. c # NoRoom => /\ c \in ArrayOf(Instruction) /\ c.items = code.items
                    /\ Len(c.items) + 1 <= c.room /\ c.cap = c.room
  BY <1>2, RoomFacts
<1>4. CASE c = NoRoom \/ l = NoRoom
  <2>1. /\ code' \in ArrayOf(Instruction) /\ code'.items = code.items /\ Len(code'.items) <= code'.room
        /\ UNCHANGED <<lines, pending, written>> /\ error' = "OOM"
    <3>1. CASE c = NoRoom
      BY <1>1, <1>2, <1>4, <3>1 DEF Fails, ArrayFits
    <3>2. CASE c # NoRoom
      <4>1. code' = c /\ UNCHANGED <<lines, pending, written>> /\ error' = "OOM"
        BY <1>1, <1>4, <3>2 DEF Fails
      <4>2. Len(c.items) \in Nat /\ c.room \in Nat
        BY <1>3, <3>2 DEF ArrayOf
      <4> QED BY <1>3, <3>2, <4>1, <4>2
    <3> QED BY <3>1, <3>2
  <2>2. TypeOK'
    BY <2>1 DEF TypeOK
  <2>3. WritesFit'
    BY <2>1 DEF WritesFit, ArrayFits
  <2> QED BY <2>1, <2>2, <2>3 DEF LineTableExact
<1>5. CASE c # NoRoom /\ l # NoRoom
  <2>1. /\ code' = Push(c, instr) /\ lines' = (IF NeedLineEntry THEN Push(l, Entry) ELSE l)
        /\ written' = Append(written, InForce) /\ pending' = NoLine /\ error' = error
    BY <1>1, <1>5
  <2>2. /\ code' \in ArrayOf(Instruction) /\ Len(code'.items) = Len(code.items) + 1
        /\ Len(code'.items) <= code'.room /\ code'.cap = code'.room
    BY <1>3, <1>5, <2>1, PushFacts
  <2>3. \A k \in 1..Len(lines.items) : lines.items[k] \in LineEntry
    BY <1>2
  <2>4. lines.items # <<>> => Last(lines.items) \in LineEntry
    <3>1. lines.items # <<>> => Len(lines.items) \in 1..Len(lines.items)
      BY <1>2
    <3> QED BY <2>3, <3>1 DEF Last
  <2>5. Describes(lines.items, written) /\ InRange(lines.items, written)
    BY DEF LineTableExact
  <2>6. CASE ~NeedLineEntry
    <3>1. /\ lines' = lines
          /\ InForce \in Nat /\ InForce = IF lines.items = <<>> THEN NoLine ELSE Last(lines.items).line
      <4>1. lines' = lines
        BY <1>1, <2>1, <2>6
      <4>2. written # <<>> => Len(written) \in 1..Len(written) /\ Last(written) \in Nat
        BY <1>2 DEF Last
      <4>3. CASE lines.items = <<>>
        <5>1. pending = NoLine
          BY <2>6, <4>3 DEF NeedLineEntry
        <5>2. written # <<>> => Last(written) = NoLine
          <6>1. RunEnd(lines.items, 0, Len(written)) = Len(written)
            BY <4>3 DEF RunEnd
          <6>2. written # <<>> => Len(written) - 1 \in 0..Len(written) - 1 /\ Len(written) - 1 + 1 = Len(written)
            BY <1>2
          <6> QED BY <2>5, <6>1, <6>2 DEF Describes, Last
        <5> QED BY <4>1, <4>3, <5>1, <5>2 DEF InForce, NoLine
      <4>4. CASE lines.items # <<>>
        <5>1. pending = NoLine \/ pending = Last(lines.items).line
          BY <2>6, <4>4 DEF NeedLineEntry
        <5> DEFINE k == Len(lines.items)
        <5>2. k \in 1..Len(lines.items) /\ lines.items[k] = Last(lines.items)
          BY <1>2, <4>4 DEF Last
        <5>3. RunEnd(lines.items, k, Len(written)) = Len(written)
          BY DEF RunEnd
        <5>4. lines.items[k].pc \in Nat /\ lines.items[k].pc < Len(written)
          BY <2>3, <2>5, <5>2 DEF InRange, LineEntry
        <5>5. /\ Len(written) \in Nat /\ written # <<>>
              /\ Len(written) - 1 \in lines.items[k].pc..Len(written) - 1
              /\ Len(written) - 1 + 1 = Len(written)
          BY SMTT(20), <1>2, <5>4
        <5>6. written[Len(written) - 1 + 1] = lines.items[k].line
          BY <2>5, <5>2, <5>3, <5>5 DEF Describes
        <5>7. Last(written) = Last(lines.items).line
          BY <5>2, <5>5, <5>6 DEF Last
        <5> QED BY <2>4, <4>1, <4>4, <5>1, <5>5, <5>7 DEF InForce, LineEntry
      <4> QED BY <4>3, <4>4
    <3>2. Describes(lines.items, written') /\ InRange(lines.items, written')
      BY <1>2, <2>1, <2>5, <3>1, DescribesMore
    <3>3. written' \in Seq(Nat) /\ Len(written') = Len(written) + 1
      <4>1. InForce \in Nat /\ written' = Append(written, InForce) /\ written \in Seq(Nat)
        BY <1>2, <2>1, <3>1
      <4> QED BY <4>1
    <3>4. TypeOK'
      BY <1>2, <2>1, <2>2, <3>1, <3>3 DEF TypeOK, NoLine
    <3>5. WritesFit'
      BY <2>1, <2>2, <3>1 DEF WritesFit, ArrayFits
    <3> QED BY <3>1, <3>2, <3>4, <3>5 DEF LineTableExact
  <2>7. CASE NeedLineEntry
    <3>1. pending \in Nat \ {0} /\ InForce = pending
      BY <1>2, <2>7 DEF NeedLineEntry, InForce, NoLine
    <3>2. /\ l \in ArrayOf(LineEntry) /\ l.items = lines.items
          /\ Len(l.items) + 1 <= l.room /\ l.cap = l.room
      <4>1. l \in WithRoom(lines)
        BY <2>7
      <4> QED BY <1>2, <1>5, <4>1, RoomFacts
    <3>3. Entry = [pc |-> Len(written), line |-> pending] /\ Entry \in LineEntry
      BY <1>2, <3>1 DEF Entry, LineEntry
    <3>4. /\ lines' \in ArrayOf(LineEntry) /\ lines'.items = Append(lines.items, Entry)
          /\ Len(lines'.items) <= lines'.room /\ lines'.cap = lines'.room
      BY SMTT(20), <2>1, <2>7, <3>2, <3>3, PushFacts
    <3>5. Describes(lines'.items, written') /\ InRange(lines'.items, written')
      BY <1>2, <2>1, <2>5, <3>1, <3>3, <3>4, DescribesNew
    <3>6. written' \in Seq(Nat) /\ Len(written') = Len(written) + 1
      BY <1>2, <2>1, <3>1
    <3>7. TypeOK'
      BY <1>2, <2>1, <2>2, <3>4, <3>6 DEF TypeOK, NoLine
    <3>8. WritesFit'
      BY <2>1, <2>2, <3>4 DEF WritesFit, ArrayFits
    <3> QED BY <3>5, <3>7, <3>8 DEF LineTableExact
  <2> QED BY <2>6, <2>7
<1> QED BY <1>4, <1>5
\* A record with one field replaced.
LEMMA PatchKeeps ==
  ASSUME BuilderInv, NEW p \in Pcs, NEW sax \in Offsets, PatchSAx(p, sax)
  PROVE  BuilderInv'
<1> USE DEF BuilderInv
<1>1. /\ code \in ArrayOf(Instruction) /\ code.items \in Seq(Instruction)
      /\ ArrayFits(code) /\ Len(written) = Len(code.items)
  BY DEF TypeOK, WritesFit, ArrayOf
<1>2. UNCHANGED <<lines, consts, tries, pending, owner, ret, written, out>> /\ error = "OK"
  BY DEF PatchSAx
<1>3. CASE p \in 0..Len(code.items) - 1 /\ code.items[p + 1].format = "SAX" /\ SaxOk(sax)
  <2> DEFINE items == [code.items EXCEPT ![p + 1].sax = sax]
  <2>1. code' = [code EXCEPT !.items = items] /\ error' = error
    BY <1>3 DEF PatchSAx
  <2>2. p + 1 \in 1..Len(code.items) /\ sax \in Int
    BY <1>1, <1>3, BuilderAssumption
  <2>3. code.items[p + 1] \in Instruction
    BY <1>1, <2>2
  <2>4. [code.items[p + 1] EXCEPT !.sax = sax] \in Instruction
    BY <2>2, <2>3 DEF Instruction
  <2>5. items \in Seq(Instruction) /\ Len(items) = Len(code.items)
    BY <1>1, <2>2, <2>4
  <2> HIDE DEF items
  <2>6. code' \in ArrayOf(Instruction) /\ code'.items = items /\ code'.cap = code.cap /\ code'.room = code.room
    BY <1>1, <2>1, <2>5 DEF ArrayOf
  <2>7. TypeOK'
    BY <1>1, <1>2, <2>1, <2>5, <2>6 DEF TypeOK
  <2>8. WritesFit'
    BY <1>2, <2>1, <2>5, <2>6 DEF WritesFit, ArrayFits
  <2> QED BY <1>2, <2>7, <2>8 DEF LineTableExact
<1>4. CASE ~(p \in 0..Len(code.items) - 1 /\ code.items[p + 1].format = "SAX" /\ SaxOk(sax))
  <2>1. error' = "SYNTAX" /\ code' = code
    BY <1>4 DEF PatchSAx, Fails
  <2>2. TypeOK' /\ WritesFit'
    BY <1>2, <2>1 DEF TypeOK, WritesFit, ArrayFits
  <2> QED BY <1>2, <2>2 DEF LineTableExact
<1> QED BY <1>3, <1>4

\* A step that leaves instructions and lines alone and does no worse to the
\* other two arrays.
LEMMA OthersKeep ==
  ASSUME BuilderInv, UNCHANGED <<code, lines, written, out>>,
         consts' \in ArrayOf(Item), tries' \in ArrayOf({"try"}),
         pending' \in Nat, error' \in {"OK", "OOM", "SYNTAX"},
         owner' \in [Children -> {"caller", "builder", "proto", "gone"}],
         error' = "OK" => error = "OK",
         ArrayFits(consts)', ArrayFits(tries)'
  PROVE  BuilderInv'
<1> USE DEF BuilderInv
<1>1. TypeOK'
  BY DEF TypeOK
<1>2. WritesFit'
  BY DEF WritesFit, ArrayFits
<1> QED BY <1>1, <1>2 DEF LineTableExact

LEMMA AddConstKeeps ==
  ASSUME BuilderInv, NEW v \in Constants, AddConst(v)
  PROVE  BuilderInv'
<1>1. /\ UNCHANGED <<code, lines, tries, pending, owner, written, out>> /\ error = "OK"
      /\ \/ consts' = consts /\ error' \in {"OK", "OOM", "SYNTAX"}
         \/ \E a \in WithRoom(consts) : a # NoRoom /\ consts' = Push(a, v) /\ error' = error
  BY DEF AddConst, Fails
<1>2. /\ consts \in ArrayOf(Item) /\ tries \in ArrayOf({"try"}) /\ pending \in Nat
      /\ owner \in [Children -> {"caller", "builder", "proto", "gone"}]
      /\ ArrayFits(consts) /\ ArrayFits(tries) /\ v \in Item
  BY DEF BuilderInv, TypeOK, WritesFit, Item
<1>3. ArrayFits(tries)'
  BY <1>1, <1>2 DEF ArrayFits
<1>4. CASE consts' = consts /\ error' \in {"OK", "OOM", "SYNTAX"}
  <2>1. ArrayFits(consts)'
    BY <1>1, <1>2, <1>4 DEF ArrayFits
  <2> QED BY <1>1, <1>2, <1>3, <1>4, <2>1, OthersKeep
<1>5. CASE \E a \in WithRoom(consts) : a # NoRoom /\ consts' = Push(a, v) /\ error' = error
  <2>1. PICK a \in WithRoom(consts) : a # NoRoom /\ consts' = Push(a, v) /\ error' = error
    BY <1>5
  <2>2. a \in ArrayOf(Item) /\ Len(a.items) + 1 <= a.room /\ a.cap = a.room
    BY <1>1, <1>2, <2>1, RoomFacts
  <2>3. consts' \in ArrayOf(Item) /\ ArrayFits(consts)'
    BY <1>2, <2>1, <2>2, PushFacts DEF ArrayFits
  <2> QED BY <1>1, <1>2, <1>3, <2>1, <2>3, OthersKeep
<1> QED BY <1>1, <1>4, <1>5

LEMMA AddProtoKeeps ==
  ASSUME BuilderInv, NEW c \in Children, AddProto(c)
  PROVE  BuilderInv'
<1>1. /\ UNCHANGED <<code, lines, tries, pending, ret, written, out>> /\ error = "OK"
      /\ \/ consts' = consts /\ owner' = owner /\ error' \in {"OOM", "SYNTAX"}
         \/ \E a \in WithRoom(consts) :
              /\ a # NoRoom /\ consts' = Push(a, Child(c)) /\ error' = error
              /\ owner' = [owner EXCEPT ![c] = "builder"]
  BY DEF AddProto, Fails
<1>2. /\ consts \in ArrayOf(Item) /\ tries \in ArrayOf({"try"}) /\ pending \in Nat
      /\ owner \in [Children -> {"caller", "builder", "proto", "gone"}]
      /\ ArrayFits(consts) /\ ArrayFits(tries) /\ Child(c) \in Item
  BY DEF BuilderInv, TypeOK, WritesFit, Item
<1>3. ArrayFits(tries)'
  BY <1>1, <1>2 DEF ArrayFits
<1>4. CASE consts' = consts /\ owner' = owner /\ error' \in {"OOM", "SYNTAX"}
  <2>1. ArrayFits(consts)'
    BY <1>1, <1>2, <1>4 DEF ArrayFits
  <2> QED BY <1>1, <1>2, <1>3, <1>4, <2>1, OthersKeep
<1>5. CASE \E a \in WithRoom(consts) :
              /\ a # NoRoom /\ consts' = Push(a, Child(c)) /\ error' = error
              /\ owner' = [owner EXCEPT ![c] = "builder"]
  <2>1. PICK a \in WithRoom(consts) :
              /\ a # NoRoom /\ consts' = Push(a, Child(c)) /\ error' = error
              /\ owner' = [owner EXCEPT ![c] = "builder"]
    BY <1>5
  <2>2. a \in ArrayOf(Item) /\ Len(a.items) + 1 <= a.room /\ a.cap = a.room
    BY <1>1, <1>2, <2>1, RoomFacts
  <2>3. consts' \in ArrayOf(Item) /\ ArrayFits(consts)'
    BY <1>2, <2>1, <2>2, PushFacts DEF ArrayFits
  <2>4. owner' \in [Children -> {"caller", "builder", "proto", "gone"}]
    BY <1>2, <2>1
  <2> QED BY <1>1, <1>2, <1>3, <2>1, <2>3, <2>4, OthersKeep
<1> QED BY <1>1, <1>4, <1>5

LEMMA AddTryBlockKeeps ==
  ASSUME BuilderInv, AddTryBlock
  PROVE  BuilderInv'
<1>1. /\ UNCHANGED <<code, lines, consts, pending, owner, ret, written, out>> /\ error = "OK"
      /\ \/ tries' = tries /\ error' = "OOM"
         \/ \E a \in WithRoom(tries) : a # NoRoom /\ tries' = Push(a, "try") /\ error' = error
  BY DEF AddTryBlock, Fails
<1>2. /\ consts \in ArrayOf(Item) /\ tries \in ArrayOf({"try"}) /\ pending \in Nat
      /\ owner \in [Children -> {"caller", "builder", "proto", "gone"}]
      /\ ArrayFits(consts) /\ ArrayFits(tries)
  BY DEF BuilderInv, TypeOK, WritesFit
<1>3. ArrayFits(consts)'
  BY <1>1, <1>2 DEF ArrayFits
<1>4. CASE tries' = tries /\ error' = "OOM"
  <2>1. ArrayFits(tries)'
    BY <1>1, <1>2, <1>4 DEF ArrayFits
  <2> QED BY <1>1, <1>2, <1>3, <1>4, <2>1, OthersKeep
<1>5. CASE \E a \in WithRoom(tries) : a # NoRoom /\ tries' = Push(a, "try") /\ error' = error
  <2>1. PICK a \in WithRoom(tries) : a # NoRoom /\ tries' = Push(a, "try") /\ error' = error
    BY <1>5
  <2>2. a \in ArrayOf({"try"}) /\ Len(a.items) + 1 <= a.room /\ a.cap = a.room
    BY <1>1, <1>2, <2>1, RoomFacts
  <2>3. tries' \in ArrayOf({"try"}) /\ ArrayFits(tries)'
    BY <1>2, <2>1, <2>2, PushFacts DEF ArrayFits
  <2> QED BY <1>1, <1>2, <1>3, <2>1, <2>3, OthersKeep
<1> QED BY <1>1, <1>4, <1>5

\* msProtoBuilderSetLine, and a child freed by the compiler.
LEMMA SetLineKeeps ==
  ASSUME BuilderInv, NEW line \in Lines, SetLine(line)
  PROVE  BuilderInv'
<1>1. /\ UNCHANGED <<code, lines, consts, tries, error, owner, ret, written, out>>
      /\ pending' \in Nat
  BY BuilderAssumption DEF SetLine
<1>2. /\ consts' \in ArrayOf(Item) /\ tries' \in ArrayOf({"try"}) /\ error' \in {"OK", "OOM", "SYNTAX"}
      /\ owner' \in [Children -> {"caller", "builder", "proto", "gone"}]
      /\ ArrayFits(consts)' /\ ArrayFits(tries)'
  BY <1>1 DEF BuilderInv, TypeOK, WritesFit, ArrayFits
<1> QED BY <1>1, <1>2, OthersKeep

LEMMA FreeChildKeeps ==
  ASSUME BuilderInv, NEW c \in Children, FreeChild(c)
  PROVE  BuilderInv'
<1>1. /\ UNCHANGED <<code, lines, consts, tries, pending, error, ret, written, out>>
      /\ owner' = [owner EXCEPT ![c] = "gone"]
  BY DEF FreeChild
<1>2. owner \in [Children -> {"caller", "builder", "proto", "gone"}]
  BY DEF BuilderInv, TypeOK
<1>3. owner' \in [Children -> {"caller", "builder", "proto", "gone"}]
  BY <1>1, <1>2
<1>4. /\ consts' \in ArrayOf(Item) /\ tries' \in ArrayOf({"try"}) /\ error' \in {"OK", "OOM", "SYNTAX"}
      /\ pending' \in Nat /\ ArrayFits(consts)' /\ ArrayFits(tries)'
  BY <1>1 DEF BuilderInv, TypeOK, WritesFit, ArrayFits
<1> QED BY <1>1, <1>3, <1>4, OthersKeep

\* The two emitters of instructions.
LEMMA EmitABCKeeps ==
  ASSUME BuilderInv, EmitABC
  PROVE  BuilderInv'
<1> DEFINE instr == [format |-> "ABC", sax |-> 0]
<1>1. instr \in Instruction
  BY DEF Instruction
<1>2. error = "OK" /\ Emit(instr) /\ UNCHANGED <<consts, tries, owner, ret, out>>
  BY DEF EmitABC
<1> HIDE DEF instr
<1> QED BY <1>1, <1>2, EmitKeeps

LEMMA EmitSAxKeeps ==
  ASSUME BuilderInv, NEW sax \in Offsets, EmitSAx(sax)
  PROVE  BuilderInv'
<1> DEFINE instr == [format |-> "SAX", sax |-> sax]
<1>1. instr \in Instruction
  BY BuilderAssumption DEF Instruction
<1>2. /\ error = "OK" /\ UNCHANGED <<consts, tries, owner, ret, out>>
      /\ \/ Emit(instr)
         \/ error' = "SYNTAX" /\ UNCHANGED <<code, lines, pending, written>>
  BY DEF EmitSAx, Fails
<1> HIDE DEF instr
<1>3. CASE Emit(instr)
  BY <1>1, <1>2, <1>3, EmitKeeps
<1>4. CASE error' = "SYNTAX" /\ UNCHANGED <<code, lines, pending, written>>
  <2>1. /\ consts' \in ArrayOf(Item) /\ tries' \in ArrayOf({"try"}) /\ pending' \in Nat
        /\ owner' \in [Children -> {"caller", "builder", "proto", "gone"}]
        /\ ArrayFits(consts)' /\ ArrayFits(tries)'
    BY <1>2, <1>4 DEF BuilderInv, TypeOK, WritesFit, ArrayFits
  <2> QED BY <1>2, <1>4, <2>1, OthersKeep
<1> QED BY <1>2, <1>3, <1>4

\* A child never has more than one of the four owners.
LEMMA HandedFacts ==
  ASSUME BuilderInv,
         NEW from, NEW to \in {"proto", "gone"}
  PROVE  Handed(from, to) \in [Children -> {"caller", "builder", "proto", "gone"}]
BY DEF Handed, BuilderInv, TypeOK

LEMMA EmptyFacts ==
  ASSUME Empty
  PROVE  /\ code' \in ArrayOf(Instruction) /\ lines' \in ArrayOf(LineEntry)
         /\ consts' \in ArrayOf(Item) /\ tries' \in ArrayOf({"try"})
         /\ pending' \in Nat /\ error' = "OK" /\ written' \in Seq(Nat)
         /\ Len(written') = Len(code'.items) /\ WritesFit'
         /\ Describes(lines'.items, written') /\ InRange(lines'.items, written')
<1>1. <<>> \in Seq(Nat) /\ Len(<<>>) = 0
  OBVIOUS
<1>2. WritesFit'
  BY <1>1, NothingFacts DEF Empty, WritesFit, ArrayFits
<1> QED BY <1>1, <1>2, NothingFacts, DescribesNothing DEF Empty, NoLine

\* msProtoBuilderBuild: everything handed over, an allocation refused, nothing
\* to build.
LEMMA BuildKeeps ==
  ASSUME BuilderInv, Build
  PROVE  BuilderInv'
<1> USE DEF BuilderInv
<1>1. error = "OK" /\ (BuildEmpty \/ BuildOk \/ BuildRefused)
  BY DEF Build
<1>2. /\ code \in ArrayOf(Instruction) /\ lines \in ArrayOf(LineEntry)
      /\ consts \in ArrayOf(Item) /\ tries \in ArrayOf({"try"})
      /\ pending \in Nat /\ written \in Seq(Nat) /\ Len(written) = Len(code.items)
      /\ owner \in [Children -> {"caller", "builder", "proto", "gone"}]
      /\ code.items \in Seq(Instruction) /\ lines.items \in Seq(LineEntry)
      /\ ArrayFits(code) /\ ArrayFits(lines) /\ ArrayFits(consts) /\ ArrayFits(tries)
  BY DEF TypeOK, WritesFit, ArrayOf
<1>3. CASE BuildEmpty
  <2>1. UNCHANGED <<code, lines, consts, tries, pending, owner, ret, written, out>> /\ error' = "SYNTAX"
    BY <1>3 DEF BuildEmpty, Fails
  <2>2. ArrayFits(consts)' /\ ArrayFits(tries)'
    BY <1>2, <2>1 DEF ArrayFits
  <2> QED BY <1>2, <2>1, <2>2, OthersKeep
<1>4. CASE BuildOk
  <2>1. /\ out'.built = TRUE /\ out'.code = code.items /\ out'.lines = lines.items
        /\ out'.written = written /\ Empty /\ owner' = Handed("builder", "proto")
    BY <1>4 DEF BuildOk
  <2>2. owner' \in [Children -> {"caller", "builder", "proto", "gone"}]
    BY <2>1, HandedFacts
  <2>3. TypeOK'
    BY <1>2, <2>1, <2>2, EmptyFacts DEF TypeOK
  <2> QED BY <2>1, <2>3, EmptyFacts DEF LineTableExact
<1>5. CASE BuildRefused
  <2> DEFINE As(a, b) == b = a \/ b = Shrunk(a)
  <2>1. /\ As(code, code') /\ As(lines, lines') /\ As(consts, consts') /\ As(tries, tries')
    BY <1>5 DEF BuildRefused
  <2>2. UNCHANGED <<pending, owner, ret, written, out>> /\ error' = "OOM"
    BY <1>5 DEF BuildRefused, Fails
  <2>3. ASSUME NEW S, NEW a \in ArrayOf(S), NEW b, ArrayFits(a), As(a, b)
        PROVE  b \in ArrayOf(S) /\ b.items = a.items /\ Len(b.items) <= b.room
    <3>1. CASE b = a
      BY <2>3, <3>1 DEF ArrayFits
    <3>2. CASE b = Shrunk(a)
      BY <3>2, ShrunkFacts
    <3> QED BY <2>3, <3>1, <3>2
  <2> HIDE DEF As
  <2>4. code' \in ArrayOf(Instruction) /\ code'.items = code.items /\ Len(code'.items) <= code'.room
    BY <1>2, <2>1, <2>3
  <2>5. lines' \in ArrayOf(LineEntry) /\ lines'.items = lines.items /\ Len(lines'.items) <= lines'.room
    BY <1>2, <2>1, <2>3
  <2>6. consts' \in ArrayOf(Item) /\ Len(consts'.items) <= consts'.room
    BY <1>2, <2>1, <2>3
  <2>7. tries' \in ArrayOf({"try"}) /\ Len(tries'.items) <= tries'.room
    BY <1>2, <2>1, <2>3
  <2>8. TypeOK'
    BY <2>2, <2>4, <2>5, <2>6, <2>7 DEF TypeOK
  <2>9. WritesFit'
    BY <2>2, <2>4, <2>5, <2>6, <2>7 DEF WritesFit, ArrayFits
  <2> QED BY <2>2, <2>5, <2>8, <2>9 DEF LineTableExact
<1> QED BY <1>1, <1>3, <1>4, <1>5

\* msProtoBuilderDestroy and msProtoFree.
LEMMA DestroyKeeps ==
  ASSUME BuilderInv, Destroy
  PROVE  BuilderInv'
<1>1. Empty /\ owner' = Handed("builder", "gone") /\ out' = out
  BY DEF Destroy
<1>2. owner' \in [Children -> {"caller", "builder", "proto", "gone"}]
  BY <1>1, HandedFacts
<1>3. TypeOK'
  BY <1>1, <1>2, EmptyFacts DEF BuilderInv, TypeOK
<1> QED BY <1>1, <1>3, EmptyFacts DEF BuilderInv, LineTableExact

LEMMA ProtoFreeKeeps ==
  ASSUME BuilderInv, ProtoFree
  PROVE  BuilderInv'
<1> USE DEF BuilderInv
<1>1. /\ out' = NoProto /\ owner' = Handed("proto", "gone")
      /\ UNCHANGED <<code, lines, consts, tries, pending, error, ret, written>>
  BY DEF ProtoFree
<1>2. owner' \in [Children -> {"caller", "builder", "proto", "gone"}]
  BY <1>1, HandedFacts
<1>3. <<>> \in Seq(Nat) /\ <<>> \in Seq(LineEntry)
  OBVIOUS
<1>4. TypeOK'
  BY <1>1, <1>2, <1>3 DEF TypeOK, NoProto
<1>5. WritesFit'
  BY <1>1 DEF WritesFit, ArrayFits
<1> QED BY <1>1, <1>4, <1>5, DescribesNothing DEF LineTableExact, NoProto

LEMMA NextKeeps == BuilderInv /\ [Next]_builderVars => BuilderInv'
<1> SUFFICES ASSUME BuilderInv, [Next]_builderVars PROVE BuilderInv'
  OBVIOUS
<1>1. CASE UNCHANGED builderVars
  <2>1. TypeOK' /\ WritesFit'
    BY <1>1 DEF BuilderInv, builderVars, TypeOK, WritesFit, ArrayFits
  <2> QED BY <1>1, <2>1 DEF BuilderInv, builderVars, LineTableExact
<1>2. CASE \E line \in Lines : SetLine(line)
  BY <1>2, SetLineKeeps
<1>3. CASE EmitABC
  BY <1>3, EmitABCKeeps
<1>4. CASE AddTryBlock
  BY <1>4, AddTryBlockKeeps
<1>5. CASE Build
  BY <1>5, BuildKeeps
<1>6. CASE Destroy
  BY <1>6, DestroyKeeps
<1>7. CASE ProtoFree
  BY <1>7, ProtoFreeKeeps
<1>8. CASE \E sax \in Offsets : EmitSAx(sax)
  BY <1>8, EmitSAxKeeps
<1>9. CASE \E sax \in Offsets : \E p \in Pcs : PatchSAx(p, sax)
  BY <1>9, PatchKeeps
<1>10. CASE \E v \in Constants : AddConst(v)
  BY <1>10, AddConstKeeps
<1>11. CASE \E c \in Children : AddProto(c)
  BY <1>11, AddProtoKeeps
<1>12. CASE \E c \in Children : FreeChild(c)
  BY <1>12, FreeChildKeeps
<1> QED BY <1>1, <1>2, <1>3, <1>4, <1>5, <1>6, <1>7, <1>8, <1>9, <1>10, <1>11, <1>12 DEF Next

----------------------------------------------------------------------------
(* The builder.                                                              *)

\* BuilderInv is inductive.
LEMMA BuilderInvariant == Spec => []BuilderInv
<1>1. Init => BuilderInv
  BY InitKeeps
<1>2. BuilderInv /\ [Next]_builderVars => BuilderInv'
  BY NextKeeps
<1> QED BY <1>1, <1>2, PTL DEF Spec

\* Arrays, errors, owners and line entries keep their types, and there is a
\* line on record for every instruction (src/vm/ms_proto.h:16-56).
THEOREM BuilderTypeCorrect == Spec => []TypeOK
<1>1. BuilderInv => TypeOK
  BY DEF BuilderInv
<1> QED BY <1>1, BuilderInvariant, PTL

\* No append of src/vm/ms_proto.c writes past the block it was given, also
\* after a build that failed half way through shrinking.
THEOREM WritesAlwaysFit == Spec => []WritesFit
<1>1. BuilderInv => WritesFit
  BY DEF BuilderInv
<1> QED BY <1>1, BuilderInvariant, PTL

\* The line table names the line every instruction was emitted for, in the
\* builder and in the prototype, for any program and any refusals.
THEOREM LinesAlwaysExact == Spec => []LineTableExact
<1>1. BuilderInv => LineTableExact
  BY DEF BuilderInv
<1> QED BY <1>1, BuilderInvariant, PTL
----------------------------------------------------------------------------
(* The search.                                                               *)

SearchTypes == /\ search \in {"no", "yes", "done"}
               /\ pc \in Int /\ lo \in Int /\ hi \in Int

\* What every step of the search keeps as well.
LineAtInv == /\ BuilderInv /\ SearchTypes /\ SearchInside /\ LineAtExact
             /\ search = "yes" => EntryAt(0).pc <= pc

\* The entries of the table are entries.
LEMMA EntryFacts ==
  ASSUME BuilderInv, NEW i \in 0..Len(Table) - 1
  PROVE  EntryAt(i).pc \in Nat /\ EntryAt(i).line \in Nat \ {0}
<1>1. Table \in Seq(LineEntry)
  BY DEF BuilderInv, TypeOK, Table
<1>2. i + 1 \in 1..Len(Table)
  BY <1>1
<1>3. Table[i + 1] \in LineEntry
  BY <1>1, <1>2
<1> QED BY <1>3 DEF EntryAt, LineEntry

\* A range of one entry holds the answer: the entry covers p, or is the last.
LEMMA RangeOfOne ==
  ASSUME BuilderInv, NEW p \in Int, NEW i \in 0..Len(Table) - 1,
         EntryAt(i).pc <= p, EntryAt(0).pc <= p,
         i + 1 < Len(Table) => p < EntryAt(i + 1).pc
  PROVE  EntryAt(i).line = LineOf(p)
<1> DEFINE n == Len(out.written)
<1>1. Table \in Seq(LineEntry) /\ out.written \in Seq(Nat) /\ n \in Nat /\ Len(Table) \in Nat
  BY DEF BuilderInv, TypeOK, Table
<1>2. Describes(Table, out.written) /\ InRange(Table, out.written)
  BY DEF BuilderInv, LineTableExact, Table
<1>3. i + 1 \in 1..Len(Table) /\ Table # <<>> /\ i + 1 # 0
  BY <1>1
<1>4. EntryAt(i).pc \in Nat /\ EntryAt(i).line \in Nat \ {0} /\ EntryAt(i) = Table[i + 1]
  BY EntryFacts DEF EntryAt
<1>5. p \in Nat
  BY <1>4
<1>6. EntryAt(0).pc \in Nat
  <2>1. 0 \in 0..Len(Table) - 1
    BY <1>1, <1>3
  <2> QED BY <2>1, EntryFacts
<1>7. ~(p < EntryAt(0).pc)
  BY <1>5, <1>6
<1>8. CASE p < n
  <2>1. RunEnd(Table, i + 1, n) \in Nat /\ p < RunEnd(Table, i + 1, n)
    <3>1. CASE i + 1 = Len(Table)
      BY <1>1, <1>8, <3>1 DEF RunEnd
    <3>2. CASE i + 1 # Len(Table)
      <4>1. i + 1 \in 0..Len(Table) - 1 /\ i + 1 < Len(Table)
        BY <1>1, <1>3, <3>2
      <4>2. EntryAt(i + 1).pc \in Nat /\ EntryAt(i + 1) = Table[(i + 1) + 1]
        BY <4>1, EntryFacts DEF EntryAt
      <4> QED BY <3>2, <4>1, <4>2 DEF RunEnd
    <3> QED BY <3>1, <3>2
  <2>2. p \in Table[i + 1].pc..RunEnd(Table, i + 1, n) - 1
    BY <1>4, <1>5, <2>1
  <2>3. out.written[p + 1] = Table[i + 1].line
    BY <1>2, <1>3, <2>2 DEF Describes
  <2>4. p \in 0..n - 1 /\ out.written[p + 1] # NoLine
    BY <1>1, <1>4, <1>5, <1>8, <2>3 DEF NoLine
  <2> QED BY <1>3, <1>4, <2>3, <2>4 DEF LineOf
<1>9. CASE ~(p < n)
  <2>1. i + 1 = Len(Table)
    <3>1. SUFFICES ASSUME i + 1 # Len(Table) PROVE FALSE
      OBVIOUS
    <3>2. i + 1 \in 0..Len(Table) - 1 /\ i + 1 < Len(Table) /\ (i + 1) + 1 \in 1..Len(Table)
      BY <1>1, <1>3, <3>1
    <3>3. EntryAt(i + 1).pc \in Nat /\ EntryAt(i + 1) = Table[(i + 1) + 1]
      BY <3>2, EntryFacts DEF EntryAt
    <3>4. EntryAt(i + 1).pc < n
      BY <1>2, <3>2, <3>3 DEF InRange
    <3> QED BY <1>1, <1>5, <1>9, <3>2, <3>3, <3>4
  <2>2. i = Len(Table) - 1
    BY <1>1, <2>1
  <2>3. ~(p \in 0..n - 1)
    BY <1>1, <1>5, <1>9
  <2> QED BY <1>3, <1>7, <2>2, <2>3 DEF LineOf
<1> QED BY <1>8, <1>9

\* Neither an empty table nor an instruction before the first line is searched.
LEMMA BeginKeeps ==
  ASSUME LineAtInv, NEW p \in AskedPcs, Begin(p)
  PROVE  LineAtInv'
<1> USE DEF LineAtInv
<1>1. p \in Int /\ pc' = p /\ UNCHANGED builderVars /\ search = "no" /\ SearchTypes
  BY AskedAssumption DEF Begin
<1>2. BuilderInv' /\ Table' = Table /\ out' = out
  BY <1>1, NextKeeps DEF builderVars, Table
<1>3. Table \in Seq(LineEntry) /\ Len(Table) \in Nat
  BY DEF BuilderInv, TypeOK, Table
<1>4. CASE Table = <<>>
  <2>1. search' = "done" /\ answer' = NoLine /\ lo' = lo /\ hi' = hi
    BY <1>4 DEF Begin
  <2>2. LineOf(p)' = NoLine
    BY <1>2, <1>4 DEF LineOf
  <2>3. LineAtExact'
    BY <1>1, <2>1, <2>2, <1>2, <1>4 DEF LineAtExact, LineOf
  <2> QED BY <1>1, <1>2, <2>1, <2>3 DEF SearchTypes, SearchInside
<1>5. CASE Table # <<>> /\ p < EntryAt(0).pc
  <2>1. search' = "done" /\ answer' = EntryAt(0).line /\ lo' = lo /\ hi' = hi
    BY <1>5 DEF Begin
  <2>2. LineOf(p) = EntryAt(0).line
    <3> DEFINE n == Len(out.written)
    <3>1. Describes(Table, out.written) /\ n \in Nat /\ out.written \in Seq(Nat)
      BY DEF BuilderInv, LineTableExact, TypeOK, Table
    <3>2. 0 # Len(Table) /\ RunEnd(Table, 0, n) = EntryAt(0).pc
      BY <1>3, <1>5 DEF RunEnd, EntryAt
    <3>3. EntryAt(0).pc \in Nat
      <4>1. 0 \in 0..Len(Table) - 1
        BY <1>3, <3>2
      <4> QED BY <4>1, EntryFacts
    <3>4. p \in 0..n - 1 => out.written[p + 1] = NoLine
      <4>1. p \in 0..n - 1 => p \in 0..RunEnd(Table, 0, n) - 1
        BY <1>1, <1>5, <3>1, <3>2, <3>3
      <4> QED BY <3>1, <4>1 DEF Describes
    <3> QED BY <1>5, <3>4 DEF LineOf
  <2>3. LineAtExact'
    BY <1>1, <1>2, <2>1, <2>2 DEF LineAtExact, LineOf, EntryAt, Table
  <2> QED BY <1>1, <1>2, <2>1, <2>3 DEF SearchTypes, SearchInside
<1>6. CASE Table # <<>> /\ ~(p < EntryAt(0).pc)
  <2>1. search' = "yes" /\ lo' = 0 /\ hi' = Len(Table) - 1
    BY <1>6 DEF Begin
  <2>2. Len(Table) > 0 /\ 0 \in 0..Len(Table) - 1
    BY <1>3, <1>6
  <2>3. EntryAt(0).pc <= p
    BY <1>1, <1>6, <2>2, EntryFacts
  <2>4. EntryAt(0)' = EntryAt(0)
    BY <1>2 DEF EntryAt
  <2>5. SearchInside'
    BY <1>1, <1>2, <1>3, <2>1, <2>2, <2>3 DEF SearchInside, EntryAt
  <2> QED BY <1>1, <1>2, <1>3, <2>1, <2>3, <2>4, <2>5 DEF SearchTypes, LineAtExact
<1> QED BY <1>4, <1>5, <1>6

\* The half that cannot hold the entry is dropped.
LEMMA HalveKeeps ==
  ASSUME LineAtInv, Halve
  PROVE  LineAtInv'
<1> USE DEF LineAtInv
<1>1. /\ search = "yes" /\ lo < hi /\ UNCHANGED <<search, pc, answer, builderVars>> /\ SearchTypes
      /\ 0 <= lo /\ hi < Len(Table) /\ EntryAt(lo).pc <= pc
      /\ hi + 1 < Len(Table) => pc < EntryAt(hi + 1).pc
  BY DEF Halve, SearchInside
<1>2. BuilderInv' /\ Table' = Table
  BY <1>1, NextKeeps DEF builderVars, Table
<1>3. lo \in Int /\ hi \in Int /\ pc \in Int
  BY <1>1 DEF SearchTypes
<1>4. Mid \in Int /\ lo < Mid /\ Mid <= hi
  BY <1>1, <1>3 DEF Mid
<1>5. Len(Table) \in Nat
  <2>1. Table \in Seq(LineEntry)
    BY DEF BuilderInv, TypeOK, Table
  <2> QED BY <2>1
<1>6. Mid \in 0..Len(Table) - 1
  BY <1>1, <1>3, <1>4, <1>5
<1>7. EntryAt(Mid).pc \in Nat
  BY <1>6, EntryFacts
<1>8. CASE EntryAt(Mid).pc <= pc
  <2>1. lo' = Mid /\ hi' = hi
    BY <1>8 DEF Halve
  <2>2. SearchInside'
    BY <1>1, <1>2, <1>3, <1>4, <1>8, <2>1 DEF SearchInside, EntryAt
  <2> QED BY <1>1, <1>2, <1>3, <1>4, <2>1, <2>2 DEF SearchTypes, LineAtExact, EntryAt
<1>9. CASE ~(EntryAt(Mid).pc <= pc)
  <2>1. lo' = lo /\ hi' = Mid - 1 /\ pc < EntryAt(Mid).pc /\ (Mid - 1) + 1 = Mid
    BY <1>3, <1>4, <1>7, <1>9 DEF Halve
  <2>2. SearchInside'
    BY <1>1, <1>2, <1>3, <1>4, <1>5, <2>1 DEF SearchInside, EntryAt
  <2> QED BY <1>1, <1>2, <1>3, <1>4, <2>1, <2>2 DEF SearchTypes, LineAtExact, EntryAt
<1> QED BY <1>8, <1>9

LEMMA FoundKeeps ==
  ASSUME LineAtInv, Found
  PROVE  LineAtInv'
<1> USE DEF LineAtInv
<1>1. /\ search = "yes" /\ lo >= hi /\ UNCHANGED <<pc, lo, hi, builderVars>> /\ SearchTypes
      /\ search' = "done" /\ answer' = EntryAt(lo).line
      /\ 0 <= lo /\ lo <= hi /\ hi < Len(Table) /\ EntryAt(lo).pc <= pc
      /\ hi + 1 < Len(Table) => pc < EntryAt(hi + 1).pc
      /\ EntryAt(0).pc <= pc
  BY DEF Found, SearchInside
<1>2. BuilderInv' /\ Table' = Table /\ out' = out
  BY <1>1, NextKeeps DEF builderVars, Table
<1>3. lo \in Int /\ hi \in Int /\ pc \in Int /\ lo = hi
  BY <1>1 DEF SearchTypes
<1>4. Len(Table) \in Nat
  <2>1. Table \in Seq(LineEntry)
    BY DEF BuilderInv, TypeOK, Table
  <2> QED BY <2>1
<1>5. lo \in 0..Len(Table) - 1
  BY <1>1, <1>3, <1>4
<1>6. EntryAt(lo).line = LineOf(pc)
  BY <1>1, <1>3, <1>5, RangeOfOne
<1>7. LineAtExact'
  BY <1>1, <1>2, <1>6 DEF LineAtExact, LineOf, EntryAt
<1> QED BY <1>1, <1>2, <1>3, <1>7 DEF SearchTypes, SearchInside

\* LineAtInv is inductive.
LEMMA LineAtInvariant == LineAtSpec => []LineAtInv
<1>1. LineAtInit => LineAtInv
  BY InitKeeps DEF LineAtInit, LineAtInv, SearchTypes, SearchInside, LineAtExact
<1>2. LineAtInv /\ [LineAtNext]_<<builderVars, searchVars>> => LineAtInv'
  <2> SUFFICES ASSUME LineAtInv, [LineAtNext]_<<builderVars, searchVars>> PROVE LineAtInv'
    OBVIOUS
  <2>1. CASE UNCHANGED <<builderVars, searchVars>>
    <3>1. BuilderInv'
      BY <2>1, NextKeeps DEF LineAtInv
    <3> QED BY <2>1, <3>1 DEF LineAtInv, builderVars, searchVars, SearchTypes, SearchInside,
                              LineAtExact, LineOf, EntryAt, Table
  <2>2. CASE search = "no" /\ Next /\ UNCHANGED searchVars
    <3>1. BuilderInv'
      BY <2>2, NextKeeps DEF LineAtInv
    <3> QED BY <2>2, <3>1 DEF LineAtInv, searchVars, SearchTypes, SearchInside, LineAtExact
  <2>3. CASE \E p \in AskedPcs : Begin(p)
    BY <2>3, BeginKeeps
  <2>4. CASE Halve
    BY <2>4, HalveKeeps
  <2>5. CASE Found
    BY <2>5, FoundKeeps
  <2>6. CASE Finish
    <3>1. BuilderInv'
      BY <2>6, NextKeeps DEF LineAtInv, Finish
    <3> QED BY <2>6, <3>1 DEF Finish, LineAtInv, SearchTypes, SearchInside, LineAtExact
  <2> QED BY <2>1, <2>2, <2>3, <2>4, <2>5, <2>6 DEF LineAtNext
<1> QED BY <1>1, <1>2, PTL DEF LineAtSpec

\* Whatever instruction an error report asks about, in whatever prototype, the
\* search of msProtoLineAt answers the line the instruction was emitted for.
THEOREM AnswersExact == LineAtSpec => []LineAtExact
<1>1. LineAtInv => LineAtExact
  BY DEF LineAtInv
<1> QED BY <1>1, LineAtInvariant, PTL

\* The search reads no entry outside the line table.
THEOREM SearchStaysInside == LineAtSpec => []SearchInside
<1>1. LineAtInv => SearchInside
  BY DEF LineAtInv
<1> QED BY <1>1, LineAtInvariant, PTL

----------------------------------------------------------------------------
(* The pool: any constants and children, any limit of the pool and any      *)
(* refusals.                                                                *)

\* pool holds each constant once, and exactly the children that holder owns.
Holds(pool, own, holder) ==
  /\ Distinct(pool)
  /\ \A c \in Children : own[c] = holder <=> \E i \in 1..Len(pool) : pool[i] = Child(c)

PoolInv ==
  /\ Holds(consts.items, owner, "builder") /\ Holds(out.consts, owner, "proto")
  /\ ret.index \in Int
  /\ ret.index >= 0 => /\ ret.index + 1 \in 1..Len(consts.items)
                       /\ consts.items[ret.index + 1] = ret.value
  /\ ~out.built => out.consts = <<>>

----------------------------------------------------------------------------
(* Constants.                                                                *)

\* A child is equal to no constant and to no other child.
LEMMA ChildFacts ==
  /\ \A c \in Children : Child(c).tag = "proto" /\ ~IsNaN(Child(c))
  /\ \A c, d \in Children : Child(c) = Child(d) => c = d
  /\ \A v \in Constants, c \in Children : v # Child(c)
BY BuilderAssumption DEF Child, IsNaN

\* What msProtoConstEquals takes for equal is the same constant, and only a NaN
\* is not equal to itself.
LEMMA EqualFacts ==
  ASSUME NEW v \in Constants, NEW w \in Item
  PROVE  ConstEquals(w, v) <=> w = v /\ ~IsNaN(v)
<1>1. v \in [tag : {"int", "float", "str"}, number : Int, sign : {-1, 0, 1}]
  BY BuilderAssumption
<1>2. CASE w \in Constants
  <2>1. w \in [tag : {"int", "float", "str"}, number : Int, sign : {-1, 0, 1}]
    BY <1>2, BuilderAssumption
  <2>2. ConstEquals(w, v) => w = v /\ ~IsNaN(v)
    BY <1>1, <2>1 DEF ConstEquals, ValueEquals
  <2>3. w = v /\ ~IsNaN(v) => ConstEquals(w, v)
    BY <1>1 DEF ConstEquals, ValueEquals
  <2> QED BY <2>2, <2>3
<1>3. CASE \E c \in Children : w = Child(c)
  BY <1>1, <1>3, ChildFacts DEF ConstEquals
<1> QED BY <1>2, <1>3 DEF Item

LEMMA NothingHeld ==
  ASSUME NEW own, NEW holder, \A c \in Children : own[c] # holder
  PROVE  Holds(<<>>, own, holder)
<1>1. Len(<<>>) = 0
  OBVIOUS
<1> QED BY <1>1 DEF Holds, Distinct

\* A new constant, or a child, joins the pool.
LEMMA DistinctMore ==
  ASSUME NEW pool \in Seq(Item), NEW x \in Item, Distinct(pool),
         \A i \in 1..Len(pool) : pool[i] # x \/ IsNaN(x)
  PROVE  /\ Distinct(Append(pool, x))
         /\ \A y : (\E i \in 1..Len(Append(pool, x)) : Append(pool, x)[i] = y)
                     <=> y = x \/ \E i \in 1..Len(pool) : pool[i] = y
<1> DEFINE t == Append(pool, x)
           n == Len(pool)
<1>1. /\ n \in Nat /\ Len(t) = n + 1 /\ t[n + 1] = x
      /\ \A i \in 1..n : t[i] = pool[i]
  OBVIOUS
<1>2. \A i, j \in 1..n : i # j => pool[i] # pool[j] \/ IsNaN(pool[i])
  BY DEF Distinct
<1>3. \A i \in 1..n : pool[i] # x \/ IsNaN(x)
  OBVIOUS
<1> HIDE DEF t
<1>4. \A i, j \in 1..(n + 1) : i # j => t[i] # t[j] \/ IsNaN(t[i])
  <2>0. n \in Nat /\ Len(t) = n + 1
    BY <1>1
  <2> HIDE DEF n
  <2> TAKE i, j \in 1..(n + 1)
  <2> HAVE i # j
  <2>1. CASE i \in 1..n /\ j \in 1..n
    BY <1>1, <1>2, <2>1
  <2>2. CASE i = n + 1 /\ j \in 1..n
    BY <1>1, <1>3, <2>2
  <2>3. CASE i \in 1..n /\ j = n + 1
    BY <1>1, <1>3, <2>3
  <2> QED BY <2>0, <2>1, <2>2, <2>3
<1>5. \A y : (\E i \in 1..(n + 1) : t[i] = y) <=> y = x \/ \E i \in 1..n : pool[i] = y
  <2>0. n \in Nat
    BY <1>1
  <2> HIDE DEF n
  <2> TAKE y
  <2>1. ASSUME NEW i \in 1..(n + 1), t[i] = y PROVE y = x \/ \E k \in 1..n : pool[k] = y
    <3>1. i \in 1..n \/ i = n + 1
      BY <2>0
    <3> QED BY <1>1, <2>1, <3>1
  <2>2. ASSUME y = x PROVE \E i \in 1..(n + 1) : t[i] = y
    <3>1. n + 1 \in 1..(n + 1)
      BY <2>0
    <3> QED BY <1>1, <2>2, <3>1
  <2>3. ASSUME NEW k \in 1..n, pool[k] = y PROVE \E i \in 1..(n + 1) : t[i] = y
    <3>1. k \in 1..(n + 1)
      BY <2>0
    <3> QED BY <1>1, <2>3, <3>1
  <2> QED BY <2>1, <2>2, <2>3
<1> QED BY <1>1, <1>4, <1>5 DEF Distinct, t

----------------------------------------------------------------------------
(* The steps.                                                                *)

LEMMA PoolInit == Init => PoolInv
<1> SUFFICES ASSUME Init PROVE PoolInv
  OBVIOUS
<1>1. \A c \in Children : owner[c] # "builder" /\ owner[c] # "proto"
  BY DEF Init
<1>2. Holds(<<>>, owner, "builder") /\ Holds(<<>>, owner, "proto")
  BY <1>1, NothingHeld
<1> QED BY <1>2, NothingFacts DEF Init, PoolInv, NoRet, NoProto

\* Steps that leave the pool, the children and what was built alone.
LEMMA SamePool ==
  ASSUME PoolInv, consts'.items = consts.items, UNCHANGED <<owner, ret, out>>
  PROVE  PoolInv'
BY DEF PoolInv

LEMMA AddConstPool ==
  ASSUME BuilderInv, PoolInv, NEW v \in Constants, AddConst(v)
  PROVE  PoolInv'
<1> DEFINE pool == consts.items
           found == {i \in 1..Len(pool) : ConstEquals(pool[i], v)}
           first == CHOOSE i \in found : \A j \in found : i <= j
<1>1. /\ pool \in Seq(Item) /\ Len(pool) \in Nat /\ v \in Item /\ consts \in ArrayOf(Item)
      /\ \A i \in 1..Len(pool) : pool[i] \in Item
  BY SMTT(40) DEF BuilderInv, TypeOK, ArrayOf, Item
<1>2. UNCHANGED <<owner, out>>
  BY DEF AddConst
<1>3. \/ consts' = consts /\ ret' = [value |-> v, index |-> -1]
      \/ found # {} /\ consts' = consts /\ ret' = [value |-> v, index |-> first - 1]
      \/ /\ found = {}
         /\ \E a \in WithRoom(consts) :
              a # NoRoom /\ consts' = Push(a, v) /\ ret' = [value |-> v, index |-> Len(a.items)]
  BY DEF AddConst
<1>4. CASE consts' = consts /\ ret' = [value |-> v, index |-> -1]
  BY <1>2, <1>4 DEF PoolInv
<1>5. CASE found # {} /\ consts' = consts /\ ret' = [value |-> v, index |-> first - 1]
  <2>1. PICK k \in found : \A j \in found : k <= j
    <3>1. PICK k \in found : TRUE
      BY <1>5
    <3>2. \A j \in found : j = k
      BY <1>1, EqualFacts DEF PoolInv, Holds, Distinct
    <3>3. k <= k
      BY <1>1
    <3> QED BY <3>2, <3>3
  <2>2. first \in found
    BY <2>1
  <2> HIDE DEF first
  <2>3. first \in 1..Len(pool) /\ pool[first] = v
    BY <1>1, <2>2, EqualFacts
  <2>4. first - 1 \in Int /\ (first - 1) + 1 = first
    BY <2>3
  <2>5. ret'.index = first - 1 /\ ret'.value = v
    BY <1>5
  <2> QED BY <1>2, <1>5, <2>3, <2>4, <2>5 DEF PoolInv
<1>6. CASE /\ found = {}
           /\ \E a \in WithRoom(consts) :
                a # NoRoom /\ consts' = Push(a, v) /\ ret' = [value |-> v, index |-> Len(a.items)]
  <2>1. PICK a \in WithRoom(consts) :
          a # NoRoom /\ consts' = Push(a, v) /\ ret' = [value |-> v, index |-> Len(a.items)]
    BY <1>6
  <2>2. a \in ArrayOf(Item) /\ a.items = pool
    BY <1>1, <2>1, RoomFacts
  <2>3. consts'.items = Append(pool, v)
    BY <1>1, <2>1, <2>2, PushFacts
  <2>4. \A i \in 1..Len(pool) : pool[i] # v \/ IsNaN(v)
    BY <1>1, <1>6, EqualFacts
  <2>5. Distinct(pool)
    BY DEF PoolInv, Holds
  <2>6. /\ Distinct(Append(pool, v))
        /\ \A y : (\E i \in 1..Len(Append(pool, v)) : Append(pool, v)[i] = y)
                     <=> y = v \/ \E i \in 1..Len(pool) : pool[i] = y
    BY <1>1, <2>4, <2>5, DistinctMore
  <2>7. /\ Len(pool) + 1 \in 1..Len(Append(pool, v)) /\ Append(pool, v)[Len(pool) + 1] = v
    BY <1>1
  <2>8. Holds(Append(pool, v), owner, "builder")
    BY <2>6, ChildFacts DEF PoolInv, Holds
  <2> DEFINE t == Append(pool, v)
             n == Len(pool)
  <2>9. /\ consts'.items = t /\ ret'.index = n /\ ret'.value = v /\ n \in Nat
        /\ n + 1 \in 1..Len(t) /\ t[n + 1] = v /\ Holds(t, owner, "builder")
    BY <1>1, <2>1, <2>2, <2>3, <2>7, <2>8
  <2> HIDE DEF t, n
  <2> QED BY <1>2, <2>9 DEF PoolInv
<1> QED BY <1>3, <1>4, <1>5, <1>6

LEMMA AddProtoPool ==
  ASSUME BuilderInv, PoolInv, NEW c \in Children, AddProto(c)
  PROVE  PoolInv'
<1> DEFINE pool == consts.items
<1>1. /\ pool \in Seq(Item) /\ Len(pool) \in Nat /\ Child(c) \in Item /\ consts \in ArrayOf(Item)
      /\ owner \in [Children -> {"caller", "builder", "proto", "gone"}] /\ owner[c] = "caller"
      /\ UNCHANGED <<ret, out>>
  BY SMTT(20) DEF BuilderInv, TypeOK, ArrayOf, Item, AddProto
<1>2. \/ UNCHANGED <<consts, owner>>
      \/ \E a \in WithRoom(consts) :
           /\ a # NoRoom /\ consts' = Push(a, Child(c)) /\ owner' = [owner EXCEPT ![c] = "builder"]
  BY DEF AddProto
<1>3. CASE UNCHANGED <<consts, owner>>
  BY <1>1, <1>3, SamePool
<1>4. CASE \E a \in WithRoom(consts) :
             /\ a # NoRoom /\ consts' = Push(a, Child(c)) /\ owner' = [owner EXCEPT ![c] = "builder"]
  <2>1. PICK a \in WithRoom(consts) :
          /\ a # NoRoom /\ consts' = Push(a, Child(c)) /\ owner' = [owner EXCEPT ![c] = "builder"]
    BY <1>4
  <2>2. a \in ArrayOf(Item) /\ a.items = pool
    BY <1>1, <2>1, RoomFacts
  <2> DEFINE t == Append(pool, Child(c))
  <2>3. consts'.items = t
    BY <1>1, <2>1, <2>2, PushFacts
  <2>4. Distinct(pool) /\ \A i \in 1..Len(pool) : pool[i] # Child(c)
    BY <1>1 DEF PoolInv, Holds
  <2>5. /\ Distinct(t)
        /\ \A y : (\E i \in 1..Len(t) : t[i] = y)
                     <=> y = Child(c) \/ \E i \in 1..Len(pool) : pool[i] = y
    BY <1>1, <2>4, DistinctMore
  <2>6. /\ Len(t) = Len(pool) + 1 /\ \A i \in 1..Len(pool) : t[i] = pool[i]
    BY <1>1
  <2> HIDE DEF t
  <2>7. Holds(t, owner', "builder")
    <3> SUFFICES ASSUME NEW d \in Children
                 PROVE  owner'[d] = "builder" <=> \E i \in 1..Len(t) : t[i] = Child(d)
      BY <2>5 DEF Holds
    <3>1. CASE d = c
      BY <1>1, <2>1, <2>5, <3>1
    <3>2. CASE d # c
      <4>1. owner'[d] = owner[d] /\ Child(d) # Child(c)
        BY <1>1, <2>1, <3>2, ChildFacts
      <4> QED BY <2>5, <4>1 DEF PoolInv, Holds
    <3> QED BY <3>1, <3>2
  <2>8. Holds(out.consts, owner', "proto")
    <3>1. \A d \in Children : owner'[d] = "proto" <=> owner[d] = "proto"
      BY <1>1, <2>1
    <3> QED BY <3>1 DEF PoolInv, Holds
  <2>9. ret.index >= 0 => ret.index + 1 \in 1..Len(t) /\ t[ret.index + 1] = ret.value
    BY <1>1, <2>6 DEF PoolInv
  <2> QED BY <1>1, <2>3, <2>7, <2>8, <2>9 DEF PoolInv
<1> QED BY <1>2, <1>3, <1>4

LEMMA FreeChildPool ==
  ASSUME BuilderInv, PoolInv, NEW c \in Children, FreeChild(c)
  PROVE  PoolInv'
<1>1. /\ owner[c] = "caller" /\ owner' = [owner EXCEPT ![c] = "gone"]
      /\ owner \in [Children -> {"caller", "builder", "proto", "gone"}]
      /\ UNCHANGED <<consts, ret, out>>
  BY DEF FreeChild, BuilderInv, TypeOK
<1>2. \A d \in Children : /\ owner'[d] = "builder" <=> owner[d] = "builder"
                          /\ owner'[d] = "proto" <=> owner[d] = "proto"
  BY <1>1
<1> QED BY <1>1, <1>2 DEF PoolInv, Holds

LEMMA BuildPool ==
  ASSUME BuilderInv, PoolInv, Build
  PROVE  PoolInv'
<1>1. ~out.built /\ (BuildEmpty \/ BuildOk \/ BuildRefused)
  BY DEF Build
<1>2. CASE BuildEmpty
  BY <1>2, SamePool DEF BuildEmpty
<1>3. CASE BuildOk
  <2>1. /\ out'.built = TRUE /\ out'.consts = consts.items /\ owner' = Handed("builder", "proto")
        /\ consts'.items = <<>> /\ ret' = NoRet
    BY <1>3, NothingFacts DEF BuildOk, Empty
  <2>2. \A c \in Children : owner[c] # "proto"
    <3>1. Len(<<>>) = 0 /\ out.consts = <<>>
      BY <1>1 DEF PoolInv
    <3> QED BY <3>1 DEF PoolInv, Holds
  <2>3. \A c \in Children : /\ owner'[c] # "builder"
                            /\ owner'[c] = "proto" <=> owner[c] = "builder"
    BY <2>1, <2>2 DEF Handed
  <2>4. Holds(consts.items, owner', "proto")
    BY <2>3 DEF PoolInv, Holds
  <2>5. Holds(<<>>, owner', "builder")
    BY <2>3, NothingHeld
  <2> QED BY <2>1, <2>4, <2>5 DEF PoolInv, NoRet
<1>4. CASE BuildRefused
  <2>1. (consts' = consts \/ consts' = Shrunk(consts)) /\ UNCHANGED <<owner, ret, out>>
    BY <1>4 DEF BuildRefused
  <2>2. consts \in ArrayOf(Item)
    BY DEF BuilderInv, TypeOK
  <2>3. consts'.items = consts.items
    BY <2>1, <2>2, ShrunkFacts
  <2> QED BY <2>1, <2>3, SamePool
<1> QED BY <1>1, <1>2, <1>3, <1>4

LEMMA DestroyPool ==
  ASSUME PoolInv, Destroy
  PROVE  PoolInv'
<1>1. consts'.items = <<>> /\ owner' = Handed("builder", "gone") /\ ret' = NoRet /\ out' = out
  BY NothingFacts DEF Destroy, Empty
<1>2. \A c \in Children : /\ owner'[c] # "builder"
                          /\ owner'[c] = "proto" <=> owner[c] = "proto"
  BY <1>1 DEF Handed
<1>3. Holds(<<>>, owner', "builder")
  BY <1>2, NothingHeld
<1>4. Holds(out.consts, owner', "proto")
  BY <1>2 DEF PoolInv, Holds
<1> QED BY <1>1, <1>3, <1>4 DEF PoolInv, NoRet

LEMMA ProtoFreePool ==
  ASSUME PoolInv, ProtoFree
  PROVE  PoolInv'
<1>1. out' = NoProto /\ owner' = Handed("proto", "gone") /\ UNCHANGED <<consts, ret>>
  BY DEF ProtoFree
<1>2. \A c \in Children : /\ owner'[c] # "proto"
                          /\ owner'[c] = "builder" <=> owner[c] = "builder"
  BY <1>1 DEF Handed
<1>3. Holds(<<>>, owner', "proto")
  BY <1>2, NothingHeld
<1>4. Holds(consts.items, owner', "builder")
  BY <1>2 DEF PoolInv, Holds
<1> QED BY <1>1, <1>3, <1>4 DEF PoolInv, NoProto

LEMMA PoolStep == BuilderInv /\ PoolInv /\ [Next]_builderVars => PoolInv'
<1> SUFFICES ASSUME BuilderInv, PoolInv, [Next]_builderVars PROVE PoolInv'
  OBVIOUS
<1>1. CASE UNCHANGED builderVars
  BY <1>1, SamePool DEF builderVars
<1>2. CASE \E line \in Lines : SetLine(line)
  BY <1>2, SamePool DEF SetLine
<1>3. CASE EmitABC
  BY <1>3, SamePool DEF EmitABC
<1>4. CASE AddTryBlock
  BY <1>4, SamePool DEF AddTryBlock
<1>5. CASE Build
  BY <1>5, BuildPool
<1>6. CASE Destroy
  BY <1>6, DestroyPool
<1>7. CASE ProtoFree
  BY <1>7, ProtoFreePool
<1>8. CASE \E sax \in Offsets : EmitSAx(sax)
  BY <1>8, SamePool DEF EmitSAx
<1>9. CASE \E sax \in Offsets : \E p \in Pcs : PatchSAx(p, sax)
  BY <1>9, SamePool DEF PatchSAx
<1>10. CASE \E v \in Constants : AddConst(v)
  BY <1>10, AddConstPool
<1>11. CASE \E c \in Children : AddProto(c)
  BY <1>11, AddProtoPool
<1>12. CASE \E c \in Children : FreeChild(c)
  BY <1>12, FreeChildPool
<1> QED BY <1>1, <1>2, <1>3, <1>4, <1>5, <1>6, <1>7, <1>8, <1>9, <1>10, <1>11, <1>12 DEF Next

----------------------------------------------------------------------------
(* The theorems.                                                             *)

LEMMA PoolInvariant == Spec => []PoolInv
BY BuilderInvariant, PoolInit, PoolStep, PTL DEF Spec

\* The index AddConst returns is that of the very constant asked for, its type
\* and the sign of its zero included, and the pool holds no constant twice
\* (msProtoBuilderAddConst, msProtoConstEquals).
THEOREM PoolAlwaysExact == Spec => []PoolExact
<1>1. PoolInv => PoolExact
  BY DEF PoolInv, PoolExact, Holds
<1> QED BY <1>1, PoolInvariant, PTL

\* The places of a child in a pool that holds what holder owns.
LEMMA PlacesOf ==
  ASSUME NEW pool, NEW own, NEW holder, Holds(pool, own, holder), NEW c \in Children
  PROVE  Cardinality({i \in 1..Len(pool) : pool[i] = Child(c)}) = IF own[c] = holder THEN 1 ELSE 0
<1> DEFINE places == {i \in 1..Len(pool) : pool[i] = Child(c)}
<1>1. CASE own[c] = holder
  <2>1. PICK k \in 1..Len(pool) : pool[k] = Child(c)
    BY <1>1 DEF Holds
  <2>2. places = {k}
    BY <2>1, ChildFacts DEF Holds, Distinct
  <2> QED BY <1>1, <2>2, FS_Singleton
<1>2. CASE own[c] # holder
  <2>1. places = {}
    BY <1>2 DEF Holds
  <2> QED BY <1>2, <2>1, FS_EmptySet
<1> QED BY <1>1, <1>2

\* A child prototype is freed by one owner: it is in the pool of the builder or
\* of the prototype that owns it, once, and in no other, whichever call failed
\* (msProtoBuilderAddProto, msProtoBuilderBuild, msProtoBuilderDestroy).
THEOREM ChildrenOwnedOnce == Spec => []OwnedOnce
<1>1. ASSUME PoolInv, NEW c \in Children
      PROVE  /\ Cardinality(Holders(c).builder) = IF owner[c] = "builder" THEN 1 ELSE 0
             /\ Cardinality(Holders(c).proto) = IF owner[c] = "proto" THEN 1 ELSE 0
  <2>1. Holds(consts.items, owner, "builder") /\ Holds(out.consts, owner, "proto")
    BY <1>1 DEF PoolInv
  <2>2. Cardinality({i \in 1..Len(consts.items) : consts.items[i] = Child(c)})
          = IF owner[c] = "builder" THEN 1 ELSE 0
    BY <2>1, PlacesOf
  <2>3. Cardinality({i \in 1..Len(out.consts) : out.consts[i] = Child(c)})
          = IF owner[c] = "proto" THEN 1 ELSE 0
    BY <2>1, PlacesOf
  <2> QED BY <2>2, <2>3 DEF Holders
<1>2. PoolInv => OwnedOnce
  BY <1>1 DEF OwnedOnce
<1> QED BY <1>2, PoolInvariant, PTL
=============================================================================
