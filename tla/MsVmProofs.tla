---------------------------- MODULE MsVmProofs -----------------------------
(* Proofs about the machine, for any native functions and any host.  For any *)
(* bytecode: type correctness, memory safety, initialised slots, and the     *)
(* agreement of the C stack with the coroutine.  For well-formed bytecode:   *)
(* the checks of the loop never fail in code that was called, and no callee  *)
(* touches the slots of its callers.                                         *)
EXTENDS MsVm, TLAPS

Co(frames, framesCap, top, cap, stack) ==
  [frames |-> frames, framesCap |-> framesCap, stackTop |-> top, stackCap |-> cap,
   stack |-> stack]

\* A coroutine as the machine keeps it: well typed, in bounds, its live slots
\* initialised (CoOkDef).
CoOk(c) ==
  /\ c.stackCap \in Nat /\ c.framesCap \in Nat /\ c.stackTop \in Nat
  /\ c.stackTop <= c.stackCap /\ c.stackCap <= StackMaxCap /\ c.framesCap <= FramesMax
  /\ c.frames \in Seq(Frame) /\ Len(c.frames) <= c.framesCap
  /\ \A k \in 1..Len(c.frames) : WindowOk(c, c.frames[k])
  /\ c.stack \in [0..c.stackCap - 1 -> Value \cup {Junk}]
  /\ \A i \in 0..c.stackTop - 1 : c.stack[i] # Junk
  /\ LocalsLive(c.frames, c.stack)
  /\ c = Co(c.frames, c.framesCap, c.stackTop, c.stackCap, c.stack)

\* d has all the slots of c, and those that were initialised still are.
Extends(c, d) ==
  /\ d.stackCap >= c.stackCap
  /\ \A i \in 0..c.stackCap - 1 : c.stack[i] # Junk => d.stack[i] # Junk

\* d comes from c without a call, a return or a growing array.
SameShape(c, d) ==
  /\ CoOk(d) /\ Extends(c, d)
  /\ d.stackCap = c.stackCap
  /\ Len(d.frames) = Len(c.frames)
  /\ \A k \in 1..Len(c.frames) : d.frames[k].base = c.frames[k].base

----------------------------------------------------------------------------
(* What the definitions say of a coroutine, unfolded once.                  *)

LEMMA ProtoFacts ==
  ASSUME NEW id \in DOMAIN Proto
  PROVE  /\ Proto[id].paramCount \in Int /\ Proto[id].localCount \in Int
         /\ Proto[id].stackSize \in Int
         /\ Proto[id].consts \in Seq(Value) /\ Proto[id].code \in Seq(Instr)
         /\ id \in Nat
BY ProtoAssumption DEF ProtoType

LEMMA CoOkDef ==
  ASSUME NEW c
  PROVE  CoOk(c) <=> CoTypeOK(c) /\ CoInBounds(c) /\ LiveBelow(c, c.stackTop) /\ LocalsLive(c.frames, c.stack)
<1>1. CoOk(c) => CoTypeOK(c)
  BY DEF CoOk, CoTypeOK, Co
<1>2. CoOk(c) => CoInBounds(c) /\ LiveBelow(c, c.stackTop) /\ LocalsLive(c.frames, c.stack)
  BY DEF CoOk, CoInBounds, LiveBelow
<1>3. ASSUME CoTypeOK(c), CoInBounds(c), LiveBelow(c, c.stackTop), LocalsLive(c.frames, c.stack)
      PROVE  CoOk(c)
  <2>1. /\ c.stackCap \in Nat /\ c.framesCap \in Nat /\ c.frames \in Seq(Frame)
        /\ c.stackTop \in Int /\ c.stack \in [0..c.stackCap - 1 -> Value \cup {Junk}]
        /\ c = Co(c.frames, c.framesCap, c.stackTop, c.stackCap, c.stack)
    BY <1>3 DEF CoTypeOK, Co
  <2> QED BY <1>3, <2>1 DEF CoOk, CoInBounds, LiveBelow
<1> QED BY <1>1, <1>2, <1>3

LEMMA CoFields ==
  ASSUME NEW frames, NEW framesCap, NEW top, NEW cap, NEW stack
  PROVE  /\ Co(frames, framesCap, top, cap, stack).frames = frames
         /\ Co(frames, framesCap, top, cap, stack).framesCap = framesCap
         /\ Co(frames, framesCap, top, cap, stack).stackTop = top
         /\ Co(frames, framesCap, top, cap, stack).stackCap = cap
         /\ Co(frames, framesCap, top, cap, stack).stack = stack
BY DEF Co

\* The window of a frame is in an array of n slots.
Window(n, f) ==
  /\ f.base >= 1
  /\ 0 <= Proto[f.proto].paramCount
  /\ Proto[f.proto].paramCount <= Proto[f.proto].localCount
  /\ 0 <= Proto[f.proto].stackSize
  /\ f.base + Proto[f.proto].localCount + Proto[f.proto].stackSize <= n

LEMMA WindowDef ==
  ASSUME NEW c, NEW f
  PROVE  WindowOk(c, f) <=> Window(c.stackCap, f)
BY DEF WindowOk, Window

LEMMA WindowGrows ==
  ASSUME NEW m \in Int, NEW n \in Int, m <= n, NEW f \in Frame, Window(m, f)
  PROVE  Window(n, f)
<1>1. f.base \in Int /\ f.proto \in DOMAIN Proto
  BY DEF Frame
<1> QED BY <1>1, ProtoFacts DEF Window

LEMMA LocalsEndBound ==
  ASSUME NEW n \in Int, NEW f \in Frame, Window(n, f)
  PROVE  /\ LocalsEnd(f) \in Int /\ f.base \in Int /\ f.base >= 1
         /\ f.base <= LocalsEnd(f) /\ LocalsEnd(f) <= n
<1>1. f.base \in Int /\ f.proto \in DOMAIN Proto
  BY DEF Frame
<1> QED BY <1>1, ProtoFacts DEF Window, LocalsEnd

\* How a coroutine is shown to be as it should.
LEMMA CoIntro ==
  ASSUME NEW frames \in Seq(Frame), NEW framesCap \in Nat, NEW top \in Nat, NEW cap \in Nat,
         NEW stack \in [0..cap - 1 -> Value \cup {Junk}],
         top <= cap, cap <= StackMaxCap, framesCap <= FramesMax, Len(frames) <= framesCap,
         \A k \in 1..Len(frames) : Window(cap, frames[k]),
         \A i \in 0..top - 1 : stack[i] # Junk,
         LocalsLive(frames, stack)
  PROVE  CoOk(Co(frames, framesCap, top, cap, stack))
<1> DEFINE c == Co(frames, framesCap, top, cap, stack)
<1>1. /\ c.frames = frames /\ c.framesCap = framesCap /\ c.stackTop = top
      /\ c.stackCap = cap /\ c.stack = stack
  BY CoFields
<1> HIDE DEF c
<1>2. \A k \in 1..Len(c.frames) : WindowOk(c, c.frames[k])
  BY <1>1, WindowDef
<1>3. c = Co(c.frames, c.framesCap, c.stackTop, c.stackCap, c.stack)
  BY <1>1 DEF c
<1>4. CoOk(c)
  BY <1>1, <1>2, <1>3 DEF CoOk
<1> QED BY <1>4 DEF c

\* What is known of a coroutine as it should be.
LEMMA CoElim ==
  ASSUME NEW c, CoOk(c)
  PROVE  /\ c.stackCap \in Nat /\ c.framesCap \in Nat /\ c.stackTop \in Nat
         /\ c.stackTop <= c.stackCap /\ c.stackCap <= StackMaxCap /\ c.framesCap <= FramesMax
         /\ c.frames \in Seq(Frame) /\ Len(c.frames) <= c.framesCap /\ Len(c.frames) \in Nat
         /\ \A k \in 1..Len(c.frames) : c.frames[k] \in Frame /\ Window(c.stackCap, c.frames[k])
         /\ c.stack \in [0..c.stackCap - 1 -> Value \cup {Junk}]
         /\ \A i \in 0..c.stackTop - 1 : c.stack[i] # Junk
         /\ LocalsLive(c.frames, c.stack)
         /\ c = Co(c.frames, c.framesCap, c.stackTop, c.stackCap, c.stack)
BY WindowDef DEF CoOk

\* What keeps initialised slots initialised keeps the locals initialised.
LEMMA LocalsKept ==
  ASSUME NEW c, CoOk(c), NEW stack,
         \A i \in 0..c.stackCap - 1 : c.stack[i] # Junk => stack[i] # Junk
  PROVE  LocalsLive(c.frames, stack)
<1> SUFFICES ASSUME NEW k \in 1..Len(c.frames)
             PROVE  \A i \in 0..LocalsEnd(c.frames[k]) - 1 : stack[i] # Junk
  BY DEF LocalsLive
<1>1. LocalsEnd(c.frames[k]) \in Int /\ LocalsEnd(c.frames[k]) <= c.stackCap /\ c.stackCap \in Nat
  <2>1. c.frames[k] \in Frame /\ Window(c.stackCap, c.frames[k]) /\ c.stackCap \in Nat
    BY CoElim
  <2> QED BY <2>1, LocalsEndBound
<1>2. \A i \in 0..LocalsEnd(c.frames[k]) - 1 : c.stack[i] # Junk
  <2>1. LocalsLive(c.frames, c.stack)
    BY CoElim
  <2> QED BY <2>1 DEF LocalsLive
<1>3. \A i \in 0..LocalsEnd(c.frames[k]) - 1 : i \in 0..c.stackCap - 1
  BY <1>1
<1> QED BY <1>2, <1>3

----------------------------------------------------------------------------
(* What an update of a coroutine gives.                                     *)

LEMMA CoSet ==
  ASSUME NEW c, c = Co(c.frames, c.framesCap, c.stackTop, c.stackCap, c.stack)
  PROVE  c \in [frames : {c.frames}, framesCap : {c.framesCap}, stackTop : {c.stackTop},
                stackCap : {c.stackCap}, stack : {c.stack}]
BY DEF Co

LEMMA CoExt ==
  ASSUME NEW Fs, NEW Fc, NEW Ts, NEW Cs, NEW Ss,
         NEW c \in [frames : Fs, framesCap : Fc, stackTop : Ts, stackCap : Cs, stack : Ss]
  PROVE  c = Co(c.frames, c.framesCap, c.stackTop, c.stackCap, c.stack)
BY DEF Co

LEMMA SetTop ==
  ASSUME NEW c, CoOk(c), NEW top
  PROVE  [c EXCEPT !.stackTop = top]
           = Co(c.frames, c.framesCap, top, c.stackCap, c.stack)
<1> DEFINE d == [c EXCEPT !.stackTop = top]
<1>1. c \in [frames : {c.frames}, framesCap : {c.framesCap}, stackTop : {c.stackTop},
             stackCap : {c.stackCap}, stack : {c.stack}]
  BY CoElim, CoSet
<1>2. d \in [frames : {c.frames}, framesCap : {c.framesCap},
             stackTop : {top}, stackCap : {c.stackCap},
             stack : {c.stack}]
  BY <1>1
<1>3. d = Co(d.frames, d.framesCap, d.stackTop, d.stackCap, d.stack)
  BY <1>2, CoExt
<1>4. /\ d.frames = c.frames /\ d.framesCap = c.framesCap
      /\ d.stackTop = top /\ d.stackCap = c.stackCap
      /\ d.stack = c.stack
  BY <1>1
<1> HIDE DEF d
<1>5. d = Co(c.frames, c.framesCap, top, c.stackCap,
             c.stack)
  BY <1>3, <1>4
<1> QED BY <1>5 DEF d

LEMMA SetSlot ==
  ASSUME NEW c, CoOk(c), NEW i, NEW v
  PROVE  [c EXCEPT !.stack[i] = v]
           = Co(c.frames, c.framesCap, c.stackTop, c.stackCap, [c.stack EXCEPT ![i] = v])
<1> DEFINE d == [c EXCEPT !.stack[i] = v]
<1>1. c \in [frames : {c.frames}, framesCap : {c.framesCap}, stackTop : {c.stackTop},
             stackCap : {c.stackCap}, stack : {c.stack}]
  BY CoElim, CoSet
<1>2. d \in [frames : {c.frames}, framesCap : {c.framesCap},
             stackTop : {c.stackTop}, stackCap : {c.stackCap},
             stack : {[c.stack EXCEPT ![i] = v]}]
  BY <1>1
<1>3. d = Co(d.frames, d.framesCap, d.stackTop, d.stackCap, d.stack)
  BY <1>2, CoExt
<1>4. /\ d.frames = c.frames /\ d.framesCap = c.framesCap
      /\ d.stackTop = c.stackTop /\ d.stackCap = c.stackCap
      /\ d.stack = [c.stack EXCEPT ![i] = v]
  BY <1>1
<1> HIDE DEF d
<1>5. d = Co(c.frames, c.framesCap, c.stackTop, c.stackCap,
             [c.stack EXCEPT ![i] = v])
  BY <1>3, <1>4
<1> QED BY <1>5 DEF d

LEMMA SetPc ==
  ASSUME NEW c, CoOk(c), NEW k, NEW pc
  PROVE  [c EXCEPT !.frames[k].pc = pc]
           = Co([c.frames EXCEPT ![k].pc = pc], c.framesCap, c.stackTop, c.stackCap, c.stack)
<1> DEFINE d == [c EXCEPT !.frames[k].pc = pc]
<1>1. c \in [frames : {c.frames}, framesCap : {c.framesCap}, stackTop : {c.stackTop},
             stackCap : {c.stackCap}, stack : {c.stack}]
  BY CoElim, CoSet
<1>2. d \in [frames : {[c.frames EXCEPT ![k].pc = pc]}, framesCap : {c.framesCap},
             stackTop : {c.stackTop}, stackCap : {c.stackCap},
             stack : {c.stack}]
  BY <1>1
<1>3. d = Co(d.frames, d.framesCap, d.stackTop, d.stackCap, d.stack)
  BY <1>2, CoExt
<1>4. /\ d.frames = [c.frames EXCEPT ![k].pc = pc] /\ d.framesCap = c.framesCap
      /\ d.stackTop = c.stackTop /\ d.stackCap = c.stackCap
      /\ d.stack = c.stack
  BY <1>1
<1> HIDE DEF d
<1>5. d = Co([c.frames EXCEPT ![k].pc = pc], c.framesCap, c.stackTop, c.stackCap,
             c.stack)
  BY <1>3, <1>4
<1> QED BY <1>5 DEF d

----------------------------------------------------------------------------
(* Growing the arrays.                                                      *)

\* The capacity the doubling loop ends with is large enough and allowed.
LEMMA GrownCapsBounds ==
  ASSUME NEW cap \in Nat, NEW init \in Nat \ {0}, NEW max \in Nat, NEW needed \in Int,
         init <= max, cap <= max, NEW r \in GrownCaps(cap, init, max, needed)
  PROVE  r \in Nat /\ r >= needed /\ r <= max
BY DEF GrownCaps, CapSteps

\* The array of the stack, moved to cap slots.
Regrown(c, cap) == [i \in 0..cap - 1 |-> IF i < c.stackCap THEN c.stack[i] ELSE Junk]

LEMMA RegrownSafe ==
  ASSUME NEW c, CoOk(c), NEW cap \in Nat, c.stackCap <= cap, cap <= StackMaxCap
  PROVE  /\ CoOk(Co(c.frames, c.framesCap, c.stackTop, cap, Regrown(c, cap)))
         /\ \A i \in 0..c.stackCap - 1 : Regrown(c, cap)[i] = c.stack[i]
<1>1. Regrown(c, cap) \in [0..cap - 1 -> Value \cup {Junk}]
  BY CoElim DEF Regrown
<1>2. \A i \in 0..c.stackCap - 1 : Regrown(c, cap)[i] = c.stack[i]
  BY CoElim DEF Regrown
<1>3. \A i \in 0..c.stackTop - 1 : Regrown(c, cap)[i] # Junk
  <2>1. /\ c.stackTop \in Nat /\ c.stackCap \in Nat /\ c.stackTop <= c.stackCap
        /\ \A i \in 0..c.stackTop - 1 : c.stack[i] # Junk
    BY CoElim
  <2> QED BY <1>2, <2>1
<1>4. \A k \in 1..Len(c.frames) : Window(cap, c.frames[k])
  BY CoElim, WindowGrows
<1>5. c.stackTop <= cap
  BY CoElim
<1>6. LocalsLive(c.frames, Regrown(c, cap))
  <2>1. \A i \in 0..c.stackCap - 1 : c.stack[i] # Junk => Regrown(c, cap)[i] # Junk
    BY <1>2
  <2> QED BY <2>1, LocalsKept
<1>7. /\ c.framesCap \in Nat /\ c.stackTop \in Nat /\ c.framesCap <= FramesMax
      /\ c.frames \in Seq(Frame) /\ Len(c.frames) <= c.framesCap
  BY CoElim
<1> QED BY <1>1, <1>2, <1>3, <1>4, <1>5, <1>6, <1>7, CoIntro

\* msVmEnsureStack fails with the coroutine as it was, or makes room and keeps
\* every value.
LEMMA EnsureStackSafe ==
  ASSUME NEW c, CoOk(c), NEW needed \in Int, NEW o \in EnsureStack(c, needed)
  PROVE  /\ o.res \in Status
         /\ o.res # "ok" => o.co = c
         /\ CoOk(o.co)
         /\ o.co.stackCap >= c.stackCap
         /\ o.co.frames = c.frames /\ o.co.framesCap = c.framesCap
         /\ o.co.stackTop = c.stackTop
         /\ \A i \in 0..c.stackCap - 1 : o.co.stack[i] = c.stack[i]
         /\ o.res = "ok" => needed <= o.co.stackCap
<1>0. c.stackCap \in Nat /\ c.stackCap <= StackMaxCap
  BY CoElim
<1>1. CASE o \in {Outcome("runtime", c), Outcome("oom", c)}
  BY <1>0, <1>1 DEF Outcome, Status
<1>2. CASE o = Outcome("ok", c) /\ needed <= c.stackCap
  BY <1>0, <1>2 DEF Outcome, Status
<1>3. ASSUME NEW cap \in GrownCaps(c.stackCap, StackInitCap, StackMaxCap, needed),
             ~(needed <= c.stackCap),
             o = Outcome("ok", [c EXCEPT !.stackCap = cap, !.stack = Regrown(c, cap)])
      PROVE  /\ o.res \in Status
             /\ o.res # "ok" => o.co = c
             /\ CoOk(o.co)
             /\ o.co.stackCap >= c.stackCap
             /\ o.co.frames = c.frames /\ o.co.framesCap = c.framesCap
             /\ o.co.stackTop = c.stackTop
             /\ \A i \in 0..c.stackCap - 1 : o.co.stack[i] = c.stack[i]
             /\ o.res = "ok" => needed <= o.co.stackCap
  <2>1. cap \in Nat /\ cap >= needed /\ cap <= StackMaxCap
    BY <1>0, GrownCapsBounds, CapAssumption
  <2>2. c.stackCap <= cap
    BY <1>0, <1>3, <2>1
  <2>3. o.co = Co(c.frames, c.framesCap, c.stackTop, cap, Regrown(c, cap)) /\ o.res = "ok"
    <3>1. c = Co(c.frames, c.framesCap, c.stackTop, c.stackCap, c.stack)
      BY CoElim
    <3> QED BY <1>3, <3>1 DEF Outcome, Co
  <2>4. /\ o.co.frames = c.frames /\ o.co.framesCap = c.framesCap
        /\ o.co.stackTop = c.stackTop /\ o.co.stackCap = cap /\ o.co.stack = Regrown(c, cap)
    BY <2>3, CoFields
  <2>5. CoOk(o.co) /\ \A i \in 0..c.stackCap - 1 : Regrown(c, cap)[i] = c.stack[i]
    BY <2>1, <2>2, <2>3, RegrownSafe
  <2> QED BY <2>1, <2>2, <2>3, <2>4, <2>5 DEF Status
<1>4. CASE needed < 0 \/ needed > StackMaxCap
  BY <1>1, <1>4 DEF EnsureStack
<1>5. CASE ~(needed < 0 \/ needed > StackMaxCap) /\ needed <= c.stackCap
  BY <1>2, <1>5 DEF EnsureStack
<1>6. CASE ~(needed < 0 \/ needed > StackMaxCap) /\ ~(needed <= c.stackCap)
  <2>1. \/ o = Outcome("oom", c)
        \/ \E cap \in GrownCaps(c.stackCap, StackInitCap, StackMaxCap, needed) :
             o = Outcome("ok", [c EXCEPT !.stackCap = cap, !.stack = Regrown(c, cap)])
    BY <1>6 DEF EnsureStack, Regrown
  <2> QED BY <2>1, <1>1, <1>3, <1>6
<1> QED BY <1>4, <1>5, <1>6

LEMMA EnsureFramesSafe ==
  ASSUME NEW c, CoOk(c), NEW needed \in Int, NEW o \in EnsureFrames(c, needed)
  PROVE  /\ o.res \in Status
         /\ CoOk(o.co)
         /\ o.co.frames = c.frames /\ o.co.stackCap = c.stackCap
         /\ o.co.stack = c.stack /\ o.co.stackTop = c.stackTop
         /\ o.res = "ok" => needed <= o.co.framesCap
<1>0. c.framesCap \in Nat /\ c.framesCap <= FramesMax
  BY CoElim
<1>1. CASE o \in {Outcome("runtime", c), Outcome("oom", c)}
  BY <1>1 DEF Outcome, Status
<1>2. CASE o = Outcome("ok", c) /\ needed <= c.framesCap
  BY <1>2 DEF Outcome, Status
<1>3. ASSUME NEW cap \in GrownCaps(c.framesCap, FramesInitCap, FramesMax, needed),
             ~(needed <= c.framesCap),
             o = Outcome("ok", [c EXCEPT !.framesCap = cap])
      PROVE  /\ o.res \in Status
             /\ CoOk(o.co)
             /\ o.co.frames = c.frames /\ o.co.stackCap = c.stackCap
             /\ o.co.stack = c.stack /\ o.co.stackTop = c.stackTop
             /\ o.res = "ok" => needed <= o.co.framesCap
  <2>1. cap \in Nat /\ cap >= needed /\ cap <= FramesMax
    BY <1>0, GrownCapsBounds, CapAssumption
  <2>2. o.co = Co(c.frames, cap, c.stackTop, c.stackCap, c.stack) /\ o.res = "ok"
    <3>1. c = Co(c.frames, c.framesCap, c.stackTop, c.stackCap, c.stack)
      BY CoElim
    <3> QED BY <1>3, <3>1 DEF Outcome, Co
  <2>3. Len(c.frames) <= cap
    BY <1>0, <1>3, <2>1, CoElim
  <2>4. CoOk(o.co)
    <3>1. CoOk(Co(c.frames, cap, c.stackTop, c.stackCap, c.stack))
      <4>1. /\ c.stackCap \in Nat /\ c.stackTop \in Nat
            /\ c.stackTop <= c.stackCap /\ c.stackCap <= StackMaxCap
            /\ c.frames \in Seq(Frame)
            /\ \A k \in 1..Len(c.frames) : Window(c.stackCap, c.frames[k])
            /\ c.stack \in [0..c.stackCap - 1 -> Value \cup {Junk}]
            /\ \A i \in 0..c.stackTop - 1 : c.stack[i] # Junk
            /\ LocalsLive(c.frames, c.stack)
        BY CoElim
      <4> QED BY <4>1, <2>1, <2>3, CoIntro
    <3> QED BY <3>1, <2>2
  <2> QED BY <2>1, <2>2, <2>4, CoFields DEF Status
<1>4. CASE needed > FramesMax
  BY <1>1, <1>4 DEF EnsureFrames
<1>5. CASE ~(needed > FramesMax) /\ needed <= c.framesCap
  BY <1>2, <1>5 DEF EnsureFrames
<1>6. CASE ~(needed > FramesMax) /\ ~(needed <= c.framesCap)
  <2>1. \/ o = Outcome("oom", c)
        \/ \E cap \in GrownCaps(c.framesCap, FramesInitCap, FramesMax, needed) :
             o = Outcome("ok", [c EXCEPT !.framesCap = cap])
    BY <1>6 DEF EnsureFrames
  <2> QED BY <2>1, <1>1, <1>3, <1>6
<1> QED BY <1>4, <1>5, <1>6

----------------------------------------------------------------------------
(* Pushing a frame.                                                         *)

LEMMA ValueFacts ==
  /\ Nil \in Value /\ Junk \notin Value
  /\ \A b \in BOOLEAN : Bool(b) \in Value
  /\ \A v \in Value : v # Junk
BY DEF Value, Nil, Junk, Bool, Val

\* What argv may be: live slots of the stack, or values elsewhere.
ArgsOk(c, argc, argv) ==
  IF argv.inStack THEN argv.index \in Nat /\ argv.index + argc <= c.stackTop
  ELSE \A j \in 0..argc - 1 : argv.vals[j + 1] \in Value

LEMMA PushedForm ==
  ASSUME NEW c, NEW g, CoOk(g), NEW id, NEW argc, NEW inPlace, NEW base, NEW argv
  PROVE  Pushed(c, g, id, argc, inPlace, base, argv) = Co(Append(g.frames, NewFrame(id, base)), g.framesCap, base + Proto[id].localCount, g.stackCap,
                  PushedStack(c, g, id, argc, inPlace, base, argv))
<1> DEFINE d == Pushed(c, g, id, argc, inPlace, base, argv)
           frames == Append(g.frames, NewFrame(id, base))
           top == base + Proto[id].localCount
           stack == PushedStack(c, g, id, argc, inPlace, base, argv)
<1>1. g \in [frames : {g.frames}, framesCap : {g.framesCap}, stackTop : {g.stackTop},
             stackCap : {g.stackCap}, stack : {g.stack}]
  BY CoElim, CoSet
<1>2. d \in [frames : {frames}, framesCap : {g.framesCap}, stackTop : {top},
             stackCap : {g.stackCap}, stack : {stack}]
  BY <1>1 DEF Pushed
<1>3. d = Co(d.frames, d.framesCap, d.stackTop, d.stackCap, d.stack)
  BY <1>2, CoExt
<1>4. /\ d.frames = frames /\ d.framesCap = g.framesCap /\ d.stackTop = top
      /\ d.stackCap = g.stackCap /\ d.stack = stack
  BY <1>2
<1> HIDE DEF d
<1>5. d = Co(frames, g.framesCap, top, g.stackCap, stack)
  BY <1>3, <1>4
<1> QED BY <1>5 DEF d, frames, top, stack, Pushed

\* The arguments are values wherever they come from.
LEMMA ArgsAreValues ==
  ASSUME NEW c, CoOk(c), NEW g, NEW argc \in Nat, NEW argv, ArgsOk(c, argc, argv),
         \A i \in 0..c.stackCap - 1 : g.stack[i] = c.stack[i],
         NEW j \in 0..argc - 1
  PROVE  ArgAt(c, g, argv, argc, j) \in Value
<1>1. CASE ~argv.inStack
  BY <1>1 DEF ArgsOk, ArgAt
<1>2. CASE argv.inStack
  <2>1. argv.index \in Nat /\ argv.index + argc <= c.stackTop
    BY <1>2 DEF ArgsOk
  <2>2. ArgAt(c, g, argv, argc, j) = g.stack[argv.index + j]
    BY <1>2, <2>1 DEF ArgAt
  <2>3. /\ c.stackTop \in Nat /\ c.stackCap \in Nat /\ c.stackTop <= c.stackCap
        /\ c.stack \in [0..c.stackCap - 1 -> Value \cup {Junk}]
        /\ \A i \in 0..c.stackTop - 1 : c.stack[i] # Junk
    BY CoElim
  <2>4. argv.index + j \in 0..c.stackTop - 1 /\ argv.index + j \in 0..c.stackCap - 1
    <3> DEFINE index == argv.index
               top == c.stackTop
               cap == c.stackCap
    <3>1. index \in Nat /\ index + argc <= top /\ top \in Nat /\ cap \in Nat /\ top <= cap
      BY <2>1, <2>3
    <3> HIDE DEF index, top, cap
    <3>2. index + j \in 0..top - 1 /\ index + j \in 0..cap - 1
      BY <3>1
    <3> QED BY <3>2 DEF index, top, cap
  <2>5. c.stack[argv.index + j] \in Value
    BY <2>3, <2>4
  <2> QED BY <2>2, <2>4, <2>5
<1> QED BY <1>1, <1>2

LEMMA FramesPlus ==
  ASSUME NEW s \in Seq(Frame), NEW f \in Frame
  PROVE  /\ Append(s, f) \in Seq(Frame) /\ Len(Append(s, f)) = Len(s) + 1
         /\ \A k \in 1..Len(s) : Append(s, f)[k] = s[k]
         /\ Append(s, f)[Len(s) + 1] = f
  OBVIOUS

\* A push that is not refused fills the whole window below its top: the
\* coroutine stays as it should be, and no initialised slot is lost.
LEMMA PushedSafe ==
  ASSUME NEW c, CoOk(c), NEW id \in DOMAIN Proto, NEW argc \in Nat, NEW inPlace \in BOOLEAN,
         NEW base \in Int, NEW argv,
         ~PushRefused(c, Proto[id], argc, inPlace, base),
         ~inPlace => base = c.stackTop + 1 /\ ArgsOk(c, argc, argv),
         NEW g, CoOk(g), g.frames = c.frames, g.stackTop = c.stackTop,
         c.stackCap <= g.stackCap, \A i \in 0..c.stackCap - 1 : g.stack[i] = c.stack[i],
         base + Proto[id].localCount + Proto[id].stackSize <= g.stackCap,
         Len(c.frames) + 1 <= g.framesCap
  PROVE  /\ CoOk(Pushed(c, g, id, argc, inPlace, base, argv))
         /\ Pushed(c, g, id, argc, inPlace, base, argv).frames
              = Append(c.frames, NewFrame(id, base))
         /\ Extends(c, Pushed(c, g, id, argc, inPlace, base, argv))
         /\ base <= Pushed(c, g, id, argc, inPlace, base, argv).stackTop
<1> DEFINE n == Proto[id].localCount
           size == Proto[id].stackSize
           stack == PushedStack(c, g, id, argc, inPlace, base, argv)
           frames == Append(c.frames, NewFrame(id, base))
<1>1. n \in Int /\ size \in Int /\ Proto[id].paramCount \in Int
  BY ProtoFacts
<1>2. /\ 0 <= Proto[id].paramCount /\ argc = Proto[id].paramCount /\ argc <= n
      /\ 0 <= size /\ 1 <= base
      /\ inPlace => base + argc <= c.stackTop
  <2>1. /\ ~(Proto[id].paramCount < 0) /\ argc = Proto[id].paramCount
        /\ ~(n < Proto[id].paramCount) /\ ~(size < 0) /\ ~(base < 1)
        /\ ~(inPlace /\ c.stackTop < base + argc)
    BY DEF PushRefused
  <2>2. c.stackTop \in Nat
    BY CoElim
  <2> QED BY <1>1, <2>1, <2>2
<1>0. base + n + size <= g.stackCap
  OBVIOUS
<1>3. /\ c.stackTop \in Nat /\ c.stackCap \in Nat /\ c.stackTop <= c.stackCap
      /\ \A i \in 0..c.stackTop - 1 : c.stack[i] # Junk
      /\ c.frames \in Seq(Frame) /\ Len(c.frames) \in Nat
  BY CoElim
<1>4. /\ g.stackCap \in Nat /\ g.framesCap \in Nat /\ g.stackCap <= StackMaxCap
      /\ g.framesCap <= FramesMax
      /\ g.stack \in [0..g.stackCap - 1 -> Value \cup {Junk}]
      /\ \A k \in 1..Len(g.frames) : Window(g.stackCap, g.frames[k])
  BY CoElim
<1>5. \A i \in 0..g.stackCap - 1 :
        stack[i] = IF ~inPlace /\ i = base - 1 THEN Nil
                   ELSE IF ~inPlace /\ i \in base..base + argc - 1
                        THEN ArgAt(c, g, argv, argc, i - base)
                   ELSE IF i \in base + argc..base + n - 1 THEN Nil
                   ELSE g.stack[i]
  BY DEF PushedStack
<1> HIDE DEF n, size, stack
<1>6. ~inPlace => \A j \in 0..argc - 1 : ArgAt(c, g, argv, argc, j) \in Value
  BY ArgsAreValues
<1>7. base + n \in Nat /\ base + n <= g.stackCap
  BY <1>0, <1>1, <1>2, <1>4
<1>8. stack \in [0..g.stackCap - 1 -> Value \cup {Junk}]
  <2>1. \A i \in 0..g.stackCap - 1 : stack[i] \in Value \cup {Junk}
    <3> SUFFICES ASSUME NEW i \in 0..g.stackCap - 1 PROVE stack[i] \in Value \cup {Junk}
      OBVIOUS
    <3>1. CASE ~inPlace /\ i = base - 1
      BY <1>5, <3>1, ValueFacts
    <3>2. CASE ~inPlace /\ i # base - 1 /\ i \in base..base + argc - 1
      <4>1. i - base \in 0..argc - 1
        BY <1>4, <3>2
      <4> QED BY <1>5, <1>6, <3>2, <4>1
    <3>3. CASE ~(~inPlace /\ i = base - 1) /\ ~(~inPlace /\ i \in base..base + argc - 1)
      BY <1>4, <1>5, <3>3, ValueFacts
    <3> QED BY <3>1, <3>2, <3>3
  <2>2. stack = [i \in 0..g.stackCap - 1 |-> stack[i]]
    BY DEF PushedStack, stack
  <2> QED BY <2>1, <2>2
<1>9. \A i \in 0..g.stackCap - 1 : i < c.stackCap /\ c.stack[i] # Junk => stack[i] # Junk
  <2> SUFFICES ASSUME NEW i \in 0..g.stackCap - 1, i < c.stackCap, c.stack[i] # Junk
               PROVE  stack[i] # Junk
    OBVIOUS
  <2>1. CASE ~inPlace /\ i = base - 1
    BY <1>5, <2>1, ValueFacts
  <2>2. CASE ~inPlace /\ i # base - 1 /\ i \in base..base + argc - 1
    <3>1. i - base \in 0..argc - 1
      BY <1>4, <2>2
    <3> QED BY <1>5, <1>6, <2>2, <3>1, ValueFacts
  <2>3. CASE ~(~inPlace /\ i = base - 1) /\ ~(~inPlace /\ i \in base..base + argc - 1)
    <3>1. stack[i] = Nil \/ stack[i] = g.stack[i]
      BY <1>5, <2>3
    <3>2. g.stack[i] = c.stack[i]
      BY <1>3, <1>4
    <3> QED BY <3>1, <3>2, ValueFacts
  <2> QED BY <2>1, <2>2, <2>3
<1>10. \A i \in 0..base + n - 1 : stack[i] # Junk
  <2> SUFFICES ASSUME NEW i \in 0..base + n - 1 PROVE stack[i] # Junk
    OBVIOUS
  <2>0. i \in Nat /\ i < base + n /\ i \in 0..g.stackCap - 1
    BY <1>1, <1>4, <1>7
  <2>1. CASE i < c.stackTop
    <3>1. i \in 0..c.stackTop - 1 /\ i < c.stackCap
      BY <1>3, <2>0, <2>1
    <3> QED BY <1>3, <1>9, <2>0, <3>1
  <2>2. CASE i >= c.stackTop /\ ~inPlace /\ i < base + argc
    <3>1. CASE i = base - 1
      BY <1>5, <2>0, <2>2, <3>1, ValueFacts
    <3>2. CASE i # base - 1
      <4>1. i \in base..base + argc - 1 /\ i - base \in 0..argc - 1
        <5>1. i >= base
          BY <1>3, <2>0, <2>2, <3>2
        <5> QED BY <2>0, <2>2, <5>1
      <4> QED BY <1>5, <1>6, <2>0, <2>2, <3>2, <4>1, ValueFacts
    <3> QED BY <3>1, <3>2
  <2>3. CASE i >= base + argc
    <3>1. i \in base + argc..base + n - 1 /\ i # base - 1 /\ i \notin base..base + argc - 1
      BY <1>1, <2>0, <2>3
    <3> QED BY <1>5, <2>0, <3>1, ValueFacts
  <2> QED BY <1>2, <1>3, <2>0, <2>1, <2>2, <2>3
<1>11. NewFrame(id, base) \in Frame
  BY DEF NewFrame, Frame
<1>12. /\ frames \in Seq(Frame) /\ Len(frames) = Len(c.frames) + 1
       /\ \A k \in 1..Len(c.frames) : frames[k] = c.frames[k]
       /\ frames[Len(c.frames) + 1] = NewFrame(id, base)
  BY <1>3, <1>11, FramesPlus
<1>13. Window(g.stackCap, NewFrame(id, base)) /\ LocalsEnd(NewFrame(id, base)) = base + n
  BY <1>0, <1>1, <1>2 DEF Window, NewFrame, LocalsEnd, n, size
<1>14. \A k \in 1..Len(frames) : Window(g.stackCap, frames[k])
  <2> SUFFICES ASSUME NEW k \in 1..Len(frames) PROVE Window(g.stackCap, frames[k])
    OBVIOUS
  <2>1. CASE k = Len(c.frames) + 1
    BY <1>12, <1>13, <2>1
  <2>2. CASE k # Len(c.frames) + 1
    <3>1. k \in 1..Len(c.frames)
      BY <1>3, <1>12, <2>2
    <3> QED BY <1>3, <1>4, <1>12, <3>1
  <2> QED BY <2>1, <2>2
<1> DEFINE local == base + n
<1>21. base <= local
  BY <1>1, <1>2
<1>20. /\ local \in Nat /\ local <= g.stackCap /\ \A i \in 0..local - 1 : stack[i] # Junk
  BY <1>1, <1>7, <1>10
<1> HIDE DEF frames, local
<1>15. LocalsLive(frames, stack)
  <2>1. LocalsLive(c.frames, stack)
    <3>1. \A i \in 0..c.stackCap - 1 : c.stack[i] # Junk => stack[i] # Junk
      BY <1>3, <1>4, <1>9
    <3> QED BY <3>1, LocalsKept
  <2>2. \A k \in 1..Len(c.frames) : \A i \in 0..LocalsEnd(frames[k]) - 1 : stack[i] # Junk
    BY <2>1, <1>12 DEF LocalsLive
  <2>3. \A i \in 0..LocalsEnd(frames[Len(c.frames) + 1]) - 1 : stack[i] # Junk
    BY <1>1, <1>10, <1>12, <1>13
  <2> QED BY <1>3, <1>12, <2>2, <2>3 DEF LocalsLive
<1>16. CoOk(Co(frames, g.framesCap, local, g.stackCap, stack))
  <2>1. Len(frames) <= g.framesCap
    BY <1>3, <1>4, <1>12
  <2> QED BY <1>4, <1>8, <1>12, <1>14, <1>15, <1>20, <2>1, CoIntro
<1>17. Pushed(c, g, id, argc, inPlace, base, argv)
         = Co(frames, g.framesCap, local, g.stackCap, stack)
  BY PushedForm DEF frames, local, n, stack
<1>18. Extends(c, Co(frames, g.framesCap, local, g.stackCap, stack))
  <2>1. \A i \in 0..c.stackCap - 1 : c.stack[i] # Junk => stack[i] # Junk
    BY <1>3, <1>4, <1>9
  <2> QED BY <1>3, <1>4, <2>1, CoFields DEF Extends
<1>19. Pushed(c, g, id, argc, inPlace, base, argv).frames = frames
  BY <1>17, CoFields
<1>22. Pushed(c, g, id, argc, inPlace, base, argv).stackTop = local
  BY <1>17, CoFields
<1> QED BY <1>16, <1>17, <1>18, <1>19, <1>21, <1>22 DEF frames

----------------------------------------------------------------------------
(* The steps of an instruction that neither calls nor returns.              *)

LEMMA ShapeIntro ==
  ASSUME NEW c, CoOk(c), NEW frames \in Seq(Frame), Len(frames) = Len(c.frames),
         \A k \in 1..Len(c.frames) :
           frames[k].base = c.frames[k].base /\ frames[k].proto = c.frames[k].proto,
         NEW top \in Nat, top <= c.stackCap,
         NEW stack \in [0..c.stackCap - 1 -> Value \cup {Junk}],
         \A i \in 0..top - 1 : stack[i] # Junk,
         \A i \in 0..c.stackCap - 1 : c.stack[i] # Junk => stack[i] # Junk
  PROVE  SameShape(c, Co(frames, c.framesCap, top, c.stackCap, stack))
<1>1. \A k \in 1..Len(c.frames) : Window(c.stackCap, c.frames[k])
  BY CoElim
<1>2. \A k \in 1..Len(frames) : Window(c.stackCap, frames[k])
  BY <1>1 DEF Window
<1>3. LocalsLive(c.frames, stack)
  BY LocalsKept
<1>4. LocalsLive(frames, stack)
  BY <1>3 DEF LocalsLive, LocalsEnd
<1>5. /\ c.stackCap \in Nat /\ c.framesCap \in Nat /\ c.stackCap <= StackMaxCap
      /\ c.framesCap <= FramesMax /\ Len(frames) <= c.framesCap
  BY CoElim
<1>6. CoOk(Co(frames, c.framesCap, top, c.stackCap, stack))
  BY <1>2, <1>4, <1>5, CoIntro
<1> QED BY <1>5, <1>6, CoFields DEF SameShape, Extends

LEMMA ShapeTrans ==
  ASSUME NEW b, NEW c, NEW d, SameShape(b, c), SameShape(c, d), CoOk(b)
  PROVE  SameShape(b, d)
<1>1. b.stackCap \in Nat
  BY CoElim
<1> QED BY <1>1 DEF SameShape, Extends

\* The values below the top.
LEMMA LiveIsValue ==
  ASSUME NEW c, CoOk(c), NEW i \in 0..c.stackTop - 1
  PROVE  i \in 0..c.stackCap - 1 /\ c.stack[i] \in Value
<1>1. /\ c.stackTop \in Nat /\ c.stackCap \in Nat /\ c.stackTop <= c.stackCap
      /\ c.stack \in [0..c.stackCap - 1 -> Value \cup {Junk}]
      /\ \A j \in 0..c.stackTop - 1 : c.stack[j] # Junk
  BY CoElim
<1>2. i \in 0..c.stackCap - 1
  BY <1>1
<1> QED BY <1>1, <1>2

LEMMA PopStep ==
  ASSUME NEW c, CoOk(c), NEW n \in Nat, n <= c.stackTop
  PROVE  /\ SameShape(c, Popped(c, n))
         /\ Popped(c, n).stackTop = c.stackTop - n /\ Popped(c, n).stack = c.stack
         /\ Popped(c, n).frames = c.frames
<1>1. Popped(c, n) = Co(c.frames, c.framesCap, c.stackTop - n, c.stackCap, c.stack)
  BY SetTop, Zenon DEF Popped
<1>2. /\ c.stackTop \in Nat /\ c.stackCap \in Nat /\ c.stackTop <= c.stackCap
      /\ c.stack \in [0..c.stackCap - 1 -> Value \cup {Junk}]
      /\ \A i \in 0..c.stackTop - 1 : c.stack[i] # Junk
      /\ c.frames \in Seq(Frame)
  BY CoElim
<1>3. /\ c.stackTop - n \in Nat /\ c.stackTop - n <= c.stackCap
      /\ \A i \in 0..c.stackTop - n - 1 : c.stack[i] # Junk
  BY <1>2
<1>4. SameShape(c, Co(c.frames, c.framesCap, c.stackTop - n, c.stackCap, c.stack))
  <2> DEFINE top == c.stackTop - n
  <2>1. top \in Nat /\ top <= c.stackCap /\ \A i \in 0..top - 1 : c.stack[i] # Junk
    BY <1>3
  <2> HIDE DEF top
  <2>2. SameShape(c, Co(c.frames, c.framesCap, top, c.stackCap, c.stack))
    BY <1>2, <2>1, ShapeIntro
  <2> QED BY <2>2 DEF top
<1> QED BY <1>1, <1>4, CoFields

LEMMA SlotsKept ==
  ASSUME NEW c, CoOk(c), NEW i \in 0..c.stackCap - 1, NEW v \in Value
  PROVE  /\ [c.stack EXCEPT ![i] = v] \in [0..c.stackCap - 1 -> Value \cup {Junk}]
         /\ \A j \in 0..c.stackCap - 1 : c.stack[j] # Junk => [c.stack EXCEPT ![i] = v][j] # Junk
         /\ [c.stack EXCEPT ![i] = v][i] = v
BY CoElim, ValueFacts

LEMMA PushedOnForm ==
  ASSUME NEW c, CoOk(c), NEW v
  PROVE  PushedOn(c, v) = Co(c.frames, c.framesCap, c.stackTop + 1, c.stackCap,
                  [c.stack EXCEPT ![c.stackTop] = v])
<1> DEFINE d == PushedOn(c, v)
           frames == c.frames
           top == c.stackTop + 1
           stack == [c.stack EXCEPT ![c.stackTop] = v]
<1>1. c \in [frames : {c.frames}, framesCap : {c.framesCap}, stackTop : {c.stackTop},
             stackCap : {c.stackCap}, stack : {c.stack}]
  BY CoElim, CoSet
<1>2. d \in [frames : {frames}, framesCap : {c.framesCap}, stackTop : {top},
             stackCap : {c.stackCap}, stack : {stack}]
  BY <1>1 DEF PushedOn
<1>3. d = Co(d.frames, d.framesCap, d.stackTop, d.stackCap, d.stack)
  BY <1>2, CoExt
<1>4. /\ d.frames = frames /\ d.framesCap = c.framesCap /\ d.stackTop = top
      /\ d.stackCap = c.stackCap /\ d.stack = stack
  BY <1>2
<1> HIDE DEF d
<1>5. d = Co(frames, c.framesCap, top, c.stackCap, stack)
  BY <1>3, <1>4
<1> QED BY <1>5 DEF d, frames, top, stack, PushedOn

LEMMA CutForm ==
  ASSUME NEW c, CoOk(c), NEW n, NEW newTop
  PROVE  Cut(c, n, newTop) = Co(SubSeq(c.frames, 1, n), c.framesCap, newTop, c.stackCap,
                  c.stack)
<1> DEFINE d == Cut(c, n, newTop)
           frames == SubSeq(c.frames, 1, n)
           top == newTop
           stack == c.stack
<1>1. c \in [frames : {c.frames}, framesCap : {c.framesCap}, stackTop : {c.stackTop},
             stackCap : {c.stackCap}, stack : {c.stack}]
  BY CoElim, CoSet
<1>2. d \in [frames : {frames}, framesCap : {c.framesCap}, stackTop : {top},
             stackCap : {c.stackCap}, stack : {stack}]
  BY <1>1 DEF Cut
<1>3. d = Co(d.frames, d.framesCap, d.stackTop, d.stackCap, d.stack)
  BY <1>2, CoExt
<1>4. /\ d.frames = frames /\ d.framesCap = c.framesCap /\ d.stackTop = top
      /\ d.stackCap = c.stackCap /\ d.stack = stack
  BY <1>2
<1> HIDE DEF d
<1>5. d = Co(frames, c.framesCap, top, c.stackCap, stack)
  BY <1>3, <1>4
<1> QED BY <1>5 DEF d, frames, top, stack, Cut

LEMMA UnpackedForm ==
  ASSUME NEW c, CoOk(c), NEW target, NEW n
  PROVE  Unpacked(c, target, n) = Co(c.frames, c.framesCap, c.stackTop - 1 + n, c.stackCap,
                  [i \in 0..c.stackCap - 1 |->
                      IF i \in c.stackTop - 1..c.stackTop - 1 + n - 1
                      THEN target[i - (c.stackTop - 1)]
                      ELSE IF i = c.stackTop - 1 + n THEN target[n - 1] ELSE c.stack[i]])
<1> DEFINE d == Unpacked(c, target, n)
           frames == c.frames
           top == c.stackTop - 1 + n
           stack == [i \in 0..c.stackCap - 1 |->
                      IF i \in c.stackTop - 1..c.stackTop - 1 + n - 1
                      THEN target[i - (c.stackTop - 1)]
                      ELSE IF i = c.stackTop - 1 + n THEN target[n - 1] ELSE c.stack[i]]
<1>1. c \in [frames : {c.frames}, framesCap : {c.framesCap}, stackTop : {c.stackTop},
             stackCap : {c.stackCap}, stack : {c.stack}]
  BY CoElim, CoSet
<1>2. d \in [frames : {frames}, framesCap : {c.framesCap}, stackTop : {top},
             stackCap : {c.stackCap}, stack : {stack}]
  BY <1>1 DEF Unpacked
<1>3. d = Co(d.frames, d.framesCap, d.stackTop, d.stackCap, d.stack)
  BY <1>2, CoExt
<1>4. /\ d.frames = frames /\ d.framesCap = c.framesCap /\ d.stackTop = top
      /\ d.stackCap = c.stackCap /\ d.stack = stack
  BY <1>2
<1> HIDE DEF d
<1>5. d = Co(frames, c.framesCap, top, c.stackCap, stack)
  BY <1>3, <1>4
<1> QED BY <1>5 DEF d, frames, top, stack, Unpacked

LEMMA PushStep ==
  ASSUME NEW c, CoOk(c), NEW v \in Value, c.stackTop < c.stackCap
  PROVE  /\ SameShape(c, PushedOn(c, v))
         /\ PushedOn(c, v).stackTop = c.stackTop + 1 /\ PushedOn(c, v).frames = c.frames
         /\ PushedOn(c, v).stack = [c.stack EXCEPT ![c.stackTop] = v]
<1> DEFINE stack == [c.stack EXCEPT ![c.stackTop] = v]
           top == c.stackTop + 1
<1>1. PushedOn(c, v) = Co(c.frames, c.framesCap, top, c.stackCap, stack)
  BY PushedOnForm
<1>2. /\ c.stackTop \in Nat /\ c.stackCap \in Nat /\ c.frames \in Seq(Frame)
      /\ \A i \in 0..c.stackTop - 1 : c.stack[i] # Junk
  BY CoElim
<1>3. c.stackTop \in 0..c.stackCap - 1
  BY <1>2
<1>4. /\ stack \in [0..c.stackCap - 1 -> Value \cup {Junk}]
      /\ \A j \in 0..c.stackCap - 1 : c.stack[j] # Junk => stack[j] # Junk
      /\ stack[c.stackTop] = v
  BY <1>3, SlotsKept
<1>5. top \in Nat /\ top <= c.stackCap
  BY <1>2
<1> HIDE DEF stack
<1>6. \A i \in 0..top - 1 : stack[i] # Junk
  BY <1>2, <1>4, ValueFacts
<1> HIDE DEF top
<1>7. SameShape(c, Co(c.frames, c.framesCap, top, c.stackCap, stack))
  BY <1>2, <1>4, <1>5, <1>6, ShapeIntro
<1> QED BY <1>1, <1>7, CoFields DEF top, stack

LEMMA SlotStep ==
  ASSUME NEW c, CoOk(c), NEW i \in 0..c.stackCap - 1, NEW v \in Value
  PROVE  /\ SameShape(c, [c EXCEPT !.stack[i] = v])
         /\ [c EXCEPT !.stack[i] = v].stackTop = c.stackTop
         /\ [c EXCEPT !.stack[i] = v].frames = c.frames
<1> DEFINE stack == [c.stack EXCEPT ![i] = v]
           d == [c EXCEPT !.stack[i] = v]
<1>1. d = Co(c.frames, c.framesCap, c.stackTop, c.stackCap, stack)
  BY SetSlot, ZenonT(60)
<1>2. /\ c.stackTop \in Nat /\ c.stackCap \in Nat /\ c.stackTop <= c.stackCap
      /\ c.frames \in Seq(Frame)
      /\ \A j \in 0..c.stackTop - 1 : c.stack[j] # Junk
  BY CoElim
<1>3. /\ stack \in [0..c.stackCap - 1 -> Value \cup {Junk}]
      /\ \A j \in 0..c.stackCap - 1 : c.stack[j] # Junk => stack[j] # Junk
  BY SlotsKept
<1> HIDE DEF stack
<1>4. \A j \in 0..c.stackTop - 1 : stack[j] # Junk
  BY <1>2, <1>3
<1>5. SameShape(c, Co(c.frames, c.framesCap, c.stackTop, c.stackCap, stack))
  BY <1>2, <1>3, <1>4, ShapeIntro
<1>6. SameShape(c, d) /\ d.stackTop = c.stackTop /\ d.frames = c.frames
  <2> HIDE DEF d
  <2> QED BY <1>1, <1>5, CoFields
<1> QED BY <1>6

LEMMA PcStep ==
  ASSUME NEW c, CoOk(c), c.frames # <<>>, NEW pc \in Int
  PROVE  /\ SameShape(c, [c EXCEPT !.frames[Len(c.frames)].pc = pc])
         /\ [c EXCEPT !.frames[Len(c.frames)].pc = pc].stackTop = c.stackTop
         /\ [c EXCEPT !.frames[Len(c.frames)].pc = pc].stack = c.stack
         /\ [c EXCEPT !.frames[Len(c.frames)].pc = pc].frames
              = [c.frames EXCEPT ![Len(c.frames)].pc = pc]
<1> DEFINE frames == [c.frames EXCEPT ![Len(c.frames)].pc = pc]
           d == [c EXCEPT !.frames[Len(c.frames)].pc = pc]
<1>1. d = Co(frames, c.framesCap, c.stackTop, c.stackCap, c.stack)
  BY SetPc, ZenonT(60)
<1>2. /\ c.stackTop \in Nat /\ c.stackCap \in Nat /\ c.stackTop <= c.stackCap
      /\ c.frames \in Seq(Frame)
      /\ c.stack \in [0..c.stackCap - 1 -> Value \cup {Junk}]
      /\ \A j \in 0..c.stackTop - 1 : c.stack[j] # Junk
  BY CoElim
<1>3. /\ frames \in Seq(Frame) /\ Len(frames) = Len(c.frames)
      /\ \A k \in 1..Len(c.frames) :
           frames[k].base = c.frames[k].base /\ frames[k].proto = c.frames[k].proto
  <2>1. Len(c.frames) \in 1..Len(c.frames) /\ c.frames[Len(c.frames)] \in Frame
    BY <1>2
  <2>2. [c.frames[Len(c.frames)] EXCEPT !.pc = pc] \in Frame
    BY <2>1 DEF Frame
  <2>3. frames = [c.frames EXCEPT ![Len(c.frames)] = [c.frames[Len(c.frames)] EXCEPT !.pc = pc]]
    OBVIOUS
  <2>4. /\ [c.frames[Len(c.frames)] EXCEPT !.pc = pc].base = c.frames[Len(c.frames)].base
        /\ [c.frames[Len(c.frames)] EXCEPT !.pc = pc].proto = c.frames[Len(c.frames)].proto
    BY <2>1 DEF Frame
  <2> QED BY <1>2, <2>1, <2>2, <2>3, <2>4
<1> HIDE DEF frames
<1>5. SameShape(c, Co(frames, c.framesCap, c.stackTop, c.stackCap, c.stack))
  BY <1>2, <1>3, ShapeIntro
<1>6. SameShape(c, d) /\ d.stackTop = c.stackTop /\ d.stack = c.stack /\ d.frames = frames
  <2> HIDE DEF d
  <2> QED BY <1>1, <1>5, CoFields
<1> QED BY <1>6 DEF frames

\* UNPACK: every target is a value.
LEMMA UnpackStep ==
  ASSUME NEW c, CoOk(c), NEW n \in Nat \ {0}, NEW target, \A i \in 0..n - 1 : target[i] \in Value,
         1 <= c.stackTop, c.stackTop - 1 + n <= c.stackCap
  PROVE  SameShape(c, Unpacked(c, target, n))
<1> DEFINE at == c.stackTop - 1
           stack == [i \in 0..c.stackCap - 1 |->
                       IF i \in at..at + n - 1 THEN target[i - at]
                       ELSE IF i = at + n THEN target[n - 1] ELSE c.stack[i]]
           top == at + n
<1>1. Unpacked(c, target, n) = Co(c.frames, c.framesCap, top, c.stackCap, stack)
  BY UnpackedForm
<1>2. /\ c.stackTop \in Nat /\ c.stackCap \in Nat /\ c.frames \in Seq(Frame)
      /\ c.stack \in [0..c.stackCap - 1 -> Value \cup {Junk}]
      /\ \A j \in 0..c.stackTop - 1 : c.stack[j] # Junk
  BY CoElim
<1>3. at \in Nat /\ top \in Nat /\ top <= c.stackCap /\ top = at + n /\ c.stackTop = at + 1
  <2>0. c.stackTop \in Nat
    BY <1>2
  <2>1. at \in Nat /\ c.stackTop = at + 1
    BY <2>0
  <2>2. n \in Nat
    OBVIOUS
  <2>3. at + n <= c.stackCap
    BY Zenon
  <2> HIDE DEF at
  <2> QED BY <1>2, <2>1, <2>2, <2>3
<1>4. \A i \in 0..c.stackCap - 1 :
        stack[i] = IF i \in at..at + n - 1 THEN target[i - at]
                   ELSE IF i = at + n THEN target[n - 1] ELSE c.stack[i]
  OBVIOUS
<1>5. stack = [i \in 0..c.stackCap - 1 |-> stack[i]]
  OBVIOUS
<1> HIDE DEF at, top, stack
<1>6. \A i \in 0..c.stackCap - 1 : stack[i] \in Value \/ (stack[i] = c.stack[i] /\ i \notin at..top - 1)
  <2> SUFFICES ASSUME NEW i \in 0..c.stackCap - 1
               PROVE  stack[i] \in Value \/ (stack[i] = c.stack[i] /\ i \notin at..top - 1)
    OBVIOUS
  <2>1. CASE i \in at..at + n - 1
    <3>1. i - at \in 0..n - 1
      BY <1>3, <2>1
    <3> QED BY <1>4, <2>1, <3>1
  <2>2. CASE i \notin at..at + n - 1 /\ i = at + n
    <3>1. n - 1 \in 0..n - 1
      OBVIOUS
    <3> QED BY <1>4, <2>2, <3>1
  <2>3. CASE i \notin at..at + n - 1 /\ i # at + n
    BY <1>3, <1>4, <2>3
  <2> QED BY <2>1, <2>2, <2>3
<1>7. \A i \in 0..top - 1 : stack[i] # Junk
  <2> SUFFICES ASSUME NEW i \in 0..top - 1 PROVE stack[i] # Junk
    OBVIOUS
  <2>1. i \in 0..c.stackCap - 1 /\ (i \in at..top - 1 \/ i \in 0..c.stackTop - 1)
    BY <1>2, <1>3
  <2> QED BY <1>2, <1>6, <2>1, ValueFacts
<1>8. stack \in [0..c.stackCap - 1 -> Value \cup {Junk}]
  <2>1. \A i \in 0..c.stackCap - 1 : stack[i] \in Value \cup {Junk}
    BY <1>2, <1>6
  <2> QED BY <1>5, <2>1
<1>9. \A i \in 0..c.stackCap - 1 : c.stack[i] # Junk => stack[i] # Junk
  BY <1>6, ValueFacts
<1>10. SameShape(c, Co(c.frames, c.framesCap, top, c.stackCap, stack))
  BY <1>2, <1>3, <1>7, <1>8, <1>9, ShapeIntro
<1> QED BY <1>1, <1>10

----------------------------------------------------------------------------
(* Calling and returning.                                                   *)

\* Frames cut off and a new top: what is left is as it should be.
LEMMA CutSafe ==
  ASSUME NEW c, CoOk(c), NEW n \in 0..Len(c.frames), NEW top \in Nat, top <= c.stackCap,
         LiveBelow(c, top)
  PROVE  /\ CoOk(Cut(c, n, top)) /\ Extends(c, Cut(c, n, top))
         /\ Len(Cut(c, n, top).frames) = n
         /\ \A k \in 1..n : Cut(c, n, top).frames[k] = c.frames[k]
         /\ Cut(c, n, top).frames = SubSeq(c.frames, 1, n)
         /\ Cut(c, n, top).stackTop = top /\ Cut(c, n, top).stackCap = c.stackCap
         /\ Cut(c, n, top).stack = c.stack
<1> DEFINE frames == SubSeq(c.frames, 1, n)
<1>1. Cut(c, n, top) = Co(frames, c.framesCap, top, c.stackCap, c.stack)
  BY CutForm
<1>2. /\ c.stackCap \in Nat /\ c.framesCap \in Nat /\ c.stackCap <= StackMaxCap
      /\ c.framesCap <= FramesMax /\ Len(c.frames) <= c.framesCap /\ Len(c.frames) \in Nat
      /\ c.stack \in [0..c.stackCap - 1 -> Value \cup {Junk}]
      /\ c.frames \in Seq(Frame)
      /\ \A k \in 1..Len(c.frames) : Window(c.stackCap, c.frames[k])
      /\ LocalsLive(c.frames, c.stack)
  BY CoElim
<1>3. /\ frames \in Seq(Frame) /\ Len(frames) = n
      /\ \A k \in 1..n : frames[k] = c.frames[k]
  BY <1>2
<1> HIDE DEF frames
<1>4. Len(frames) <= c.framesCap
  BY <1>2, <1>3
<1>5. LocalsLive(frames, c.stack)
  BY <1>2, <1>3 DEF LocalsLive
<1>6. \A k \in 1..Len(frames) : Window(c.stackCap, frames[k])
  BY <1>2, <1>3
<1>7. \A i \in 0..top - 1 : c.stack[i] # Junk
  BY DEF LiveBelow
<1>8. CoOk(Co(frames, c.framesCap, top, c.stackCap, c.stack))
  BY <1>2, <1>3, <1>4, <1>5, <1>6, <1>7, CoIntro
<1>9. Extends(c, Co(frames, c.framesCap, top, c.stackCap, c.stack))
  BY <1>2, CoFields DEF Extends
<1>10. /\ Cut(c, n, top).frames = frames /\ Cut(c, n, top).stackTop = top
       /\ Cut(c, n, top).stackCap = c.stackCap /\ Cut(c, n, top).stack = c.stack
  BY <1>1, CoFields
<1>11. frames = SubSeq(c.frames, 1, n)
  BY DEF frames
<1> QED BY <1>1, <1>3, <1>8, <1>9, <1>10, <1>11

\* msVmPushFrameAt pushes exactly the frame asked for, or fails with the frames
\* and the top as they were; either way no initialised slot is lost.
LEMMA PushFrameSafe ==
  ASSUME NEW c, CoOk(c), NEW id \in DOMAIN Proto, NEW argc \in Nat, NEW inPlace \in BOOLEAN,
         NEW base \in Int, NEW argv,
         ~inPlace => base = c.stackTop + 1 /\ ArgsOk(c, argc, argv),
         NEW o \in PushFrameAt(c, id, argc, inPlace, base, argv)
  PROVE  /\ o.res \in Status
         /\ CoOk(o.co) /\ Extends(c, o.co)
         /\ o.res = "ok" => /\ o.co.frames = Append(c.frames, NewFrame(id, base))
                            /\ base <= o.co.stackTop
         /\ o.res # "ok" => o.co.frames = c.frames /\ o.co.stackTop = c.stackTop
<1>0. c.stackCap \in Nat /\ Len(c.frames) \in Nat
  BY CoElim
<1>1. CASE PushRefused(c, Proto[id], argc, inPlace, base)
  <2>1. o = Outcome("runtime", c)
    BY <1>1 DEF PushFrameAt
  <2>2. o.res = "runtime" /\ o.co = c
    BY <2>1 DEF Outcome
  <2> QED BY <1>0, <2>2 DEF Status, Extends
<1>2. CASE ~PushRefused(c, Proto[id], argc, inPlace, base)
  <2> DEFINE needed == base + Proto[id].localCount + Proto[id].stackSize
  <2>1. PICK s \in EnsureStack(c, needed) :
          \/ s.res # "ok" /\ o = s
          \/ /\ s.res = "ok"
             /\ \E f \in EnsureFrames(s.co, Len(c.frames) + 1) :
                  o = IF f.res = "ok"
                        THEN Outcome("ok", Pushed(c, f.co, id, argc, inPlace, base, argv)) ELSE f
    BY <1>2 DEF PushFrameAt
  <2>2. needed \in Int
    BY ProtoFacts
  <2> HIDE DEF needed
  <2>3. /\ s.res \in Status
        /\ s.res # "ok" => s.co = c
        /\ CoOk(s.co) /\ s.co.stackCap >= c.stackCap
        /\ s.co.frames = c.frames /\ s.co.stackTop = c.stackTop
        /\ \A i \in 0..c.stackCap - 1 : s.co.stack[i] = c.stack[i]
        /\ s.res = "ok" => needed <= s.co.stackCap
    BY <2>1, <2>2, EnsureStackSafe
  <2>4. CASE s.res # "ok" /\ o = s
    BY <1>0, <2>3, <2>4 DEF Extends
  <2>5. CASE s.res = "ok" /\ ~(s.res # "ok" /\ o = s)
    <3>1. PICK f \in EnsureFrames(s.co, Len(c.frames) + 1) :
            o = IF f.res = "ok"
                  THEN Outcome("ok", Pushed(c, f.co, id, argc, inPlace, base, argv)) ELSE f
      BY <2>1, <2>5
    <3>2. /\ f.res \in Status /\ CoOk(f.co)
          /\ f.co.frames = c.frames /\ f.co.stackCap = s.co.stackCap
          /\ f.co.stack = s.co.stack /\ f.co.stackTop = c.stackTop
          /\ f.res = "ok" => Len(c.frames) + 1 <= f.co.framesCap
      <4>1. Len(c.frames) + 1 \in Int
        BY <1>0
      <4> QED BY <2>3, <3>1, <4>1, EnsureFramesSafe
    <3>3. c.stackCap <= f.co.stackCap /\ \A i \in 0..c.stackCap - 1 : f.co.stack[i] = c.stack[i]
      <4>1. s.co.stackCap \in Nat
        BY <2>3, CoElim
      <4> QED BY <1>0, <2>3, <3>2, <4>1
    <3>4. CASE f.res = "ok"
      <4>1. o.res = "ok" /\ o.co = Pushed(c, f.co, id, argc, inPlace, base, argv)
        BY <3>1, <3>4 DEF Outcome
      <4>2. base + Proto[id].localCount + Proto[id].stackSize <= f.co.stackCap
        BY <2>3, <2>5, <3>2 DEF needed
      <4>3. /\ CoOk(Pushed(c, f.co, id, argc, inPlace, base, argv))
            /\ Pushed(c, f.co, id, argc, inPlace, base, argv).frames
                 = Append(c.frames, NewFrame(id, base))
            /\ Extends(c, Pushed(c, f.co, id, argc, inPlace, base, argv))
            /\ base <= Pushed(c, f.co, id, argc, inPlace, base, argv).stackTop
        BY <1>2, <3>2, <3>3, <3>4, <4>2, PushedSafe
      <4> QED BY <4>1, <4>3 DEF Status
    <3>5. CASE f.res # "ok"
      BY <3>1, <3>2, <3>3, <3>5 DEF Extends
    <3> QED BY <3>4, <3>5
  <2> QED BY <2>1, <2>4, <2>5
<1> QED BY <1>1, <1>2

----------------------------------------------------------------------------
(* The activations.                                                         *)

Acts == Seq(RunAct \cup NativeAct)

LEMMA ActsTyped ==
  ASSUME NEW us \in Acts
  PROVE  /\ Len(us) \in Nat /\ (us # <<>> <=> Len(us) >= 1)
         /\ \A k \in 1..Len(us) : us[k] \in RunAct \cup NativeAct
         /\ SubSeq(us, 1, Len(us)) = us
<1> DEFINE S == RunAct \cup NativeAct
<1> HIDE DEF S
<1>1. us \in Seq(S)
  BY DEF Acts, S
<1>2. Len(us) \in Nat /\ (us # <<>> <=> Len(us) >= 1) /\ \A k \in 1..Len(us) : us[k] \in S
  BY <1>1
<1>3. SubSeq(us, 1, Len(us)) = us
  BY <1>1
<1> QED BY <1>2, <1>3 DEF S

LEMMA ActFields ==
  ASSUME NEW a \in RunAct \cup NativeAct
  PROVE  /\ a.type \in {"run", "native"}
         /\ a.type = "run" => a.stopAt \in Nat /\ a.top \in Int
         /\ a.type = "native" => a.argc \in Nat /\ a.base \in Int /\ a.cap \in Nat
<1>1. CASE a \in RunAct
  <2>1. a.type = "run" /\ a.stopAt \in Nat /\ a.top \in Int
    BY <1>1 DEF RunAct
  <2> QED BY <2>1
<1>2. CASE a \in NativeAct
  <2>1. a.type = "native" /\ a.argc \in Nat /\ a.base \in Int /\ a.cap \in Nat
    BY <1>2 DEF NativeAct
  <2> QED BY <2>1
<1> QED BY <1>1, <1>2

LEMMA ActsSub ==
  ASSUME NEW us \in Acts, NEW n \in 0..Len(us)
  PROVE  /\ SubSeq(us, 1, n) \in Acts /\ Len(SubSeq(us, 1, n)) = n
         /\ \A k \in 1..n : SubSeq(us, 1, n)[k] = us[k]
<1> DEFINE S == RunAct \cup NativeAct
<1> HIDE DEF S
<1>1. us \in Seq(S)
  BY DEF Acts, S
<1>2. /\ SubSeq(us, 1, n) \in Seq(S) /\ Len(SubSeq(us, 1, n)) = n
      /\ \A k \in 1..n : SubSeq(us, 1, n)[k] = us[k]
  BY <1>1
<1> QED BY <1>2 DEF Acts, S

LEMMA ActsPlus ==
  ASSUME NEW us \in Acts, NEW a \in RunAct \cup NativeAct
  PROVE  /\ Append(us, a) \in Acts /\ Len(Append(us, a)) = Len(us) + 1
         /\ Append(us, a)[Len(us) + 1] = a
         /\ \A k \in 1..Len(us) : Append(us, a)[k] = us[k]
<1> DEFINE S == RunAct \cup NativeAct
<1>1. a \in S
  OBVIOUS
<1> HIDE DEF S
<1>2. us \in Seq(S)
  BY DEF Acts, S
<1>3. /\ Append(us, a) \in Seq(S) /\ Len(Append(us, a)) = Len(us) + 1
      /\ Append(us, a)[Len(us) + 1] = a
      /\ \A k \in 1..Len(us) : Append(us, a)[k] = us[k]
  BY <1>1, <1>2
<1> QED BY <1>3 DEF Acts, S

\* ActsOk and NativeOk, for the first n activations.
NativeOkTo(c, us, n, k) ==
  /\ k > 1 /\ us[k - 1].type = "run"
  /\ us[k].base >= 1
  /\ k < n => us[k + 1].type = "run" /\ us[k + 1].call /\ us[k].base + us[k].argc <= us[k + 1].top
  /\ k = n => us[k].base + us[k].argc <= c.stackTop

ActsOkTo(c, us, n) ==
  /\ \A k \in 1..n : us[k].type = "run" => RunOk(c, us[k])
  /\ \A k \in 1..n : us[k].type = "native" => NativeOkTo(c, us, n, k)
  /\ \A j, k \in 1..n :
       j < k /\ us[j].type = "run" /\ us[k].type = "run" => us[j].stopAt < us[k].stopAt

LEMMA ActsOkDef ==
  ASSUME NEW c, NEW us
  PROVE  ActsOk(c, us) <=> ActsOkTo(c, us, Len(us))
BY DEF ActsOk, ActsOkTo, NativeOk, NativeOkTo

\* d has the frame that each of the first n activations, if a run, started with.
Covers(c, d, us, n) ==
  \A k \in 1..n : us[k].type = "run" =>
    /\ us[k].stopAt < Len(d.frames)
    /\ us[k].call => d.frames[us[k].stopAt + 1].base = c.frames[us[k].stopAt + 1].base

\* What a native function at the top of the C stack needs.
TopOk(d, us, n) ==
  n > 0 /\ us[n].type = "native" => us[n].base + us[n].argc <= d.stackTop

LEMMA RunOkKept ==
  ASSUME NEW c, CoOk(c), NEW d, CoOk(d), Extends(c, d), NEW a \in RunAct \cup NativeAct,
         a.type = "run", RunOk(c, a), a.stopAt < Len(d.frames),
         a.call => d.frames[a.stopAt + 1].base = c.frames[a.stopAt + 1].base
  PROVE  RunOk(d, a)
<1>1. c.stackCap \in Nat /\ d.stackCap \in Nat /\ a.top \in Nat
  BY CoElim, ActFields DEF RunOk
<1>2. d.stackCap >= c.stackCap /\ a.top <= c.stackCap
  BY DEF Extends, RunOk
<1>3. \A i \in 0..a.top - 1 : d.stack[i] # Junk
  <2>1. \A i \in 0..a.top - 1 : i \in 0..c.stackCap - 1 /\ c.stack[i] # Junk
    BY <1>1, <1>2 DEF RunOk, LiveBelow
  <2> QED BY <2>1 DEF Extends
<1>4. LiveBelow(d, a.top)
  BY <1>3 DEF LiveBelow
<1> QED BY <1>1, <1>2, <1>4 DEF RunOk

\* The first n activations, as m of them were, on a coroutine that still has
\* their frames.
LEMMA ActsKept ==
  ASSUME NEW c, CoOk(c), NEW d, CoOk(d), Extends(c, d),
         NEW us, NEW vs, NEW m \in Nat, NEW n \in 0..m,
         \A k \in 1..n : vs[k] = us[k] /\ us[k] \in RunAct \cup NativeAct,
         ActsOkTo(c, us, m), Covers(c, d, us, n), TopOk(d, us, n)
  PROVE  ActsOkTo(d, vs, n)
<1>1. \A k \in 1..n : k \in 1..m
  OBVIOUS
<1>2. ASSUME NEW k \in 1..n, vs[k].type = "run"
      PROVE  RunOk(d, vs[k])
  <2>1. vs[k] = us[k] /\ us[k] \in RunAct \cup NativeAct /\ RunOk(c, us[k])
    BY <1>1, <1>2 DEF ActsOkTo
  <2>2. /\ us[k].stopAt < Len(d.frames)
        /\ us[k].call => d.frames[us[k].stopAt + 1].base = c.frames[us[k].stopAt + 1].base
    BY <1>2, <2>1 DEF Covers
  <2> QED BY <1>2, <2>1, <2>2, RunOkKept
<1>3. ASSUME NEW k \in 1..n, vs[k].type = "native"
      PROVE  NativeOkTo(d, vs, n, k)
  <2>1. NativeOkTo(c, us, m, k) /\ vs[k] = us[k]
    BY <1>1, <1>3 DEF ActsOkTo
  <2>2. /\ k > 1 /\ us[k - 1].type = "run" /\ us[k].base >= 1
        /\ k < m => us[k + 1].type = "run" /\ us[k + 1].call /\ us[k].base + us[k].argc <= us[k + 1].top
    BY <2>1 DEF NativeOkTo
  <2>3. vs[k - 1] = us[k - 1]
    <3>1. k - 1 \in 1..n
      BY <2>2
    <3> QED BY <3>1
  <2>4. k < n => vs[k + 1] = us[k + 1] /\ k < m
    <3>1. k < n => k + 1 \in 1..n /\ k < m
      OBVIOUS
    <3> QED BY <3>1
  <2>5. k = n => us[k].base + us[k].argc <= d.stackTop
    BY <1>3, <2>1 DEF TopOk
  <2> QED BY <2>1, <2>2, <2>3, <2>4, <2>5 DEF NativeOkTo
<1>4. ASSUME NEW j \in 1..n, NEW k \in 1..n, j < k, vs[j].type = "run", vs[k].type = "run"
      PROVE  vs[j].stopAt < vs[k].stopAt
  <2>1. vs[j] = us[j] /\ vs[k] = us[k] /\ j \in 1..m /\ k \in 1..m
    BY <1>1
  <2> QED BY <1>4, <2>1 DEF ActsOkTo
<1> QED BY <1>2, <1>3, <1>4 DEF ActsOkTo

\* What is left of the C stack agrees with a coroutine that still has the
\* frames of the runs that are left.
LEMMA ActsPrefix ==
  ASSUME NEW c, CoOk(c), NEW d, CoOk(d), Extends(c, d),
         NEW us \in Acts, ActsOk(c, us), NEW n \in 0..Len(us),
         Covers(c, d, us, n), TopOk(d, us, n)
  PROVE  SubSeq(us, 1, n) \in Acts /\ ActsOk(d, SubSeq(us, 1, n))
<1> DEFINE vs == SubSeq(us, 1, n)
           m == Len(us)
<1>1. /\ vs \in Acts /\ Len(vs) = n /\ m \in Nat /\ n \in 0..m
      /\ \A k \in 1..n : vs[k] = us[k]
      /\ \A k \in 1..m : us[k] \in RunAct \cup NativeAct
  BY ActsSub, ActsTyped
<1>2. ActsOkTo(c, us, m)
  BY ActsOkDef
<1> HIDE DEF vs, m
<1>3. \A k \in 1..n : vs[k] = us[k] /\ us[k] \in RunAct \cup NativeAct
  BY <1>1
<1>4. ActsOkTo(d, vs, n)
  BY <1>1, <1>2, <1>3, ActsKept
<1>5. vs \in Acts /\ ActsOk(d, vs)
  BY <1>1, <1>4, ActsOkDef
<1> QED BY <1>5 DEF vs

\* The whole C stack agrees with a coroutine that still has all the frames.
LEMMA ActsAll ==
  ASSUME NEW c, CoOk(c), NEW d, CoOk(d), Extends(c, d),
         NEW us \in Acts, ActsOk(c, us),
         Len(c.frames) <= Len(d.frames),
         \A k \in 1..Len(c.frames) : d.frames[k].base = c.frames[k].base,
         TopOk(d, us, Len(us))
  PROVE  ActsOk(d, us)
<1> DEFINE m == Len(us)
           depth == Len(c.frames)
           newDepth == Len(d.frames)
<1>1. m \in Nat /\ m \in 0..m /\ SubSeq(us, 1, m) = us
      /\ \A k \in 1..m : us[k] \in RunAct \cup NativeAct
  BY ActsTyped
<1>2. depth \in Nat /\ newDepth \in Nat /\ depth <= newDepth
  BY CoElim
<1>3. \A k \in 1..m : us[k].type = "run" => RunOk(c, us[k])
  BY DEF ActsOk
<1>4. \A k \in 1..depth : d.frames[k].base = c.frames[k].base
  OBVIOUS
<1>5. Covers(c, d, us, m)
  <2> SUFFICES ASSUME NEW k \in 1..m, us[k].type = "run"
               PROVE  /\ us[k].stopAt < newDepth
                      /\ d.frames[us[k].stopAt + 1].base = c.frames[us[k].stopAt + 1].base
    BY DEF Covers
  <2>1. us[k].stopAt \in Nat
    BY <1>1, ActFields
  <2>2. us[k].stopAt < depth
    BY <1>3 DEF RunOk
  <2> DEFINE stop == us[k].stopAt
  <2>3. stop \in Nat /\ stop < depth
    BY <2>1, <2>2
  <2> HIDE DEF depth, newDepth, m, stop
  <2>4. stop + 1 \in 1..depth /\ stop < newDepth
    BY <1>2, <2>3
  <2>5. stop < newDepth /\ d.frames[stop + 1].base = c.frames[stop + 1].base
    BY <1>4, <2>4
  <2> QED BY <2>5 DEF stop
<1>6. TopOk(d, us, m)
  OBVIOUS
<1> HIDE DEF depth, newDepth
<1>7. ActsOk(d, SubSeq(us, 1, m))
  BY <1>1, <1>5, <1>6, ActsPrefix
<1> QED BY <1>1, <1>7

\* One more activation, over n of them.
LEMMA ActsOkPlus ==
  ASSUME NEW c, NEW us, NEW vs, NEW n \in Nat, NEW a,
         \A k \in 1..n : vs[k] = us[k], vs[n + 1] = a,
         ActsOkTo(c, us, n),
         a.type = "run" => /\ RunOk(c, a)
                           /\ \A k \in 1..n : us[k].type = "run" => us[k].stopAt < a.stopAt,
         a.type = "native" => /\ n > 0 /\ us[n].type = "run" /\ a.base >= 1
                              /\ a.base + a.argc <= c.stackTop,
         n > 0 /\ us[n].type = "native" =>
           a.type = "run" /\ a.call /\ us[n].base + us[n].argc <= a.top
  PROVE  ActsOkTo(c, vs, n + 1)
<1>1. \A k \in 1..n + 1 : k \in 1..n \/ k = n + 1
  OBVIOUS
<1>2. ASSUME NEW k \in 1..n + 1, vs[k].type = "run" PROVE RunOk(c, vs[k])
  BY <1>1, <1>2 DEF ActsOkTo
<1>3. ASSUME NEW k \in 1..n + 1, vs[k].type = "native" PROVE NativeOkTo(c, vs, n + 1, k)
  <2>1. CASE k \in 1..n
    <3>1. vs[k] = us[k] /\ NativeOkTo(c, us, n, k)
      BY <1>3, <2>1 DEF ActsOkTo
    <3>2. /\ k > 1 /\ us[k - 1].type = "run" /\ us[k].base >= 1
          /\ k < n => us[k + 1].type = "run" /\ us[k + 1].call /\ us[k].base + us[k].argc <= us[k + 1].top
      BY <3>1 DEF NativeOkTo
    <3>3. vs[k - 1] = us[k - 1]
      <4>1. k - 1 \in 1..n
        BY <2>1, <3>2
      <4> QED BY <4>1
    <3>4. vs[k + 1].type = "run" /\ vs[k + 1].call /\ us[k].base + us[k].argc <= vs[k + 1].top
      <4>1. CASE k = n
        BY <1>3, <2>1, <3>1, <4>1
      <4>2. CASE k < n
        <5>1. k + 1 \in 1..n
          BY <2>1, <4>2
        <5> QED BY <3>2, <4>2, <5>1
      <4> QED BY <2>1, <4>1, <4>2
    <3>5. k # n + 1
      BY <2>1
    <3> QED BY <3>1, <3>2, <3>3, <3>4, <3>5 DEF NativeOkTo
  <2>2. CASE k = n + 1
    <3>1. vs[k] = a /\ a.type = "native" /\ k - 1 = n /\ k > 1 /\ ~(k < n + 1)
      BY <1>3, <2>2
    <3>2. vs[k - 1] = us[n]
      <4>1. n \in 1..n
        BY <3>1
      <4> QED BY <3>1, <4>1
    <3> QED BY <3>1, <3>2 DEF NativeOkTo
  <2> QED BY <1>1, <2>1, <2>2
<1>4. ASSUME NEW j \in 1..n + 1, NEW k \in 1..n + 1, j < k,
             vs[j].type = "run", vs[k].type = "run"
      PROVE  vs[j].stopAt < vs[k].stopAt
  <2>1. j \in 1..n /\ vs[j] = us[j]
    <3>1. j \in 1..n
      BY <1>4
    <3> QED BY <3>1
  <2>2. CASE k \in 1..n
    <3>1. vs[k] = us[k]
      BY <2>2
    <3> QED BY <1>4, <2>1, <2>2, <3>1 DEF ActsOkTo
  <2>3. CASE k = n + 1
    BY <1>4, <2>1, <2>3
  <2> QED BY <1>1, <2>2, <2>3
<1> QED BY <1>2, <1>3, <1>4 DEF ActsOkTo

LEMMA ActsAppend ==
  ASSUME NEW c, NEW us \in Acts, ActsOk(c, us), NEW a \in RunAct \cup NativeAct,
         a.type = "run" => /\ RunOk(c, a)
                           /\ \A k \in 1..Len(us) : us[k].type = "run" => us[k].stopAt < a.stopAt,
         a.type = "native" => /\ Len(us) > 0 /\ us[Len(us)].type = "run" /\ a.base >= 1
                              /\ a.base + a.argc <= c.stackTop,
         Len(us) > 0 /\ us[Len(us)].type = "native" =>
           a.type = "run" /\ a.call /\ us[Len(us)].base + us[Len(us)].argc <= a.top
  PROVE  Append(us, a) \in Acts /\ ActsOk(c, Append(us, a))
<1> DEFINE vs == Append(us, a)
           n == Len(us)
<1>1. /\ vs \in Acts /\ Len(vs) = n + 1 /\ n \in Nat /\ vs[n + 1] = a
      /\ \A k \in 1..n : vs[k] = us[k]
  BY ActsPlus, ActsTyped
<1>2. ActsOkTo(c, us, n)
  BY ActsOkDef
<1>3. /\ a.type = "run" => /\ RunOk(c, a)
                           /\ \A k \in 1..n : us[k].type = "run" => us[k].stopAt < a.stopAt
      /\ a.type = "native" => /\ n > 0 /\ us[n].type = "run" /\ a.base >= 1
                              /\ a.base + a.argc <= c.stackTop
      /\ n > 0 /\ us[n].type = "native" =>
           a.type = "run" /\ a.call /\ us[n].base + us[n].argc <= a.top
  OBVIOUS
<1> HIDE DEF vs, n
<1>4. ActsOkTo(c, vs, n + 1)
  BY <1>1, <1>2, <1>3, ActsOkPlus
<1>5. vs \in Acts /\ ActsOk(c, vs)
  BY <1>1, <1>4, ActsOkDef
<1> QED BY <1>5 DEF vs

----------------------------------------------------------------------------
(* The invariant.                                                           *)

\* The type invariant, memory safety, initialised slots and the agreement of
\* the C stack with the coroutine, which are only inductive together.
IInv == TypeOK /\ InBounds /\ LiveInitialised /\ CallStackConsistent

\* The same, as the proofs use it.
GlobalsOk(g) == DOMAIN g \subseteq Nat /\ g \in [DOMAIN g -> Value]
RetOk(r) == r \in [status : Status, out : Value \cup {NoValue, Junk}]
ErrOk(e) == e \in {"none", "runtime", "oom"}

Inv == /\ CoOk(co) /\ acts \in Acts /\ ActsOk(co, acts)
       /\ GlobalsOk(globals) /\ ErrOk(err) /\ RetOk(ret)

LEMMA InvDef == IInv <=> Inv
<1>1. IInv => Inv
  BY CoOkDef DEF IInv, Inv, TypeOK, InBounds, LiveInitialised, CallStackConsistent, Acts,
     GlobalsOk, ErrOk, RetOk
<1>2. Inv => IInv
  BY CoOkDef DEF IInv, Inv, TypeOK, InBounds, LiveInitialised, CallStackConsistent, Acts,
     GlobalsOk, ErrOk, RetOk
<1> QED BY <1>1, <1>2

LEMMA NewCoOk == CoOk(NewCo)
<1> DEFINE stack == [i \in 0..-1 |-> Junk]
<1>1. NewCo = Co(<<>>, 0, 0, 0, stack)
  BY DEF NewCo, Co
<1>2. stack \in [0..0 - 1 -> Value \cup {Junk}]
  OBVIOUS
<1>3. /\ <<>> \in Seq(Frame) /\ Len(<<>>) <= 0 /\ LocalsLive(<<>>, stack)
      /\ \A k \in 1..Len(<<>>) : Window(0, <<>>[k])
      /\ \A i \in 0..0 - 1 : stack[i] # Junk
  BY DEF LocalsLive
<1> HIDE DEF stack
<1>4. CoOk(Co(<<>>, 0, 0, 0, stack))
  <2>1. 0 \in Nat /\ 0 <= 0 /\ 0 <= StackMaxCap /\ 0 <= FramesMax
    BY CapAssumption
  <2> QED BY <1>2, <1>3, <2>1, CoIntro
<1> QED BY <1>1, <1>4

LEMMA NoActs ==
  ASSUME NEW c
  PROVE  <<>> \in Acts /\ ActsOk(c, <<>>)
BY DEF Acts, ActsOk

LEMMA InvInit == Init => Inv
BY NewCoOk, NoActs, ValueAssumption
   DEF Init, Inv, GlobalsOk, ErrOk, RetOk, Returned, Status

\* While a run is in control it has a frame, and its own frames are the top ones.
LEMMA RunFacts ==
  ASSUME Inv, InVm
  PROVE  /\ Len(acts) \in 1..Len(acts) /\ Len(acts) \in Nat
         /\ Act \in RunAct \cup NativeAct /\ Act.type = "run" /\ RunOk(co, Act)
         /\ Act.stopAt \in Nat /\ Act.top \in Nat
         /\ co.frames # <<>> /\ Len(co.frames) \in 1..Len(co.frames)
         /\ Top \in Frame /\ Window(co.stackCap, Top)
<1>1. acts \in Acts /\ acts # <<>> /\ acts[Len(acts)].type = "run" /\ ActsOk(co, acts) /\ CoOk(co)
  BY DEF Inv, InVm, Act
<1>2. Len(acts) \in Nat /\ Len(acts) >= 1 /\ \A k \in 1..Len(acts) : acts[k] \in RunAct \cup NativeAct
  BY <1>1, ActsTyped
<1>3. Len(acts) \in 1..Len(acts)
  BY <1>2
<1>4. Act \in RunAct \cup NativeAct /\ Act.type = "run" /\ RunOk(co, Act)
  BY <1>1, <1>2, <1>3 DEF Act, ActsOk
<1>5. Act.stopAt \in Nat /\ Act.top \in Nat
  BY <1>4, ActFields DEF RunOk
<1>6. /\ co.frames \in Seq(Frame) /\ Len(co.frames) \in Nat
      /\ \A k \in 1..Len(co.frames) : co.frames[k] \in Frame /\ Window(co.stackCap, co.frames[k])
  BY <1>1, CoElim
<1>7. Act.stopAt < Len(co.frames)
  BY <1>4 DEF RunOk
<1>8. Len(co.frames) \in 1..Len(co.frames) /\ co.frames # <<>>
  BY <1>5, <1>6, <1>7
<1> QED BY <1>2, <1>3, <1>4, <1>5, <1>6, <1>8 DEF Top

\* A step that keeps the first n activations and the frames they need.
LEMMA InvReplace ==
  ASSUME Inv, NEW d, CoOk(d), Extends(co, d), NEW n \in 0..Len(acts),
         Covers(co, d, acts, n), TopOk(d, acts, n),
         co' = d, acts' = SubSeq(acts, 1, n),
         GlobalsOk(globals'), ErrOk(err'), RetOk(ret')
  PROVE  Inv'
<1>1. CoOk(co) /\ acts \in Acts /\ ActsOk(co, acts)
  BY DEF Inv
<1>2. SubSeq(acts, 1, n) \in Acts /\ ActsOk(d, SubSeq(acts, 1, n))
  BY <1>1, ActsPrefix
<1> QED BY <1>2 DEF Inv

\* All frames are still there.
HasFrames(c, d) ==
  /\ Len(c.frames) <= Len(d.frames)
  /\ \A k \in 1..Len(c.frames) : d.frames[k].base = c.frames[k].base

LEMMA CoversAll ==
  ASSUME Inv, NEW d, CoOk(d), HasFrames(co, d)
  PROVE  Covers(co, d, acts, Len(acts))
<1> SUFFICES ASSUME NEW k \in 1..Len(acts), acts[k].type = "run"
             PROVE  /\ acts[k].stopAt < Len(d.frames)
                    /\ d.frames[acts[k].stopAt + 1].base = co.frames[acts[k].stopAt + 1].base
  BY DEF Covers
<1> DEFINE stop == acts[k].stopAt
           depth == Len(co.frames)
<1>1. stop \in Nat
  BY ActsTyped, ActFields DEF Inv
<1>2. stop < depth
  BY DEF Inv, ActsOk, RunOk
<1>3. depth \in Nat /\ Len(d.frames) \in Nat /\ depth <= Len(d.frames)
      /\ \A j \in 1..depth : d.frames[j].base = co.frames[j].base
  BY CoElim DEF Inv, HasFrames
<1> HIDE DEF stop, depth
<1>4. stop + 1 \in 1..depth /\ stop < Len(d.frames)
  BY <1>1, <1>2, <1>3
<1>5. stop < Len(d.frames) /\ d.frames[stop + 1].base = co.frames[stop + 1].base
  BY <1>3, <1>4
<1> QED BY <1>5 DEF stop

LEMMA InvKeepActs ==
  ASSUME Inv, InVm, NEW d, CoOk(d), Extends(co, d), HasFrames(co, d),
         co' = d, acts' = acts, GlobalsOk(globals'), ErrOk(err'), RetOk(ret')
  PROVE  Inv'
<1>1. acts \in Acts
  BY DEF Inv
<1>2. Len(acts) \in 0..Len(acts) /\ SubSeq(acts, 1, Len(acts)) = acts
  BY <1>1, ActsTyped
<1>3. TopOk(d, acts, Len(acts))
  BY DEF TopOk, InVm, Act
<1>4. Covers(co, d, acts, Len(acts))
  BY CoversAll
<1> QED BY <1>2, <1>3, <1>4, InvReplace

LEMMA ShapeFrames ==
  ASSUME NEW c, CoOk(c), NEW d, SameShape(c, d)
  PROVE  CoOk(d) /\ Extends(c, d) /\ HasFrames(c, d)
<1>1. Len(c.frames) \in Nat
  BY CoElim
<1> QED BY <1>1 DEF SameShape, HasFrames

\* A step that changes the coroutine alone, and keeps its shape.
LEMMA InvContinue ==
  ASSUME Inv, InVm, NEW d, SameShape(co, d), Continue(d)
  PROVE  Inv'
<1>1. CoOk(co) /\ GlobalsOk(globals) /\ ErrOk(err) /\ RetOk(ret)
  BY DEF Inv
<1>2. co' = d /\ acts' = acts /\ globals' = globals /\ err' = err /\ ret' = ret
  BY DEF Continue
<1>3. CoOk(d) /\ Extends(co, d) /\ HasFrames(co, d)
  BY <1>1, ShapeFrames
<1> QED BY <1>1, <1>2, <1>3, InvKeepActs

LEMMA ExtendsTrans ==
  ASSUME NEW b, NEW c, NEW d, CoOk(b), CoOk(c), CoOk(d), Extends(b, c), Extends(c, d)
  PROVE  Extends(b, d)
<1>1. b.stackCap \in Nat /\ c.stackCap \in Nat /\ d.stackCap \in Nat
  BY CoElim
<1>2. d.stackCap >= b.stackCap
  BY <1>1 DEF Extends
<1>3. \A i \in 0..b.stackCap - 1 : i \in 0..c.stackCap - 1
  BY <1>1 DEF Extends
<1>4. \A i \in 0..b.stackCap - 1 : b.stack[i] # Junk => d.stack[i] # Junk
  BY <1>3 DEF Extends
<1> QED BY <1>2, <1>4 DEF Extends

\* The error path, from run k, with the coroutine in state c.
LEMMA InvUnwind ==
  ASSUME Inv, NEW k \in 1..Len(acts), acts[k].type = "run",
         NEW c, CoOk(c), Extends(co, c), HasFrames(co, c),
         NEW r \in {"runtime", "oom"}, Unwind(k, c, r)
  PROVE  Inv'
<1> DEFINE a == acts[k]
           n == a.stopAt
           d == Cut(c, n, a.top)
<1>1. CoOk(co) /\ acts \in Acts /\ ActsOk(co, acts) /\ GlobalsOk(globals)
  BY DEF Inv
<1>2. /\ \A j \in 1..Len(acts) : acts[j] \in RunAct \cup NativeAct
      /\ Len(acts) \in Nat
  BY <1>1, ActsTyped
<1>3. a \in RunAct \cup NativeAct /\ RunOk(co, a) /\ n \in Nat /\ a.top \in Int
  BY <1>1, <1>2, ActFields DEF ActsOk
<1>4. Covers(co, c, acts, Len(acts))
  BY CoversAll
<1>5. RunOk(c, a)
  <2>1. /\ a.stopAt < Len(c.frames)
        /\ a.call => c.frames[a.stopAt + 1].base = co.frames[a.stopAt + 1].base
    BY <1>4 DEF Covers
  <2> QED BY <1>1, <1>3, <2>1, RunOkKept
<1>6. n < Len(c.frames) /\ a.top \in Nat /\ a.top <= c.stackCap /\ LiveBelow(c, a.top)
  BY <1>3, <1>5 DEF RunOk
<1>7. n \in 0..Len(c.frames)
  BY <1>3, <1>6, CoElim
<1>8. /\ co' = d /\ acts' = SubSeq(acts, 1, k - 1) /\ err' = r
      /\ ret' = Returned(r, NoValue) /\ globals' = globals
  BY DEF Unwind
<1> HIDE DEF a, n
<1>9. /\ CoOk(d) /\ Extends(c, d) /\ Len(d.frames) = n
      /\ \A j \in 1..n : d.frames[j] = c.frames[j]
      /\ d.stackTop = a.top
  BY <1>6, <1>7, CutSafe
<1> HIDE DEF d
<1>10. Extends(co, d)
  BY <1>1, <1>9, ExtendsTrans
<1>11. Covers(co, d, acts, k - 1)
  <2> SUFFICES ASSUME NEW j \in 1..k - 1, acts[j].type = "run"
               PROVE  /\ acts[j].stopAt < Len(d.frames)
                      /\ acts[j].call =>
                           d.frames[acts[j].stopAt + 1].base = co.frames[acts[j].stopAt + 1].base
    BY DEF Covers
  <2>1. j \in 1..Len(acts) /\ j < k
    BY <1>2
  <2>2. acts[j].stopAt \in Nat
    BY <1>2, <2>1, ActFields
  <2>3. acts[j].stopAt < n
    BY <1>1, <2>1 DEF ActsOk, n, a
  <2>4. acts[j].call => c.frames[acts[j].stopAt + 1].base = co.frames[acts[j].stopAt + 1].base
    BY <1>4, <2>1 DEF Covers
  <2>5. acts[j].stopAt + 1 \in 1..n
    BY <1>3, <2>2, <2>3
  <2> QED BY <1>9, <2>3, <2>4, <2>5
<1>12. TopOk(d, acts, k - 1)
  <2> SUFFICES ASSUME k - 1 > 0, acts[k - 1].type = "native"
               PROVE  acts[k - 1].base + acts[k - 1].argc <= d.stackTop
    BY DEF TopOk
  <2>1. k - 1 \in 1..Len(acts) /\ k - 1 < Len(acts) /\ (k - 1) + 1 = k
    BY <1>2
  <2>2. NativeOk(co, acts, k - 1)
    BY <1>1, <2>1 DEF ActsOk
  <2> QED BY <1>9, <2>1, <2>2 DEF NativeOk, a
<1>13. k - 1 \in 0..Len(acts)
  BY <1>2
<1>14. GlobalsOk(globals') /\ ErrOk(err') /\ RetOk(ret')
  BY <1>1, <1>8 DEF ErrOk, RetOk, Returned, Status
<1> QED BY <1>8, <1>9, <1>10, <1>11, <1>12, <1>13, <1>14, InvReplace

LEMMA ExtendsRefl ==
  ASSUME NEW c, CoOk(c)
  PROVE  Extends(c, c) /\ HasFrames(c, c)
<1>1. c.stackCap \in Nat /\ Len(c.frames) \in Nat
  BY CoElim
<1> QED BY <1>1 DEF Extends, HasFrames

LEMMA InvFail ==
  ASSUME Inv, InVm, Fail
  PROVE  Inv'
<1>1. CoOk(co) /\ Extends(co, co) /\ HasFrames(co, co)
  BY ExtendsRefl DEF Inv
<1>2. Len(acts) \in 1..Len(acts) /\ acts[Len(acts)].type = "run"
  BY RunFacts DEF Act
<1>3. PICK r \in {"runtime", "oom"} : Unwind(Len(acts), co, r)
  BY DEF Fail, Raised
<1> QED BY <1>1, <1>2, <1>3, InvUnwind

LEMMA InvProduce ==
  ASSUME Inv, InVm, NEW c, SameShape(co, c), c.stackTop < c.stackCap, NEW v \in Value,
         Produce(c, v)
  PROVE  Inv'
<1>1. CASE Fail
  BY <1>1, InvFail
<1>2. CASE Continue(PushedOn(c, v))
  <2>1. CoOk(c) /\ CoOk(co)
    BY DEF SameShape, Inv
  <2>2. SameShape(c, PushedOn(c, v))
    BY <2>1, PushStep
  <2>3. SameShape(co, PushedOn(c, v))
    BY <2>1, <2>2, ShapeTrans
  <2> QED BY <1>2, <2>3, InvContinue
<1> QED BY <1>1, <1>2 DEF Produce

\* The frame, the instruction and the operands.
LEMMA InsFacts ==
  ASSUME Inv, InVm, PcOk
  PROVE  /\ Ins \in Instr /\ Ins.a \in 0..255 /\ Ins.bx \in Int
         /\ P.localCount \in Int /\ P.stackSize \in Int /\ 0 <= P.localCount
         /\ P.consts \in Seq(Value) /\ Top.pc \in Int /\ Top.base \in Nat /\ Top.base >= 1
         /\ Floor = Top.base + P.localCount /\ Floor \in Nat /\ WindowEnd \in Nat
         /\ Floor <= WindowEnd /\ WindowEnd <= co.stackCap
         /\ co.stackCap \in Nat /\ co.stackTop \in Nat /\ co.stackTop <= co.stackCap
<1>1. Top \in Frame /\ Window(co.stackCap, Top)
  BY RunFacts
<1>2. Top.proto \in DOMAIN Proto /\ Top.pc \in Int /\ Top.base \in Int
  BY <1>1 DEF Frame
<1>3. /\ P.paramCount \in Int /\ P.localCount \in Int /\ P.stackSize \in Int
      /\ P.consts \in Seq(Value) /\ P.code \in Seq(Instr)
  BY <1>2, ProtoFacts DEF P
<1>4. /\ Top.base >= 1 /\ 0 <= P.paramCount /\ P.paramCount <= P.localCount
      /\ 0 <= P.stackSize /\ Top.base + P.localCount + P.stackSize <= co.stackCap
  BY <1>1 DEF Window, P
<1>5. Ins \in Instr
  <2>1. Top.pc + 1 \in 1..Len(P.code)
    BY <1>2, <1>3 DEF PcOk
  <2> QED BY <1>3, <2>1 DEF Ins
<1>6. Ins.a \in 0..255 /\ Ins.bx \in Int
  BY <1>5 DEF Instr
<1>7. /\ co.stackCap \in Nat /\ co.stackTop \in Nat /\ co.stackTop <= co.stackCap
  BY CoElim DEF Inv
<1>8. Floor = Top.base + P.localCount /\ WindowEnd = Top.base + P.localCount + P.stackSize
  BY DEF Floor, WindowEnd, LocalsEnd, P
<1>9. /\ Floor = Top.base + P.localCount /\ Floor \in Nat /\ WindowEnd \in Nat
      /\ Floor <= WindowEnd /\ WindowEnd <= co.stackCap
  <2> DEFINE base == Top.base
             local == P.localCount
             size == P.stackSize
             cap == co.stackCap
  <2>1. /\ base \in Int /\ local \in Int /\ size \in Int /\ cap \in Nat
        /\ base >= 1 /\ 0 <= local /\ 0 <= size /\ base + local + size <= cap
        /\ Floor = base + local /\ WindowEnd = base + local + size
    <3>1. 0 <= P.localCount
      BY <1>3, <1>4
    <3> QED BY <1>2, <1>3, <1>4, <1>7, <1>8, <3>1
  <2> HIDE DEF base, local, size, cap
  <2>2. Floor = base + local /\ Floor \in Nat /\ WindowEnd \in Nat /\ Floor <= WindowEnd
        /\ WindowEnd <= cap
    BY <2>1
  <2> QED BY <2>2 DEF base, local, cap
<1>10. 0 <= P.localCount /\ Top.base \in Nat
  BY <1>2, <1>3, <1>4
<1> QED BY <1>2, <1>3, <1>4, <1>5, <1>6, <1>7, <1>9, <1>10

\* A local is an initialised slot of the array.
LEMMA LocalFacts ==
  ASSUME Inv, InVm, PcOk, NEW a \in 0..P.localCount - 1
  PROVE  Top.base + a \in 0..co.stackCap - 1 /\ co.stack[Top.base + a] \in Value
<1>1. /\ P.localCount \in Int /\ Top.base \in Nat
      /\ Floor = Top.base + P.localCount /\ Floor <= co.stackCap /\ co.stackCap \in Nat
  BY InsFacts
<1> DEFINE i == Top.base + a
<1>2. i \in 0..co.stackCap - 1 /\ i \in 0..Floor - 1
  BY <1>1
<1>3. /\ LocalsLive(co.frames, co.stack)
      /\ co.stack \in [0..co.stackCap - 1 -> Value \cup {Junk}]
  BY CoElim DEF Inv
<1>4. Len(co.frames) \in 1..Len(co.frames)
  BY RunFacts
<1>5. \A j \in 0..Floor - 1 : co.stack[j] # Junk
  BY <1>3, <1>4 DEF LocalsLive, Floor, Top
<1> HIDE DEF i
<1>6. i \in 0..co.stackCap - 1 /\ co.stack[i] \in Value
  BY <1>2, <1>3, <1>5
<1> QED BY <1>6 DEF i

LEMMA PeekFacts ==
  ASSUME Inv, InVm, PcOk, NEW n \in Nat, Holds(n + 1)
  PROVE  Peek(n) \in Value /\ n + 1 <= co.stackTop
<1>1. co.stackTop \in Nat /\ Floor \in Nat /\ co.stackTop >= Floor + (n + 1)
  BY InsFacts DEF Holds
<1>2. co.stackTop - 1 - n \in 0..co.stackTop - 1
  BY <1>1
<1>3. co.stack[co.stackTop - 1 - n] \in Value
  BY <1>2, LiveIsValue DEF Inv
<1> QED BY <1>1, <1>3 DEF Peek

\* The fetch.
LEMMA FetchStep ==
  ASSUME Inv, InVm, PcOk
  PROVE  /\ SameShape(co, Fetched) /\ CoOk(Fetched)
         /\ Fetched.stackTop = co.stackTop /\ Fetched.stack = co.stack
         /\ Fetched.stackCap = co.stackCap
         /\ Fetched.frames # <<>>
<1>1. CoOk(co) /\ co.frames # <<>> /\ Len(co.frames) \in Nat
  BY RunFacts DEF Inv
<1>2. Top.pc + 1 \in Int
  BY InsFacts
<1>3. Fetched = [co EXCEPT !.frames[Len(co.frames)].pc = Top.pc + 1]
  BY DEF Fetched, Top
<1>4. /\ SameShape(co, Fetched)
      /\ Fetched.stackTop = co.stackTop /\ Fetched.stack = co.stack
  BY <1>1, <1>2, <1>3, PcStep
<1>5. CoOk(Fetched) /\ Fetched.stackCap = co.stackCap /\ Len(Fetched.frames) = Len(co.frames)
  BY <1>4 DEF SameShape
<1>6. Fetched.frames # <<>>
  <2>1. Len(co.frames) \in 1..Len(co.frames)
    BY RunFacts
  <2>2. Fetched.frames \in Seq(Frame)
    BY <1>5, CoElim
  <2> QED BY <1>1, <1>5, <2>1, <2>2
<1> QED BY <1>4, <1>5, <1>6

LEMMA JumpStep ==
  ASSUME NEW c, CoOk(c), c.frames # <<>>, NEW off \in Int
  PROVE  SameShape(c, Jumped(c, off)) /\ Jumped(c, off).stackTop = c.stackTop
<1> DEFINE top == c.frames[Len(c.frames)]
           pc == IF top.pc + off < 0 THEN -1 ELSE top.pc + off
<1>1. c.frames \in Seq(Frame)
  BY CoElim
<1>2. top.pc \in Int
  <2>1. Len(c.frames) \in 1..Len(c.frames)
    BY <1>1
  <2>2. c.frames[Len(c.frames)] \in Frame
    BY <1>1, <2>1
  <2> QED BY <2>2 DEF Frame
<1>3. pc \in Int
  BY <1>2
<1>4. Jumped(c, off) = [c EXCEPT !.frames[Len(c.frames)].pc = pc]
  BY DEF Jumped
<1> HIDE DEF pc
<1> QED BY <1>3, <1>4, PcStep

\* Popping after the fetch.
LEMMA FetchPop ==
  ASSUME Inv, InVm, PcOk, NEW n \in Nat, n <= co.stackTop
  PROVE  /\ SameShape(co, Popped(Fetched, n)) /\ CoOk(Popped(Fetched, n))
         /\ Popped(Fetched, n).stackTop = co.stackTop - n
         /\ Popped(Fetched, n).stackCap = co.stackCap
         /\ Popped(Fetched, n).frames # <<>>
<1>1. /\ SameShape(co, Fetched) /\ CoOk(Fetched) /\ CoOk(co)
      /\ Fetched.stackTop = co.stackTop /\ Fetched.frames # <<>>
  BY FetchStep DEF Inv
<1>2. /\ SameShape(Fetched, Popped(Fetched, n))
      /\ Popped(Fetched, n).stackTop = co.stackTop - n
      /\ Popped(Fetched, n).frames = Fetched.frames
  BY <1>1, PopStep
<1>3. SameShape(co, Popped(Fetched, n))
  BY <1>1, <1>2, ShapeTrans
<1> QED BY <1>1, <1>2, <1>3 DEF SameShape

----------------------------------------------------------------------------
(* One lemma per action of the loop.                                        *)

LEMMA RunsDef ==
  ASSUME NEW ops, Runs(ops)
  PROVE  InVm /\ PcOk /\ Ins.op \in ops /\ ~Fault
BY DEF Runs, Executes

LEMMA ContainerValues ==
  ASSUME NEW n \in Nat
  PROVE  Val("list", n) \in Value /\ Val("dict", n) \in Value
BY DEF Val, Value

LEMMA StepPcOutside == Inv /\ ExecPcOutside => Inv'
BY InvFail DEF ExecPcOutside

LEMMA StepFault == Inv /\ ExecFault => Inv'
BY InvFail DEF ExecFault, Executes

LEMMA StepNop == Inv /\ ExecNop => Inv'
<1> SUFFICES ASSUME Inv, ExecNop PROVE Inv'
  OBVIOUS
<1>1. InVm /\ PcOk /\ Continue(Fetched)
  BY RunsDef DEF ExecNop
<1> QED BY <1>1, FetchStep, InvContinue

\* An instruction that pushes one value.
LEMMA InvPush ==
  ASSUME Inv, InVm, PcOk, CanPush, NEW v \in Value, Continue(PushedOn(Fetched, v))
  PROVE  Inv'
<1>1. /\ SameShape(co, Fetched) /\ CoOk(Fetched) /\ CoOk(co)
      /\ Fetched.stackTop = co.stackTop /\ Fetched.stackCap = co.stackCap
  BY FetchStep DEF Inv
<1>2. co.stackTop < co.stackCap
  BY InsFacts DEF CanPush
<1>3. SameShape(Fetched, PushedOn(Fetched, v))
  BY <1>1, <1>2, PushStep
<1>4. SameShape(co, PushedOn(Fetched, v))
  BY <1>1, <1>3, ShapeTrans
<1> QED BY <1>4, InvContinue

LEMMA StepLoadConst == Inv /\ ExecLoadConst => Inv'
<1> SUFFICES ASSUME Inv, ExecLoadConst PROVE Inv'
  OBVIOUS
<1>1. InVm /\ PcOk /\ Ins.op = "LOAD_CONST" /\ ~Fault /\ Continue(PushedOn(Fetched, Const))
  BY RunsDef DEF ExecLoadConst
<1>2. CanPush /\ ConstOk
  BY <1>1 DEF Fault
<1>3. Const \in Value
  <2>1. P.consts \in Seq(Value) /\ Ins.bx \in Int
    BY <1>1, InsFacts
  <2>2. Ins.bx + 1 \in 1..Len(P.consts)
    BY <1>2, <2>1 DEF ConstOk
  <2> QED BY <2>1, <2>2 DEF Const
<1> QED BY <1>1, <1>2, <1>3, InvPush

LEMMA StepLoadSingleton == Inv /\ ExecLoadSingleton => Inv'
<1> SUFFICES ASSUME Inv, ExecLoadSingleton PROVE Inv'
  OBVIOUS
<1> DEFINE v == IF Ins.op = "LOAD_NIL" THEN Nil ELSE Bool(Ins.op = "LOAD_TRUE")
<1>1. InVm /\ PcOk /\ Ins.op \in Singletons /\ ~Fault /\ Continue(PushedOn(Fetched, v))
  BY RunsDef DEF ExecLoadSingleton
<1>2. CanPush
  BY <1>1 DEF Fault
<1>3. v \in Value
  BY DEF Bool, Nil, Val, Value
<1> HIDE DEF v
<1> QED BY <1>1, <1>2, <1>3, InvPush

\* An operand that the loop has checked names a local.
LEMMA OperandLocal ==
  ASSUME Inv, InVm, PcOk, ~(Ins.a >= P.localCount)
  PROVE  Ins.a \in 0..P.localCount - 1
<1>1. Ins.a \in 0..255 /\ P.localCount \in Int
  BY InsFacts
<1>2. Ins.a \in Int /\ 0 <= Ins.a
  BY <1>1
<1> QED BY <1>1, <1>2

LEMMA StepMove == Inv /\ ExecMove => Inv'
<1> SUFFICES ASSUME Inv, ExecMove PROVE Inv'
  OBVIOUS
<1> DEFINE i == Top.base + Ins.a
           v == co.stack[Top.base + Ins.bx]
<1>1. /\ InVm /\ PcOk /\ Ins.op = "MOVE" /\ ~Fault
      /\ Continue([Fetched EXCEPT !.stack[i] = v])
  BY RunsDef DEF ExecMove
<1>2. Ins.a \in 0..P.localCount - 1 /\ Ins.bx \in 0..P.localCount - 1
  <2>1. ~(Ins.a >= P.localCount) /\ Ins.bx \in 0..P.localCount - 1
    BY <1>1 DEF Fault
  <2> QED BY <1>1, <2>1, OperandLocal
<1>3. i \in 0..co.stackCap - 1 /\ v \in Value
  BY <1>1, <1>2, LocalFacts
<1>4. /\ SameShape(co, Fetched) /\ CoOk(Fetched) /\ CoOk(co) /\ Fetched.stackCap = co.stackCap
  BY <1>1, FetchStep DEF Inv
<1> HIDE DEF i, v
<1>5. SameShape(Fetched, [Fetched EXCEPT !.stack[i] = v])
  BY <1>3, <1>4, SlotStep
<1>6. SameShape(co, [Fetched EXCEPT !.stack[i] = v])
  BY <1>4, <1>5, ShapeTrans
<1> QED BY <1>1, <1>6, InvContinue

LEMMA StepLoadLocal == Inv /\ ExecLoadLocal => Inv'
<1> SUFFICES ASSUME Inv, ExecLoadLocal PROVE Inv'
  OBVIOUS
<1>1. /\ InVm /\ PcOk /\ Ins.op = "LOAD_LOCAL" /\ ~Fault
      /\ Continue(PushedOn(Fetched, co.stack[Top.base + Ins.a]))
  BY RunsDef DEF ExecLoadLocal
<1>2. CanPush /\ ~(Ins.a >= P.localCount)
  BY <1>1 DEF Fault
<1>3. Ins.a \in 0..P.localCount - 1
  BY <1>1, <1>2, OperandLocal
<1>4. co.stack[Top.base + Ins.a] \in Value
  BY <1>1, <1>3, LocalFacts
<1> QED BY <1>1, <1>2, <1>4, InvPush

LEMMA StepStoreLocal == Inv /\ ExecStoreLocal => Inv'
<1> SUFFICES ASSUME Inv, ExecStoreLocal PROVE Inv'
  OBVIOUS
<1> DEFINE i == Top.base + Ins.a
           v == Peek(0)
           c == Popped(Fetched, 1)
<1>1. /\ InVm /\ PcOk /\ Ins.op = "STORE_LOCAL" /\ ~Fault
      /\ Continue([c EXCEPT !.stack[i] = v])
  BY RunsDef DEF ExecStoreLocal
<1>2. Holds(0 + 1) /\ ~(Ins.a >= P.localCount)
  BY <1>1 DEF Fault
<1>3. Ins.a \in 0..P.localCount - 1
  BY <1>1, <1>2, OperandLocal
<1>4. i \in 0..co.stackCap - 1
  BY <1>1, <1>3, LocalFacts
<1>5. v \in Value /\ 1 <= co.stackTop
  BY <1>1, <1>2, PeekFacts
<1>6. SameShape(co, c) /\ CoOk(c) /\ c.stackCap = co.stackCap /\ CoOk(co)
  BY <1>1, <1>5, FetchPop DEF Inv
<1> HIDE DEF i, v, c
<1>7. SameShape(c, [c EXCEPT !.stack[i] = v])
  BY <1>4, <1>5, <1>6, SlotStep
<1>8. SameShape(co, [c EXCEPT !.stack[i] = v])
  BY <1>6, <1>7, ShapeTrans
<1> QED BY <1>1, <1>8, InvContinue

LEMMA StepLoadGlobal == Inv /\ ExecLoadGlobal => Inv'
<1> SUFFICES ASSUME Inv, ExecLoadGlobal PROVE Inv'
  OBVIOUS
<1>1. InVm /\ PcOk /\ Ins.op = "LOAD_GLOBAL" /\ ~Fault
  BY RunsDef DEF ExecLoadGlobal
<1>2. CanPush
  BY <1>1 DEF Fault
<1>3. CASE Const.n \in DOMAIN globals
  <2>1. Continue(PushedOn(Fetched, globals[Const.n]))
    BY <1>3 DEF ExecLoadGlobal
  <2>2. globals[Const.n] \in Value
    BY <1>3 DEF Inv, GlobalsOk
  <2> QED BY <1>1, <1>2, <2>1, <2>2, InvPush
<1>4. CASE Const.n \notin DOMAIN globals
  <2>1. Fail
    BY <1>4 DEF ExecLoadGlobal
  <2> QED BY <1>1, <2>1, InvFail
<1> QED BY <1>3, <1>4

LEMMA StepStoreGlobal == Inv /\ ExecStoreGlobal => Inv'
<1> SUFFICES ASSUME Inv, ExecStoreGlobal PROVE Inv'
  OBVIOUS
<1>1. InVm /\ PcOk /\ Ins.op = "STORE_GLOBAL" /\ ~Fault
  BY RunsDef DEF ExecStoreGlobal
<1>2. Holds(0 + 1) /\ ConstOk /\ Const.tag = "str"
  BY <1>1 DEF Fault
<1>3. Peek(0) \in Value /\ 1 <= co.stackTop
  BY <1>1, <1>2, PeekFacts
<1>4. CASE Unwind(Len(acts), co, "oom")
  <2>1. CoOk(co) /\ Extends(co, co) /\ HasFrames(co, co)
    BY ExtendsRefl DEF Inv
  <2>2. Len(acts) \in 1..Len(acts) /\ acts[Len(acts)].type = "run"
    BY <1>1, RunFacts DEF Act
  <2> QED BY <1>4, <2>1, <2>2, InvUnwind
<1>5. CASE /\ co' = Popped(Fetched, 1)
           /\ globals' = [name \in DOMAIN globals \cup {Const.n} |->
                            IF name = Const.n THEN Peek(0) ELSE globals[name]]
           /\ UNCHANGED <<acts, err, ret>>
  <2>1. CoOk(co) /\ GlobalsOk(globals) /\ ErrOk(err) /\ RetOk(ret)
    BY DEF Inv
  <2>2. SameShape(co, Popped(Fetched, 1))
    BY <1>1, <1>3, FetchPop
  <2>3. Const.n \in Nat
    <3>1. P.consts \in Seq(Value) /\ Ins.bx \in Int
      BY <1>1, InsFacts
    <3>2. Ins.bx + 1 \in 1..Len(P.consts)
      BY <1>2, <3>1 DEF ConstOk
    <3>3. Const \in Value
      BY <3>1, <3>2 DEF Const
    <3> QED BY <1>2, <3>3, ProtoAssumption DEF Value
  <2>4. GlobalsOk(globals')
    BY <1>3, <1>5, <2>1, <2>3 DEF GlobalsOk
  <2>5. CoOk(Popped(Fetched, 1)) /\ Extends(co, Popped(Fetched, 1)) /\ HasFrames(co, Popped(Fetched, 1))
    BY <2>1, <2>2, ShapeFrames
  <2> QED BY <1>1, <1>5, <2>1, <2>4, <2>5, InvKeepActs
<1> QED BY <1>4, <1>5 DEF ExecStoreGlobal

\* The room that the operands leave behind.
LEMMA ProduceStep ==
  ASSUME Inv, InVm, PcOk, NEW n \in Nat \ {0}, Holds(n), NEW v \in Value,
         Produce(Popped(Fetched, n), v)
  PROVE  Inv'
<1>1. /\ co.stackTop \in Nat /\ Floor \in Nat /\ co.stackTop >= Floor + n
      /\ co.stackTop <= co.stackCap /\ co.stackCap \in Nat
  BY InsFacts DEF Holds
<1>2. n <= co.stackTop /\ co.stackTop - n < co.stackCap
  BY <1>1
<1>3. /\ SameShape(co, Popped(Fetched, n)) /\ Popped(Fetched, n).stackTop = co.stackTop - n
      /\ Popped(Fetched, n).stackCap = co.stackCap
  BY <1>2, FetchPop
<1> QED BY <1>2, <1>3, InvProduce

LEMMA StepOperator == Inv /\ ExecOperator => Inv'
<1> SUFFICES ASSUME Inv, ExecOperator PROVE Inv'
  OBVIOUS
<1>1. InVm /\ PcOk /\ Ins.op \in {"BINARY", "UNARY"} /\ ~Fault
  BY RunsDef DEF ExecOperator
<1>2. PICK v \in Results : Produce(Popped(Fetched, Pops(Ins)), v)
  BY DEF ExecOperator
<1>3. v \in Value
  BY ValueAssumption
<1>4. Pops(Ins) \in Nat \ {0} /\ Holds(Pops(Ins))
  <2>1. CASE Ins.op = "BINARY"
    <3>1. Pops(Ins) = 2
      BY <2>1 DEF Pops, CondJumps, Builds
    <3>2. Holds(2)
      BY <1>1, <2>1 DEF Fault
    <3> QED BY <3>1, <3>2
  <2>2. CASE Ins.op = "UNARY"
    <3>1. Pops(Ins) = 1
      BY <2>2 DEF Pops, CondJumps, Builds
    <3>2. Holds(1)
      BY <1>1, <2>2 DEF Fault
    <3> QED BY <3>1, <3>2
  <2> QED BY <1>1, <2>1, <2>2
<1> QED BY <1>1, <1>2, <1>3, <1>4, ProduceStep

LEMMA BoolValue ==
  ASSUME NEW b \in BOOLEAN
  PROVE  Bool(b) \in Value
BY DEF Bool, Val, Value

LEMMA StepCompare == Inv /\ ExecCompare => Inv'
<1> SUFFICES ASSUME Inv, ExecCompare PROVE Inv'
  OBVIOUS
<1>1. InVm /\ PcOk /\ Ins.op = "COMPARE" /\ ~Fault
  BY RunsDef DEF ExecCompare
<1>2. PICK b \in BOOLEAN : Produce(Popped(Fetched, 2), Bool(b))
  BY DEF ExecCompare
<1>3. Bool(b) \in Value /\ Holds(2) /\ 2 \in Nat \ {0}
  BY <1>1, BoolValue DEF Fault
<1> QED BY <1>1, <1>2, <1>3, ProduceStep

\* A jump after the fetch and n values popped.
LEMMA JumpPopped ==
  ASSUME Inv, InVm, PcOk, NEW n \in Nat, n <= co.stackTop
  PROVE  /\ SameShape(co, Jumped(Popped(Fetched, n), Ins.bx))
         /\ Jumped(Popped(Fetched, n), Ins.bx).stackTop = co.stackTop - n
         /\ Jumped(Popped(Fetched, n), Ins.bx).stackCap = co.stackCap
<1> DEFINE c == Popped(Fetched, n)
           d == Jumped(c, Ins.bx)
<1>1. CoOk(co) /\ Ins.bx \in Int
  BY InsFacts DEF Inv
<1>2. /\ SameShape(co, c) /\ CoOk(c) /\ c.stackTop = co.stackTop - n
      /\ c.stackCap = co.stackCap /\ c.frames # <<>>
  BY FetchPop
<1> HIDE DEF c
<1>3. SameShape(c, d) /\ d.stackTop = c.stackTop
  BY <1>1, <1>2, JumpStep
<1>4. SameShape(co, d)
  BY <1>1, <1>2, <1>3, ShapeTrans
<1>5. d.stackTop = co.stackTop - n /\ d.stackCap = co.stackCap
  BY <1>2, <1>3 DEF SameShape
<1> QED BY <1>4, <1>5 DEF c

LEMMA StepCmpChain == Inv /\ ExecCmpChain => Inv'
<1> SUFFICES ASSUME Inv, ExecCmpChain PROVE Inv'
  OBVIOUS
<1>1. InVm /\ PcOk /\ Ins.op = "CMP_CHAIN" /\ ~Fault
  BY RunsDef DEF ExecCmpChain
<1>2. Holds(2) /\ 2 \in Nat \ {0}
  BY <1>1 DEF Fault
<1>3. /\ co.stackTop \in Nat /\ Floor \in Nat /\ co.stackTop >= Floor + 2
      /\ co.stackTop <= co.stackCap /\ co.stackCap \in Nat
  BY <1>1, <1>2, InsFacts DEF Holds
<1>4. CASE Produce(Popped(Fetched, 2), Peek(0))
  <2>1. Holds(0 + 1)
    BY <1>3 DEF Holds
  <2>2. Peek(0) \in Value
    BY <1>1, <2>1, PeekFacts
  <2> QED BY <1>1, <1>2, <1>4, <2>2, ProduceStep
<1>5. CASE Produce(Jumped(Popped(Fetched, 2), Ins.bx), Bool(FALSE))
  <2> DEFINE d == Jumped(Popped(Fetched, 2), Ins.bx)
  <2>1. 2 <= co.stackTop /\ co.stackTop - 2 < co.stackCap
    BY <1>3
  <2>2. SameShape(co, d) /\ d.stackTop = co.stackTop - 2 /\ d.stackCap = co.stackCap
    BY <1>1, <1>2, <2>1, JumpPopped
  <2>3. Bool(FALSE) \in Value
    BY BoolValue
  <2> HIDE DEF d
  <2> QED BY <1>1, <1>5, <2>1, <2>2, <2>3, InvProduce DEF d
<1> QED BY <1>4, <1>5 DEF ExecCmpChain

LEMMA StepJump == Inv /\ ExecJump => Inv'
<1> SUFFICES ASSUME Inv, ExecJump PROVE Inv'
  OBVIOUS
<1>1. InVm /\ PcOk /\ Continue(Jumped(Fetched, Ins.bx))
  BY RunsDef DEF ExecJump
<1>2. CoOk(co) /\ Ins.bx \in Int
  BY <1>1, InsFacts DEF Inv
<1>3. SameShape(co, Fetched) /\ CoOk(Fetched) /\ Fetched.frames # <<>>
  BY <1>1, FetchStep
<1>4. SameShape(Fetched, Jumped(Fetched, Ins.bx))
  BY <1>2, <1>3, JumpStep
<1>5. SameShape(co, Jumped(Fetched, Ins.bx))
  BY <1>2, <1>3, <1>4, ShapeTrans
<1> QED BY <1>1, <1>5, InvContinue

LEMMA StepCondJump == Inv /\ ExecCondJump => Inv'
<1> SUFFICES ASSUME Inv, ExecCondJump PROVE Inv'
  OBVIOUS
<1> DEFINE next == Popped(Fetched, 1)
           far == Jumped(next, Ins.bx)
<1>1. InVm /\ PcOk /\ Ins.op \in CondJumps /\ ~Fault
  BY RunsDef DEF ExecCondJump
<1>2. Continue(far) \/ Continue(next)
  BY DEF ExecCondJump
<1>3. Holds(0 + 1)
  BY <1>1 DEF Fault
<1>4. 1 <= co.stackTop /\ 1 \in Nat
  BY <1>1, <1>3, PeekFacts
<1>5. SameShape(co, next) /\ SameShape(co, far)
  BY <1>1, <1>4, FetchPop, JumpPopped
<1> HIDE DEF next, far
<1> QED BY <1>1, <1>2, <1>5, InvContinue

LEMMA StepBuild == Inv /\ ExecBuild => Inv'
<1> SUFFICES ASSUME Inv, ExecBuild PROVE Inv'
  OBVIOUS
<1> DEFINE m == BuildCount(Ins)
<1>1. InVm /\ PcOk /\ Ins.op \in Builds /\ ~Fault
  BY RunsDef DEF ExecBuild
<1>2. Ins.a \in 0..255
  BY <1>1, InsFacts
<1>3. m \in Nat
  BY <1>2 DEF BuildCount
<1>4. Holds(m) /\ (m = 0 => CanPush)
  BY <1>1 DEF Fault
<1>5. PICK n \in (IF Ins.op = "BUILD_LIST" THEN {Ins.a} ELSE 0..Ins.a) :
        Produce(Popped(Fetched, m), Val(IF Ins.op = "BUILD_LIST" THEN "list" ELSE "dict", n))
  BY DEF ExecBuild
<1> DEFINE v == Val(IF Ins.op = "BUILD_LIST" THEN "list" ELSE "dict", n)
<1>6. v \in Value
  <2>1. n \in Nat
    BY <1>2, <1>5
  <2> QED BY <2>1, ContainerValues
<1> HIDE DEF m, v
<1>7. CASE m # 0
  BY <1>1, <1>3, <1>4, <1>5, <1>6, <1>7, ProduceStep DEF v
<1>8. CASE m = 0
  <2>1. co.stackTop < WindowEnd /\ WindowEnd \in Nat /\ WindowEnd <= co.stackCap
        /\ co.stackTop \in Nat /\ co.stackCap \in Nat
    BY <1>1, <1>4, <1>8, InsFacts DEF CanPush
  <2>2. m <= co.stackTop /\ co.stackTop - m < co.stackCap
    BY <1>8, <2>1
  <2>3. /\ SameShape(co, Popped(Fetched, m)) /\ Popped(Fetched, m).stackTop = co.stackTop - m
        /\ Popped(Fetched, m).stackCap = co.stackCap
    BY <1>1, <1>3, <2>2, FetchPop
  <2> QED BY <1>1, <1>5, <1>6, <2>2, <2>3, InvProduce DEF v
<1> QED BY <1>7, <1>8

LEMMA ValueNumber ==
  ASSUME NEW v \in Value
  PROVE  v.n \in Nat
BY ProtoAssumption DEF Value

LEMMA StepUnpack == Inv /\ ExecUnpack => Inv'
<1> SUFFICES ASSUME Inv, ExecUnpack PROVE Inv'
  OBVIOUS
<1> DEFINE list == Peek(0)
           star == Ins.bx # NoStar
           fits == /\ list.tag = "list"
                   /\ IF star THEN list.n >= Ins.a - 1 ELSE list.n = Ins.a
           target(f) == [i \in 0..Ins.a - 1 |->
                           IF i = Ins.bx THEN Val("list", list.n - (Ins.a - 1)) ELSE f[i]]
<1>1. InVm /\ PcOk /\ Ins.op = "UNPACK" /\ ~Fault
  <2>1. Runs({"UNPACK"})
    BY DEF ExecUnpack
  <2> QED BY <2>1, RunsDef
<1>2. /\ Holds(0 + 1) /\ ~(Ins.a < 1)
      /\ Ins.bx # NoStar => Ins.bx \in 0..Ins.a - 1
      /\ ~(co.stackTop - 1 + Ins.a >= WindowEnd)
  BY <1>1 DEF Fault
<1>3. Ins.a \in 0..255 /\ Ins.bx \in Int /\ co.stackTop \in Nat /\ WindowEnd \in Nat
      /\ WindowEnd <= co.stackCap /\ co.stackCap \in Nat
  BY <1>1, InsFacts
<1>4. Ins.a \in Nat \ {0}
  BY <1>2, <1>3
<1>5. list \in Value /\ 1 <= co.stackTop
  BY <1>1, <1>2, PeekFacts
<1>6. CASE Fail
  BY <1>1, <1>6, InvFail
<1>7. CASE fits /\ \E f \in [0..Ins.a - 1 -> Results] : Continue(Unpacked(Fetched, target(f), Ins.a))
  <2>1. PICK f \in [0..Ins.a - 1 -> Results] : Continue(Unpacked(Fetched, target(f), Ins.a))
    BY <1>7
  <2> DEFINE t == target(f)
  <2>2. list.n \in Nat
    BY <1>5, ValueNumber
  <2>3. \A i \in 0..Ins.a - 1 : i = Ins.bx => Val("list", list.n - (Ins.a - 1)) \in Value
    <3> SUFFICES ASSUME NEW i \in 0..Ins.a - 1, i = Ins.bx
                 PROVE  Val("list", list.n - (Ins.a - 1)) \in Value
      OBVIOUS
    <3>1. star
      <4> DEFINE a == Ins.a
      <4>1. a \in 0..255 /\ i \in 0..a - 1
        BY <1>3
      <4> HIDE DEF a
      <4>2. i # 65535
        BY <4>1
      <4> QED BY <4>2 DEF NoStar
    <3>2. list.n >= Ins.a - 1
      BY <1>7, <3>1
    <3>3. list.n - (Ins.a - 1) \in Nat
      BY <1>4, <2>2, <3>2
    <3> QED BY <3>3, ContainerValues
  <2>4. \A i \in 0..Ins.a - 1 : t[i] \in Value
    BY <2>1, <2>3, ValueAssumption
  <2>5. /\ CoOk(co) /\ SameShape(co, Fetched) /\ CoOk(Fetched)
        /\ Fetched.stackTop = co.stackTop /\ Fetched.stackCap = co.stackCap
    BY <1>1, FetchStep DEF Inv
  <2>6. 1 <= co.stackTop /\ co.stackTop - 1 + Ins.a <= co.stackCap
    <3> DEFINE top == co.stackTop
               a == Ins.a
               end == WindowEnd
               cap == co.stackCap
    <3>1. top \in Nat /\ a \in Nat /\ end \in Nat /\ cap \in Nat /\ end <= cap
          /\ ~(top - 1 + a >= end)
      BY <1>2, <1>3, <1>4
    <3> HIDE DEF top, a, end, cap
    <3>2. top - 1 + a <= cap
      BY <3>1
    <3> QED BY <1>5, <3>2 DEF top, a, cap
  <2> HIDE DEF t
  <2>7. SameShape(Fetched, Unpacked(Fetched, t, Ins.a))
    BY <1>4, <2>4, <2>5, <2>6, UnpackStep
  <2>8. SameShape(co, Unpacked(Fetched, t, Ins.a))
    BY <2>5, <2>7, ShapeTrans
  <2> QED BY <1>1, <2>1, <2>8, InvContinue DEF t
<1> QED BY <1>6, <1>7 DEF ExecUnpack

\* An error that follows the fetch, or a failed push of a frame.
LEMMA StepCallRefused == Inv /\ ExecCallRefused => Inv'
BY RunsDef, InvFail DEF ExecCallRefused

LEMMA CallFacts ==
  ASSUME Inv, InVm, PcOk, Ins.op = "CALL", ~Fault
  PROVE  /\ Ins.a \in Nat /\ Base \in Nat /\ Base >= 1 /\ Base + Ins.a = co.stackTop
         /\ Callee \in Value
<1>1. Ins.a \in 0..255 /\ co.stackTop \in Nat /\ co.stackTop <= co.stackCap
  BY InsFacts
<1>2. ~(co.stackTop - Ins.a < 1)
  BY DEF Fault
<1>3. Ins.a \in Nat /\ Base \in Nat /\ Base >= 1 /\ Base + Ins.a = co.stackTop
      /\ Base - 1 \in 0..co.stackTop - 1
  <2> DEFINE a == Ins.a
             top == co.stackTop
  <2>1. a \in 0..255 /\ top \in Nat /\ ~(top - a < 1) /\ Base = top - a
    BY <1>1, <1>2 DEF Base
  <2> HIDE DEF a, top
  <2>2. a \in Nat /\ Base \in Nat /\ Base >= 1 /\ Base + a = top /\ Base - 1 \in 0..top - 1
    BY <2>1
  <2> QED BY <2>2 DEF a, top
<1>4. Callee \in Value
  BY <1>3, LiveIsValue DEF Callee, Inv
<1> QED BY <1>3, <1>4

\* Pushing a frame leaves all frames below it.
LEMMA AppendFrames ==
  ASSUME NEW c, CoOk(c), NEW d, NEW f, d.frames = Append(c.frames, f)
  PROVE  /\ HasFrames(c, d) /\ Len(d.frames) = Len(c.frames) + 1
         /\ d.frames[Len(c.frames) + 1] = f
<1>1. c.frames \in Seq(Frame)
  BY CoElim
<1>2. /\ Len(d.frames) = Len(c.frames) + 1 /\ d.frames[Len(c.frames) + 1] = f
      /\ \A k \in 1..Len(c.frames) : d.frames[k] = c.frames[k]
      /\ Len(c.frames) \in Nat
  BY <1>1
<1> QED BY <1>2 DEF HasFrames

LEMMA HasFramesTrans ==
  ASSUME NEW b, NEW c, NEW d, CoOk(b), CoOk(c), CoOk(d), HasFrames(b, c), HasFrames(c, d)
  PROVE  HasFrames(b, d)
<1>1. Len(b.frames) \in Nat /\ Len(c.frames) \in Nat /\ Len(d.frames) \in Nat
  BY CoElim
<1>2. Len(b.frames) <= Len(d.frames) /\ \A k \in 1..Len(b.frames) : k \in 1..Len(c.frames)
  BY <1>1 DEF HasFrames
<1> QED BY <1>2 DEF HasFrames

LEMMA PushFrames ==
  ASSUME NEW c, CoOk(c), NEW id \in DOMAIN Proto, NEW argc \in Nat, NEW inPlace \in BOOLEAN,
         NEW base \in Int, NEW argv,
         ~inPlace => base = c.stackTop + 1 /\ ArgsOk(c, argc, argv),
         NEW o \in PushFrameAt(c, id, argc, inPlace, base, argv)
  PROVE  HasFrames(c, o.co)
<1>1. /\ o.res = "ok" => o.co.frames = Append(c.frames, NewFrame(id, base))
      /\ o.res # "ok" => o.co.frames = c.frames
  BY PushFrameSafe
<1>2. CASE o.res = "ok"
  BY <1>1, <1>2, AppendFrames
<1>3. CASE o.res # "ok"
  BY <1>1, <1>3, ExtendsRefl DEF HasFrames
<1> QED BY <1>2, <1>3

LEMMA StepCallScript == Inv /\ ExecCallScript => Inv'
<1> SUFFICES ASSUME Inv, ExecCallScript PROVE Inv'
  OBVIOUS
<1>1. InVm /\ PcOk /\ Ins.op = "CALL" /\ ~Fault /\ Callee.tag = "fn"
  BY RunsDef DEF ExecCallScript
<1>2. PICK o \in PushFrameAt(Fetched, Callee.n, Ins.a, TRUE, Base, HeapArgs(<<>>)) :
        IF o.res = "ok" THEN Continue(o.co)
        ELSE \E r \in Raised(o.res) : Unwind(Len(acts), o.co, r)
  BY DEF ExecCallScript
<1>3. Callee.n \in DOMAIN Proto
  <2>1. Callee \in Value
    BY <1>1, CallFacts
  <2> QED BY <1>1, <2>1 DEF Value
<1>4. Ins.a \in Nat /\ Base \in Int
  BY <1>1, CallFacts
<1>5. /\ CoOk(co) /\ GlobalsOk(globals) /\ ErrOk(err) /\ RetOk(ret)
  BY DEF Inv
<1>6. SameShape(co, Fetched) /\ CoOk(Fetched)
  BY <1>1, FetchStep
<1>7. Extends(co, Fetched) /\ HasFrames(co, Fetched)
  BY <1>5, <1>6, ShapeFrames
<1>8. CoOk(o.co) /\ Extends(Fetched, o.co) /\ o.res \in Status
  BY <1>2, <1>3, <1>4, <1>6, PushFrameSafe
<1>9. HasFrames(Fetched, o.co)
  BY <1>2, <1>3, <1>4, <1>6, PushFrames
<1>10. Extends(co, o.co) /\ HasFrames(co, o.co)
  BY <1>5, <1>6, <1>7, <1>8, <1>9, ExtendsTrans, HasFramesTrans
<1>11. CASE o.res = "ok"
  <2>1. co' = o.co /\ acts' = acts /\ globals' = globals /\ err' = err /\ ret' = ret
    BY <1>2, <1>11 DEF Continue
  <2> QED BY <1>1, <1>5, <1>8, <1>10, <2>1, InvKeepActs
<1>12. CASE o.res # "ok"
  <2>1. PICK r \in {"runtime", "oom"} : Unwind(Len(acts), o.co, r)
    BY <1>2, <1>12 DEF Raised
  <2>2. Len(acts) \in 1..Len(acts) /\ acts[Len(acts)].type = "run"
    BY <1>1, RunFacts DEF Act
  <2> QED BY <1>8, <1>10, <2>1, <2>2, InvUnwind
<1> QED BY <1>11, <1>12

\* One more activation, the coroutine keeping its frames.
LEMMA InvPlusAct ==
  ASSUME Inv, NEW d, CoOk(d), ActsOk(d, acts), NEW a \in RunAct \cup NativeAct,
         a.type = "run" => /\ RunOk(d, a)
                           /\ \A k \in 1..Len(acts) : acts[k].type = "run" => acts[k].stopAt < a.stopAt,
         a.type = "native" => /\ Len(acts) > 0 /\ acts[Len(acts)].type = "run" /\ a.base >= 1
                              /\ a.base + a.argc <= d.stackTop,
         Len(acts) > 0 /\ acts[Len(acts)].type = "native" =>
           a.type = "run" /\ a.call /\ acts[Len(acts)].base + acts[Len(acts)].argc <= a.top,
         co' = d, acts' = Append(acts, a), GlobalsOk(globals'), ErrOk(err'), RetOk(ret')
  PROVE  Inv'
<1>1. acts \in Acts
  BY DEF Inv
<1>2. Append(acts, a) \in Acts /\ ActsOk(d, Append(acts, a))
  BY <1>1, ActsAppend
<1> QED BY <1>2 DEF Inv

LEMMA StepCallNative == Inv /\ ExecCallNative => Inv'
<1> SUFFICES ASSUME Inv, ExecCallNative PROVE Inv'
  OBVIOUS
<1> DEFINE a == [type |-> "native", argc |-> Ins.a, base |-> Base, cap |-> co.stackCap]
<1>1. InVm /\ PcOk /\ Ins.op = "CALL" /\ ~Fault
  BY RunsDef DEF ExecCallNative
<1>2. /\ co' = Fetched /\ acts' = Append(acts, a)
      /\ globals' = globals /\ err' = err /\ ret' = ret
  BY DEF ExecCallNative
<1>3. /\ CoOk(co) /\ acts \in Acts /\ ActsOk(co, acts)
      /\ GlobalsOk(globals) /\ ErrOk(err) /\ RetOk(ret)
  BY DEF Inv
<1>4. SameShape(co, Fetched) /\ CoOk(Fetched) /\ Fetched.stackTop = co.stackTop
  BY <1>1, FetchStep
<1>5. Extends(co, Fetched) /\ HasFrames(co, Fetched)
  BY <1>3, <1>4, ShapeFrames
<1>6. acts # <<>> /\ acts[Len(acts)].type = "run" /\ Len(acts) \in Nat /\ Len(acts) > 0
  <2>1. Len(acts) \in 1..Len(acts) /\ Len(acts) \in Nat
    BY <1>1, RunFacts
  <2> QED BY <1>1, <2>1 DEF InVm, Act
<1>7. ActsOk(Fetched, acts)
  <2>1. TopOk(Fetched, acts, Len(acts))
    BY <1>6 DEF TopOk
  <2>2. /\ Len(co.frames) <= Len(Fetched.frames)
        /\ \A k \in 1..Len(co.frames) : Fetched.frames[k].base = co.frames[k].base
    BY <1>5 DEF HasFrames
  <2> QED BY <1>3, <1>4, <1>5, <2>1, <2>2, ActsAll
<1>8. Ins.a \in Nat /\ Base \in Nat /\ Base >= 1 /\ Base + Ins.a = co.stackTop
      /\ co.stackCap \in Nat /\ co.stackTop \in Nat
  BY <1>1, CallFacts, InsFacts
<1>9. a \in NativeAct /\ a.type = "native" /\ a.base = Base /\ a.argc = Ins.a
  BY <1>8 DEF NativeAct
<1> HIDE DEF a
<1>10. a.base >= 1 /\ a.base + a.argc <= Fetched.stackTop
  BY <1>4, <1>8, <1>9
<1> QED BY <1>2, <1>3, <1>4, <1>6, <1>7, <1>9, <1>10, InvPlusAct

\* RETURN, and what it leaves where it is the last step of a run.
LEMMA ReturnFacts ==
  ASSUME Inv, InVm, PcOk, Holds(1), NEW c,
         c = PushedOn(Cut(co, Len(co.frames) - 1, Top.base - 1), Peek(0))
  PROVE  /\ CoOk(c) /\ Extends(co, c) /\ Len(c.frames) = Len(co.frames) - 1
         /\ \A k \in 1..Len(co.frames) - 1 : c.frames[k] = co.frames[k]
         /\ c.stackTop = Top.base
         /\ c.stack = [co.stack EXCEPT ![Top.base - 1] = Peek(0)]
         /\ Peek(0) \in Value
<1> DEFINE left == Len(co.frames) - 1
           top == Top.base - 1
           d == Cut(co, left, top)
<1>1. CoOk(co) /\ Len(co.frames) \in Nat /\ left \in 0..Len(co.frames)
  <2>1. Len(co.frames) \in 1..Len(co.frames) /\ CoOk(co)
    BY RunFacts DEF Inv
  <2> QED BY <2>1
<1>2. /\ Top.base \in Nat /\ Top.base >= 1 /\ Floor \in Nat /\ co.stackTop >= Floor + 1
      /\ Top.base <= Floor /\ co.stackTop \in Nat /\ co.stackTop <= co.stackCap
      /\ co.stackCap \in Nat
  <2>1. /\ Top.base \in Nat /\ Top.base >= 1 /\ Floor \in Nat /\ 0 <= P.localCount
        /\ P.localCount \in Int /\ Floor = Top.base + P.localCount
        /\ co.stackTop \in Nat /\ co.stackTop <= co.stackCap /\ co.stackCap \in Nat
    BY InsFacts
  <2>2. Top.base <= Floor
    BY <2>1
  <2> QED BY <2>1, <2>2 DEF Holds
<1>3. top \in Nat /\ top <= co.stackCap /\ top < co.stackTop /\ top < co.stackCap
      /\ top + 1 = Top.base
  BY <1>2
<1>4. LiveBelow(co, top)
  <2>1. \A i \in 0..top - 1 : i \in 0..co.stackTop - 1
    BY <1>2, <1>3
  <2>2. \A i \in 0..co.stackTop - 1 : co.stack[i] # Junk
    BY <1>1, CoElim
  <2> QED BY <2>1, <2>2 DEF LiveBelow
<1>5. Peek(0) \in Value
  <2>1. Holds(0 + 1)
    OBVIOUS
  <2> QED BY <2>1, PeekFacts
<1> HIDE DEF left, top
<1>6. /\ CoOk(d) /\ Extends(co, d) /\ Len(d.frames) = left
      /\ \A k \in 1..left : d.frames[k] = co.frames[k]
      /\ d.stackTop = top /\ d.stackCap = co.stackCap /\ d.stack = co.stack
  BY <1>1, <1>3, <1>4, CutSafe
<1>7. c = PushedOn(d, Peek(0))
  BY DEF left, top
<1> HIDE DEF d
<1>8. /\ SameShape(d, c) /\ c.stackTop = top + 1 /\ c.frames = d.frames
      /\ c.stack = [d.stack EXCEPT ![d.stackTop] = Peek(0)]
  BY <1>3, <1>5, <1>6, <1>7, PushStep
<1>9. CoOk(c) /\ Extends(co, c)
  <2>1. CoOk(c) /\ Extends(d, c)
    BY <1>6, <1>8, ShapeFrames
  <2> QED BY <1>1, <1>6, <2>1, ExtendsTrans
<1>10. /\ Len(c.frames) = left /\ \A k \in 1..left : c.frames[k] = co.frames[k]
       /\ c.stackTop = Top.base /\ c.stack = [co.stack EXCEPT ![top] = Peek(0)]
  BY <1>3, <1>6, <1>8
<1> QED BY <1>5, <1>9, <1>10 DEF left, top

LEMMA ReturnRoom ==
  ASSUME Inv, InVm, PcOk
  PROVE  Top.base <= co.stackCap /\ co.stackCap \in Nat
<1>1. /\ Top.base \in Nat /\ Floor \in Nat /\ 0 <= P.localCount /\ P.localCount \in Int
      /\ Floor = Top.base + P.localCount /\ Floor <= WindowEnd /\ WindowEnd <= co.stackCap
      /\ WindowEnd \in Nat /\ co.stackCap \in Nat
  BY InsFacts
<1>2. Top.base <= Floor /\ Floor <= co.stackCap
  BY <1>1
<1> QED BY <1>1, <1>2

\* The runs below keep their frames when the top one goes.
LEMMA CoversFewer ==
  ASSUME Inv, NEW d, NEW n \in 0..Len(acts), NEW left \in Nat, Len(d.frames) = left,
         \A k \in 1..left : d.frames[k] = co.frames[k],
         \A k \in 1..n : acts[k].type = "run" => acts[k].stopAt < left
  PROVE  Covers(co, d, acts, n)
<1> SUFFICES ASSUME NEW k \in 1..n, acts[k].type = "run"
             PROVE  /\ acts[k].stopAt < Len(d.frames)
                    /\ d.frames[acts[k].stopAt + 1].base = co.frames[acts[k].stopAt + 1].base
  BY DEF Covers
<1>1. Len(acts) \in Nat /\ \A j \in 1..Len(acts) : acts[j] \in RunAct \cup NativeAct
  BY ActsTyped DEF Inv
<1>2. k \in 1..Len(acts)
  BY <1>1
<1> DEFINE stop == acts[k].stopAt
<1>3. stop \in Nat /\ stop < left
  BY <1>1, <1>2, ActFields
<1> HIDE DEF stop
<1>4. stop + 1 \in 1..left
  BY <1>3
<1>5. stop < Len(d.frames) /\ d.frames[stop + 1].base = co.frames[stop + 1].base
  BY <1>3, <1>4
<1> QED BY <1>5 DEF stop

LEMMA StopOrder ==
  ASSUME Inv, InVm
  PROVE  /\ \A k \in 1..Len(acts) : acts[k].type = "run" => acts[k].stopAt <= Act.stopAt
         /\ \A k \in 1..Len(acts) - 1 : acts[k].type = "run" => acts[k].stopAt < Act.stopAt
<1>1. Len(acts) \in 1..Len(acts) /\ Len(acts) \in Nat /\ Act.type = "run" /\ Act.stopAt \in Nat
  BY RunFacts
<1>2. \A j, k \in 1..Len(acts) :
        j < k /\ acts[j].type = "run" /\ acts[k].type = "run" => acts[j].stopAt < acts[k].stopAt
  BY DEF Inv, ActsOk
<1>3. ASSUME NEW k \in 1..Len(acts) - 1, acts[k].type = "run"
      PROVE  acts[k].stopAt < Act.stopAt
  <2>1. k \in 1..Len(acts) /\ k < Len(acts)
    BY <1>1
  <2> QED BY <1>1, <1>2, <1>3, <2>1 DEF Act
<1>4. ASSUME NEW k \in 1..Len(acts), acts[k].type = "run"
      PROVE  acts[k].stopAt <= Act.stopAt
  <2>1. CASE k = Len(acts)
    BY <1>1, <2>1 DEF Act
  <2>2. CASE k # Len(acts)
    <3>1. k \in 1..Len(acts) - 1
      BY <1>1, <2>2
    <3>2. acts[k].stopAt \in Nat
      BY <1>4, ActsTyped, ActFields DEF Inv
    <3>3. acts[k].stopAt < Act.stopAt
      BY <1>3, <1>4, <3>1
    <3> QED BY <1>1, <3>2, <3>3
  <2> QED BY <2>1, <2>2
<1> QED BY <1>3, <1>4

LEMMA StepReturn == Inv /\ ExecReturn => Inv'
<1> SUFFICES ASSUME Inv, ExecReturn PROVE Inv'
  OBVIOUS
<1> DEFINE left == Len(co.frames) - 1
           c == PushedOn(Cut(co, left, Top.base - 1), Peek(0))
           n == Len(acts)
<1>1. InVm /\ PcOk /\ Ins.op = "RETURN" /\ ~Fault
  BY RunsDef DEF ExecReturn
<1>2. IF left > Act.stopAt THEN Continue(c)
      ELSE /\ co' = c /\ acts' = CallerActs
           /\ ret' = Returned("ok", IF Act.call THEN c.stack[Act.top] ELSE NoValue)
           /\ UNCHANGED <<globals, err>>
  BY DEF ExecReturn
<1>3. Holds(1)
  BY <1>1 DEF Fault
<1>4. /\ CoOk(c) /\ Extends(co, c) /\ Len(c.frames) = left
      /\ \A k \in 1..left : c.frames[k] = co.frames[k]
      /\ c.stackTop = Top.base
      /\ c.stack = [co.stack EXCEPT ![Top.base - 1] = Peek(0)]
      /\ Peek(0) \in Value
  BY <1>1, <1>3, ReturnFacts
<1>5. /\ CoOk(co) /\ acts \in Acts /\ ActsOk(co, acts)
      /\ GlobalsOk(globals) /\ ErrOk(err) /\ RetOk(ret)
  BY DEF Inv
<1>6. /\ n \in Nat /\ n >= 1 /\ Act.type = "run" /\ Act.stopAt \in Nat /\ RunOk(co, Act)
      /\ left \in Nat
  <2>1. /\ Len(acts) \in 1..Len(acts) /\ Len(acts) \in Nat /\ Act.type = "run"
        /\ Act.stopAt \in Nat /\ RunOk(co, Act) /\ Len(co.frames) \in 1..Len(co.frames)
    BY <1>1, RunFacts
  <2> QED BY <2>1
<1>7. left >= Act.stopAt
  BY <1>6, CoElim, <1>5 DEF RunOk
<1>8. SubSeq(acts, 1, n) = acts
  BY <1>5, ActsTyped
<1> HIDE DEF left, c
<1>9. CASE left > Act.stopAt
  <2>1. co' = c /\ acts' = acts /\ globals' = globals /\ err' = err /\ ret' = ret
    BY <1>2, <1>9 DEF Continue
  <2>2. \A k \in 1..n : acts[k].type = "run" => acts[k].stopAt < left
    <3> SUFFICES ASSUME NEW k \in 1..n, acts[k].type = "run" PROVE acts[k].stopAt < left
      OBVIOUS
    <3>1. acts[k].stopAt <= Act.stopAt /\ acts[k].stopAt \in Nat
      BY <1>1, StopOrder, ActsTyped, ActFields DEF Inv
    <3> QED BY <1>6, <1>9, <3>1
  <2>3. n \in 0..Len(acts)
    BY <1>6
  <2>4. Covers(co, c, acts, n)
    BY <1>4, <1>6, <2>2, <2>3, CoversFewer
  <2>5. TopOk(c, acts, n)
    BY <1>6 DEF TopOk, Act
  <2>6. acts' = SubSeq(acts, 1, n) /\ GlobalsOk(globals') /\ ErrOk(err') /\ RetOk(ret')
    BY <1>5, <1>8, <2>1
  <2> QED BY <1>4, <2>1, <2>3, <2>4, <2>5, <2>6, InvReplace
<1>10. CASE ~(left > Act.stopAt)
  <2>1. /\ co' = c /\ acts' = SubSeq(acts, 1, n - 1) /\ globals' = globals /\ err' = err
        /\ ret' = Returned("ok", IF Act.call THEN c.stack[Act.top] ELSE NoValue)
    BY <1>2, <1>10 DEF CallerActs
  <2>2. left = Act.stopAt /\ n - 1 \in 0..Len(acts)
    BY <1>6, <1>7, <1>10
  <2>0. Act.call => Top.base = Act.top + 1
    <3>1. Len(co.frames) = Act.stopAt + 1
      BY <1>5, <1>6, <2>2, CoElim DEF left
    <3> QED BY <1>6, <3>1 DEF RunOk, Top
  <2>3. \A k \in 1..n - 1 : acts[k].type = "run" => acts[k].stopAt < left
    BY <1>1, <2>2, StopOrder
  <2>4. Covers(co, c, acts, n - 1)
    BY <1>4, <1>6, <2>2, <2>3, CoversFewer
  <2>5. TopOk(c, acts, n - 1)
    <3> SUFFICES ASSUME n - 1 > 0, acts[n - 1].type = "native"
                 PROVE  acts[n - 1].base + acts[n - 1].argc <= c.stackTop
      BY DEF TopOk
    <3>1. n - 1 \in 1..Len(acts) /\ n - 1 < Len(acts) /\ (n - 1) + 1 = n
      BY <1>6
    <3>2. NativeOk(co, acts, n - 1)
      BY <1>5, <3>1 DEF ActsOk
    <3>3. Act.call /\ acts[n - 1].base + acts[n - 1].argc <= Act.top
      BY <3>1, <3>2 DEF NativeOk, Act
    <3>4. Act.top \in Int /\ Top.base = Act.top + 1
      BY <1>1, <2>0, <3>3, RunFacts
    <3>5. acts[n - 1].base \in Int /\ acts[n - 1].argc \in Nat
      BY <1>5, <3>1, ActsTyped, ActFields
    <3> QED BY <1>4, <3>3, <3>4, <3>5
  <2>6. RetOk(ret')
    <3>1. CASE Act.call
      <4>1. Act.top = Top.base - 1 /\ Act.top \in 0..co.stackCap - 1
        <5>1. Top.base = Act.top + 1 /\ Act.top \in Nat
          BY <1>1, <2>0, <3>1, RunFacts
        <5>3. Top.base <= co.stackCap /\ co.stackCap \in Nat
          BY <1>1, ReturnRoom
        <5> QED BY <5>1, <5>3
      <4>2. c.stack[Act.top] = Peek(0)
        BY <1>4, <1>5, <4>1, CoElim
      <4> QED BY <1>4, <2>1, <3>1, <4>2 DEF RetOk, Returned, Status
    <3>2. CASE ~Act.call
      BY <2>1, <3>2 DEF RetOk, Returned, Status
    <3> QED BY <3>1, <3>2
  <2>7. GlobalsOk(globals') /\ ErrOk(err')
    BY <1>5, <2>1
  <2> QED BY <1>4, <2>1, <2>2, <2>4, <2>5, <2>6, <2>7, InvReplace
<1> QED BY <1>2, <1>9, <1>10

\* A native function in control was called by a run, and has its arguments.
LEMMA NativeFacts ==
  ASSUME Inv, InNative
  PROVE  /\ Len(acts) \in Nat /\ Len(acts) > 1 /\ Len(acts) \in 1..Len(acts)
         /\ acts[Len(acts)] = Act /\ Act.type = "native"
         /\ acts[Len(acts) - 1].type = "run"
         /\ Act.base \in Int /\ Act.argc \in Nat /\ Act.base >= 1
         /\ Act.base + Act.argc <= co.stackTop
<1>1. acts \in Acts /\ acts # <<>> /\ ActsOk(co, acts) /\ Act.type = "native"
      /\ acts[Len(acts)] = Act
  BY DEF Inv, InNative, Act
<1>2. Len(acts) \in Nat /\ Len(acts) \in 1..Len(acts)
      /\ \A k \in 1..Len(acts) : acts[k] \in RunAct \cup NativeAct
  BY <1>1, ActsTyped
<1>3. NativeOk(co, acts, Len(acts))
  BY <1>1, <1>2 DEF ActsOk
<1>4. Len(acts) > 1 /\ acts[Len(acts) - 1].type = "run" /\ Act.base >= 1
      /\ Act.base + Act.argc <= co.stackTop
  BY <1>1, <1>3 DEF NativeOk
<1>5. Act.base \in Int /\ Act.argc \in Nat
  BY <1>1, <1>2, ActFields
<1> QED BY <1>1, <1>2, <1>4, <1>5

LEMMA StepNativeReturn == Inv /\ NativeReturn => Inv'
<1> SUFFICES ASSUME Inv, NativeReturn PROVE Inv'
  OBVIOUS
<1> DEFINE top == Act.base - 1
           c == [co EXCEPT !.stackTop = top]
           n == Len(acts) - 1
           m == co.stackTop - top
<1>1. InNative
  BY DEF NativeReturn
<1>2. PICK v \in Results : co' = PushedOn(c, v)
  BY DEF NativeReturn
<1>3. acts' = SubSeq(acts, 1, n) /\ globals' = globals /\ err' = err /\ ret' = ret
  BY DEF NativeReturn, CallerActs
<1>4. CoOk(co) /\ GlobalsOk(globals) /\ ErrOk(err) /\ RetOk(ret)
  BY DEF Inv
<1>5. /\ Len(acts) \in Nat /\ Len(acts) > 1 /\ acts[n].type = "run"
      /\ Act.base \in Int /\ Act.argc \in Nat /\ Act.base >= 1
      /\ Act.base + Act.argc <= co.stackTop
      /\ co.stackTop \in Nat /\ co.stackTop <= co.stackCap /\ co.stackCap \in Nat
  BY <1>1, <1>4, NativeFacts, CoElim
<1>6. m \in Nat /\ m <= co.stackTop /\ co.stackTop - m = top /\ top < co.stackCap
  BY <1>5
<1> HIDE DEF top, m
<1>7. c = Popped(co, m)
  <2>1. Popped(co, m) = Co(co.frames, co.framesCap, co.stackTop - m, co.stackCap, co.stack)
    BY <1>4, SetTop, Zenon DEF Popped
  <2>2. c = Co(co.frames, co.framesCap, top, co.stackCap, co.stack)
    BY <1>4, SetTop
  <2> QED BY <1>6, <2>1, <2>2
<1>8. SameShape(co, c) /\ c.stackTop = top
  BY <1>4, <1>6, <1>7, PopStep
<1>9. CoOk(c) /\ c.stackCap = co.stackCap
  BY <1>8 DEF SameShape
<1> HIDE DEF c
<1>10. SameShape(c, PushedOn(c, v))
  <2>1. v \in Value
    BY ValueAssumption
  <2> QED BY <1>6, <1>8, <1>9, <2>1, PushStep
<1> DEFINE d == PushedOn(c, v)
<1>11. SameShape(co, d)
  BY <1>4, <1>8, <1>10, ShapeTrans
<1> HIDE DEF d
<1>12. CoOk(d) /\ Extends(co, d) /\ HasFrames(co, d)
  BY <1>4, <1>11, ShapeFrames
<1>13. Covers(co, d, acts, n)
  <2>1. Covers(co, d, acts, Len(acts))
    BY <1>12, CoversAll
  <2>2. \A k \in 1..n : k \in 1..Len(acts)
    BY <1>5
  <2> QED BY <2>1, <2>2 DEF Covers
<1>14. TopOk(d, acts, n) /\ n \in 0..Len(acts)
  BY <1>5 DEF TopOk
<1> QED BY <1>2, <1>3, <1>4, <1>12, <1>13, <1>14, InvReplace DEF d

LEMMA StepNativeFail == Inv /\ NativeFail => Inv'
<1> SUFFICES ASSUME Inv, NativeFail PROVE Inv'
  OBVIOUS
<1>1. PICK r \in {"runtime", "oom"} : Unwind(Len(acts) - 1, co, r)
  BY DEF NativeFail, Raised
<1>2. Len(acts) - 1 \in 1..Len(acts) /\ acts[Len(acts) - 1].type = "run"
  <2>1. Len(acts) \in Nat /\ Len(acts) > 1 /\ acts[Len(acts) - 1].type = "run"
    BY NativeFacts DEF NativeFail
  <2> QED BY <2>1
<1>3. CoOk(co) /\ Extends(co, co) /\ HasFrames(co, co)
  BY ExtendsRefl DEF Inv
<1> QED BY <1>1, <1>2, <1>3, InvUnwind

\* A native function at the top of the C stack still has its arguments.
LEMMA TopKept ==
  ASSUME Inv, NEW d, CoOk(d), co.stackTop <= d.stackTop
  PROVE  TopOk(d, acts, Len(acts))
<1> SUFFICES ASSUME Len(acts) > 0, acts[Len(acts)].type = "native"
             PROVE  acts[Len(acts)].base + acts[Len(acts)].argc <= d.stackTop
  BY DEF TopOk
<1>1. acts # <<>>
  BY ActsTyped DEF Inv
<1>2. InNative
  BY <1>1 DEF InNative, Act
<1>3. /\ acts[Len(acts)] = Act /\ Act.base \in Int /\ Act.argc \in Nat
      /\ Act.base + Act.argc <= co.stackTop
  BY <1>2, NativeFacts
<1>4. co.stackTop \in Nat /\ d.stackTop \in Nat
  BY CoElim DEF Inv
<1> QED BY <1>3, <1>4

\* The C stack stays as it is, and so do the frames and the top of the stack.
LEMMA InvStay ==
  ASSUME Inv, NEW d, CoOk(d), Extends(co, d), HasFrames(co, d), co.stackTop <= d.stackTop,
         co' = d, acts' = acts, GlobalsOk(globals'), ErrOk(err'), RetOk(ret')
  PROVE  Inv'
<1>1. CoOk(co) /\ acts \in Acts /\ ActsOk(co, acts)
  BY DEF Inv
<1>2. ActsOk(d, acts)
  <2>1. TopOk(d, acts, Len(acts))
    BY <1>1, TopKept
  <2> QED BY <1>1, <2>1, ActsAll DEF HasFrames
<1> QED BY <1>1, <1>2 DEF Inv

\* The run of msCallProto starts, in state d.
LEMMA InvStart ==
  ASSUME Inv, InHost \/ InNative, NEW d, CoOk(d), Extends(co, d),
         NEW id, d.frames = Append(co.frames, NewFrame(id, co.stackTop + 1)),
         co.stackTop + 1 <= d.stackTop, co' = d,
         acts' = Append(acts, [type |-> "run", stopAt |-> Len(co.frames),
                               top |-> co.stackTop, call |-> TRUE]),
         GlobalsOk(globals'), ErrOk(err'), RetOk(ret')
  PROVE  Inv'
<1> DEFINE a == [type |-> "run", stopAt |-> Len(co.frames), top |-> co.stackTop, call |-> TRUE]
<1>1. CoOk(co) /\ acts \in Acts /\ ActsOk(co, acts)
  BY DEF Inv
<1>2. /\ co.stackTop \in Nat /\ d.stackTop \in Nat /\ Len(co.frames) \in Nat
      /\ co.stackTop <= co.stackCap /\ co.stackCap \in Nat /\ d.stackCap \in Nat
      /\ co.stackCap <= d.stackCap
  BY <1>1, CoElim DEF Extends
<1>3. /\ HasFrames(co, d) /\ Len(d.frames) = Len(co.frames) + 1
      /\ d.frames[Len(co.frames) + 1] = NewFrame(id, co.stackTop + 1)
  BY <1>1, AppendFrames
<1>4. ActsOk(d, acts)
  <2>1. co.stackTop <= d.stackTop
    BY <1>2
  <2>2. TopOk(d, acts, Len(acts))
    BY <1>1, <2>1, TopKept
  <2> QED BY <1>1, <1>3, <2>2, ActsAll DEF HasFrames
<1>5. a \in RunAct /\ a.type = "run" /\ a.call /\ a.top = co.stackTop /\ a.stopAt = Len(co.frames)
  <2>1. a \in RunAct
    BY <1>2 DEF RunAct
  <2> QED BY <2>1
<1> HIDE DEF a
<1>6. RunOk(d, a)
  <2>1. LiveBelow(d, a.top)
    <3>1. \A i \in 0..co.stackTop - 1 : i \in 0..co.stackCap - 1
      BY <1>2
    <3>2. \A i \in 0..co.stackTop - 1 : co.stack[i] # Junk
      BY <1>1, CoElim
    <3> QED BY <1>5, <3>1, <3>2 DEF LiveBelow, Extends
  <2>2. a.stopAt < Len(d.frames) /\ 0 <= a.top /\ a.top <= d.stackCap
    BY <1>2, <1>3, <1>5
  <2>3. d.frames[a.stopAt + 1].base = a.top + 1
    BY <1>3, <1>5 DEF NewFrame
  <2> QED BY <2>1, <2>2, <2>3 DEF RunOk
<1>7. \A k \in 1..Len(acts) : acts[k].type = "run" => acts[k].stopAt < a.stopAt
  BY <1>1, <1>5 DEF ActsOk, RunOk
<1>8. Len(acts) > 0 /\ acts[Len(acts)].type = "native" =>
        a.type = "run" /\ a.call /\ acts[Len(acts)].base + acts[Len(acts)].argc <= a.top
  <2> SUFFICES ASSUME Len(acts) > 0, acts[Len(acts)].type = "native"
               PROVE  acts[Len(acts)].base + acts[Len(acts)].argc <= co.stackTop
    BY <1>5
  <2>1. acts # <<>>
    BY <1>1, ActsTyped
  <2>2. InNative
    BY <2>1 DEF InNative, Act
  <2> QED BY <2>2, NativeFacts
<1>9. a.type # "native"
  BY <1>5
<1> QED BY <1>4, <1>5, <1>6, <1>7, <1>8, <1>9, InvPlusAct DEF a

\* The frames and the top are as they were.
Unmoved(c, d) == d.frames = c.frames /\ d.stackTop = c.stackTop

\* A frame pushed above the top of the stack.
LEMMA PushFrameAbove ==
  ASSUME NEW c, CoOk(c), NEW id \in DOMAIN Proto, NEW argc \in Nat, NEW argv,
         ArgsOk(c, argc, argv),
         NEW o \in PushFrameAt(c, id, argc, FALSE, c.stackTop + 1, argv)
  PROVE  /\ o.res \in Status
         /\ CoOk(o.co) /\ Extends(c, o.co)
         /\ o.res = "ok" => /\ o.co.frames = Append(c.frames, NewFrame(id, c.stackTop + 1))
                            /\ c.stackTop + 1 <= o.co.stackTop
         /\ o.res # "ok" => Unmoved(c, o.co)
<1> DEFINE no == FALSE
           base == c.stackTop + 1
<1>1. base \in Int
  BY CoElim
<1>2. no \in BOOLEAN /\ o \in PushFrameAt(c, id, argc, no, base, argv)
  OBVIOUS
<1> HIDE DEF no, base
<1>3. ~no => base = c.stackTop + 1 /\ ArgsOk(c, argc, argv)
  BY DEF base
<1>4. /\ o.res \in Status
      /\ CoOk(o.co) /\ Extends(c, o.co)
      /\ o.res = "ok" => o.co.frames = Append(c.frames, NewFrame(id, base)) /\ base <= o.co.stackTop
      /\ o.res # "ok" => o.co.frames = c.frames /\ o.co.stackTop = c.stackTop
  BY <1>1, <1>2, <1>3, PushFrameSafe
<1> QED BY <1>4 DEF base, Unmoved

\* msCallProto, called by the host or by a native function.
LEMMA StepCallProto ==
  ASSUME Inv, InHost \/ InNative, NEW e, ErrOk(e), NEW id \in DOMAIN Proto,
         NEW argc \in Nat, NEW argv, ArgsOk(co, argc, argv), CallProto(e, id, argc, argv)
  PROVE  Inv'
<1>1. CoOk(co) /\ acts \in Acts /\ GlobalsOk(globals) /\ co.stackTop \in Nat
      /\ Len(co.frames) \in Nat
  BY CoElim DEF Inv
<1>2. PICK o \in PushFrameAt(co, id, argc, FALSE, co.stackTop + 1, argv) :
        IF o.res = "ok"
        THEN /\ co' = o.co
             /\ acts' = Append(acts, [type |-> "run", stopAt |-> Len(co.frames),
                                      top |-> co.stackTop, call |-> TRUE])
             /\ err' = e /\ ret' = Returned("ok", NoValue) /\ UNCHANGED globals
        ELSE /\ co' = Cut(o.co, Len(co.frames), co.stackTop)
             /\ \E r \in Raised(o.res) : err' = r /\ ret' = Returned(r, NoValue)
             /\ UNCHANGED <<acts, globals>>
  BY DEF CallProto
<1>3. /\ CoOk(o.co) /\ Extends(co, o.co)
      /\ o.res = "ok" => /\ o.co.frames = Append(co.frames, NewFrame(id, co.stackTop + 1))
                         /\ co.stackTop + 1 <= o.co.stackTop
      /\ o.res # "ok" => o.co.frames = co.frames /\ o.co.stackTop = co.stackTop
  <2>1. CoOk(co) /\ o \in PushFrameAt(co, id, argc, FALSE, co.stackTop + 1, argv)
    BY <1>1, <1>2
  <2>2. CoOk(o.co) /\ Extends(co, o.co)
    BY <2>1, PushFrameAbove
  <2>3. o.res = "ok" => /\ o.co.frames = Append(co.frames, NewFrame(id, co.stackTop + 1))
                        /\ co.stackTop + 1 <= o.co.stackTop
    BY <2>1, PushFrameAbove
  <2>4. o.res # "ok" => Unmoved(co, o.co)
    BY <2>1, PushFrameAbove
  <2> QED BY <2>2, <2>3, <2>4 DEF Unmoved
<1>4. CASE o.res = "ok"
  <2>1. GlobalsOk(globals') /\ ErrOk(err') /\ RetOk(ret')
    BY <1>1, <1>2, <1>4 DEF RetOk, Returned, Status
  <2> QED BY <1>2, <1>3, <1>4, <2>1, InvStart
<1>5. CASE o.res # "ok"
  <2> DEFINE d == Cut(o.co, Len(co.frames), co.stackTop)
  <2>1. o.co.frames = co.frames /\ o.co.stackTop = co.stackTop
    BY <1>3, <1>5
  <2>2. LiveBelow(o.co, co.stackTop) /\ co.stackTop <= o.co.stackCap
    BY <1>3, <2>1, CoElim DEF LiveBelow
  <2>3. Len(co.frames) \in 0..Len(o.co.frames)
    BY <1>1, <2>1
  <2>4. /\ CoOk(d) /\ Extends(o.co, d) /\ d.stackTop = co.stackTop
        /\ Len(d.frames) = Len(co.frames)
        /\ \A k \in 1..Len(co.frames) : d.frames[k] = o.co.frames[k]
    <3> DEFINE c == o.co
               n == Len(co.frames)
               top == co.stackTop
    <3>1. CoOk(c) /\ n \in 0..Len(c.frames) /\ top \in Nat /\ top <= c.stackCap
          /\ LiveBelow(c, top)
      BY <1>1, <1>3, <2>2, <2>3
    <3> HIDE DEF c, n, top
    <3>2. /\ CoOk(Cut(c, n, top)) /\ Extends(c, Cut(c, n, top))
          /\ Cut(c, n, top).stackTop = top /\ Len(Cut(c, n, top).frames) = n
          /\ \A k \in 1..n : Cut(c, n, top).frames[k] = c.frames[k]
      BY <3>1, CutSafe
    <3> QED BY <3>2 DEF c, n, top
  <2>5. co' = d /\ acts' = acts /\ GlobalsOk(globals') /\ ErrOk(err') /\ RetOk(ret')
    BY <1>1, <1>2, <1>5 DEF ErrOk, RetOk, Returned, Status, Raised
  <2> HIDE DEF d
  <2>6. Extends(co, d) /\ HasFrames(co, d) /\ co.stackTop <= d.stackTop
    <3>1. HasFrames(co, d) /\ co.stackTop <= d.stackTop
      BY <1>1, <2>1, <2>4 DEF HasFrames
    <3> QED BY <1>1, <1>3, <2>4, <3>1, ExtendsTrans
  <2> QED BY <2>4, <2>5, <2>6, InvStay
<1> QED BY <1>4, <1>5

\* Arguments that C code made up are values.
LEMMA MadeArgsOk ==
  ASSUME NEW c, NEW args \in MadeArgs
  PROVE  Len(args) \in Nat /\ ArgsOk(c, Len(args), HeapArgs(args))
<1>1. args = <<>> \/ \E v \in Results : args = <<v>>
  BY DEF MadeArgs
<1>2. CASE args = <<>>
  BY <1>2 DEF ArgsOk, HeapArgs
<1>3. CASE \E v \in Results : args = <<v>>
  <2>1. PICK v \in Results : args = <<v>>
    BY <1>3
  <2>2. Len(args) = 1 /\ args[1] \in Value
    BY <2>1, ValueAssumption
  <2>3. \A j \in 0..Len(args) - 1 : args[j + 1] \in Value
    BY <2>2
  <2> QED BY <2>2, <2>3 DEF ArgsOk, HeapArgs
<1> QED BY <1>1, <1>2, <1>3

LEMMA StackArgsOk ==
  ASSUME NEW c, NEW argc, NEW index \in Nat, index + argc <= c.stackTop
  PROVE  ArgsOk(c, argc, StackArgs(index))
BY DEF ArgsOk, StackArgs

LEMMA StepHostCall == Inv /\ HostCall => Inv'
<1> SUFFICES ASSUME Inv, HostCall PROVE Inv'
  OBVIOUS
<1>1. PICK id \in EntryProtos, args \in MadeArgs : CallProto("none", id, Len(args), HeapArgs(args))
  BY DEF HostCall
<1>2. InHost
  BY DEF HostCall
<1>3. id \in DOMAIN Proto
  BY ProtoAssumption
<1>4. Len(args) \in Nat /\ ArgsOk(co, Len(args), HeapArgs(args)) /\ ErrOk("none")
  BY MadeArgsOk DEF ErrOk
<1> QED BY <1>1, <1>2, <1>3, <1>4, StepCallProto

LEMMA StepNativeCall == Inv /\ NativeCall => Inv'
<1> SUFFICES ASSUME Inv, NativeCall PROVE Inv'
  OBVIOUS
<1>1. InNative /\ ErrOk(err)
  BY DEF NativeCall, Inv
<1>2. PICK id \in NativeProtos :
        \/ \E args \in MadeArgs : CallProto(err, id, Len(args), HeapArgs(args))
        \/ \E first \in 0..Act.argc : \E argc \in 1..Act.argc - first :
             CallProto(err, id, argc, StackArgs(Act.base + first))
  BY DEF NativeCall
<1>3. id \in DOMAIN Proto
  BY ProtoAssumption
<1>4. CASE \E args \in MadeArgs : CallProto(err, id, Len(args), HeapArgs(args))
  <2>1. PICK args \in MadeArgs : CallProto(err, id, Len(args), HeapArgs(args))
    BY <1>4
  <2>2. Len(args) \in Nat /\ ArgsOk(co, Len(args), HeapArgs(args))
    BY MadeArgsOk
  <2> QED BY <1>1, <1>3, <2>1, <2>2, StepCallProto
<1>5. CASE \E first \in 0..Act.argc : \E argc \in 1..Act.argc - first :
             CallProto(err, id, argc, StackArgs(Act.base + first))
  <2>1. PICK first \in 0..Act.argc : \E argc \in 1..Act.argc - first :
          CallProto(err, id, argc, StackArgs(Act.base + first))
    BY <1>5
  <2>2. PICK argc \in 1..Act.argc - first : CallProto(err, id, argc, StackArgs(Act.base + first))
    BY <2>1
  <2>3. /\ Act.base \in Int /\ Act.argc \in Nat /\ Act.base >= 1
        /\ Act.base + Act.argc <= co.stackTop /\ co.stackTop \in Nat
    BY <1>1, NativeFacts, CoElim DEF Inv
  <2> DEFINE index == Act.base + first
  <2>4. argc \in Nat /\ index \in Nat /\ index + argc <= co.stackTop
    BY <2>3
  <2>5. ArgsOk(co, argc, StackArgs(index))
    BY <2>4, StackArgsOk
  <2>6. CallProto(err, id, argc, StackArgs(index))
    BY <2>2
  <2> HIDE DEF index
  <2> QED BY <1>1, <1>3, <2>4, <2>5, <2>6, StepCallProto
<1> QED BY <1>2, <1>4, <1>5

\* With no run and no native function there is nothing to agree with.
LEMMA InvHost ==
  ASSUME Inv, InHost, NEW d, CoOk(d), co' = d, acts' = acts,
         GlobalsOk(globals'), ErrOk(err'), RetOk(ret')
  PROVE  Inv'
<1>1. acts' = <<>>
  BY DEF InHost
<1>2. ActsOk(d, <<>>) /\ <<>> \in Acts
  BY NoActs
<1> QED BY <1>1, <1>2 DEF Inv

LEMMA StepHostClearError == Inv /\ HostClearError => Inv'
BY InvHost DEF HostClearError, Inv, ErrOk

LEMMA StepHostReopen == Inv /\ HostReopen => Inv'
<1> SUFFICES ASSUME Inv, HostReopen PROVE Inv'
  OBVIOUS
<1>1. /\ InHost /\ co' = NewCo /\ globals' = InitGlobals /\ err' = "none"
      /\ acts' = acts /\ ret' = ret
  BY DEF HostReopen
<1>2. GlobalsOk(globals') /\ ErrOk(err') /\ RetOk(ret')
  BY <1>1, ValueAssumption DEF Inv, GlobalsOk, ErrOk
<1> QED BY <1>1, <1>2, NewCoOk, InvHost

LEMMA StepHostPushFrame == Inv /\ HostPushFrame => Inv'
<1> SUFFICES ASSUME Inv, HostPushFrame PROVE Inv'
  OBVIOUS
<1>1. InHost
  BY DEF HostPushFrame
<1>2. PICK id \in EntryProtos, argc \in 0..2 :
      \E argv \in {HeapArgs([k \in 1..argc |-> Nil])} \cup
                  {StackArgs(index) : index \in 0..co.stackTop - argc} :
      \E o \in PushFrameAt(co, id, argc, FALSE, co.stackTop + 1, argv) :
        /\ co' = o.co
        /\ IF o.res = "ok" THEN ret' = Returned("ok", NoValue) /\ UNCHANGED err
           ELSE \E r \in Raised(o.res) : err' = r /\ ret' = Returned(r, NoValue)
        /\ UNCHANGED <<acts, globals>>
  BY DEF HostPushFrame
<1>3. PICK argv \in {HeapArgs([k \in 1..argc |-> Nil])} \cup
                    {StackArgs(index) : index \in 0..co.stackTop - argc} :
      \E o \in PushFrameAt(co, id, argc, FALSE, co.stackTop + 1, argv) :
        /\ co' = o.co
        /\ IF o.res = "ok" THEN ret' = Returned("ok", NoValue) /\ UNCHANGED err
           ELSE \E r \in Raised(o.res) : err' = r /\ ret' = Returned(r, NoValue)
        /\ UNCHANGED <<acts, globals>>
  BY <1>2
<1>4. PICK o \in PushFrameAt(co, id, argc, FALSE, co.stackTop + 1, argv) :
        /\ co' = o.co
        /\ IF o.res = "ok" THEN ret' = Returned("ok", NoValue) /\ UNCHANGED err
           ELSE \E r \in Raised(o.res) : err' = r /\ ret' = Returned(r, NoValue)
        /\ UNCHANGED <<acts, globals>>
  BY <1>3
<1>5. CoOk(co) /\ co.stackTop \in Nat /\ GlobalsOk(globals) /\ ErrOk(err)
  BY CoElim DEF Inv
<1>6. ArgsOk(co, argc, argv)
  <2>1. CASE argv = HeapArgs([k \in 1..argc |-> Nil])
    <3>1. \A j \in 0..argc - 1 : argv.vals[j + 1] = Nil
      BY <2>1 DEF HeapArgs
    <3>2. ~argv.inStack
      BY <2>1 DEF HeapArgs
    <3> QED BY <3>1, <3>2, ValueFacts DEF ArgsOk
  <2>2. CASE \E index \in 0..co.stackTop - argc : argv = StackArgs(index)
    <3>1. PICK index \in 0..co.stackTop - argc : argv = StackArgs(index)
      BY <2>2
    <3>2. index \in Nat /\ index + argc <= co.stackTop
      BY <1>5
    <3> QED BY <3>1, <3>2, StackArgsOk
  <2> QED BY <1>3, <2>1, <2>2
<1>7. id \in DOMAIN Proto /\ argc \in Nat
  BY ProtoAssumption
<1>8. CoOk(o.co)
  BY <1>4, <1>5, <1>6, <1>7, PushFrameAbove
<1>9. acts' = acts /\ GlobalsOk(globals') /\ ErrOk(err') /\ RetOk(ret')
  BY <1>4, <1>5 DEF ErrOk, RetOk, Returned, Status, Raised
<1> QED BY <1>1, <1>4, <1>8, <1>9, InvHost

LEMMA StepHostRun == Inv /\ HostRun => Inv'
<1> SUFFICES ASSUME Inv, HostRun PROVE Inv'
  OBVIOUS
<1>1. /\ InHost /\ CoOk(co) /\ acts \in Acts /\ GlobalsOk(globals) /\ ErrOk(err) /\ RetOk(ret)
      /\ acts = <<>>
  BY DEF HostRun, InHost, Inv
<1>2. PICK stopAt \in -1..Len(co.frames) + 1 :
        \/ /\ stopAt \in 0..Len(co.frames) - 1
           /\ acts' = <<[type |-> "run", stopAt |-> stopAt, top |-> co.stackTop, call |-> FALSE]>>
           /\ UNCHANGED <<co, globals, err, ret>>
        \/ /\ ret' = Returned("ok", NoValue)
           /\ UNCHANGED <<co, acts, globals, err>>
        \/ /\ \E r \in Raised("runtime") : err' = r /\ ret' = Returned(r, NoValue)
           /\ UNCHANGED <<co, acts, globals>>
  BY DEF HostRun
<1>3. CASE /\ stopAt \in 0..Len(co.frames) - 1
           /\ acts' = <<[type |-> "run", stopAt |-> stopAt, top |-> co.stackTop, call |-> FALSE]>>
           /\ UNCHANGED <<co, globals, err, ret>>
  <2> DEFINE a == [type |-> "run", stopAt |-> stopAt, top |-> co.stackTop, call |-> FALSE]
  <2>1. /\ co.stackTop \in Nat /\ Len(co.frames) \in Nat /\ co.stackTop <= co.stackCap
        /\ \A i \in 0..co.stackTop - 1 : co.stack[i] # Junk
    BY <1>1, CoElim
  <2>2. stopAt \in Nat /\ stopAt < Len(co.frames)
    BY <1>3, <2>1
  <2>3. a \in RunAct /\ a.type = "run" /\ ~a.call /\ a.stopAt = stopAt /\ a.top = co.stackTop
    <3>1. a \in RunAct
      BY <2>1, <2>2 DEF RunAct
    <3> QED BY <3>1
  <2>4. acts' = Append(acts, a)
    BY <1>1, <1>3
  <2> HIDE DEF a
  <2>5. RunOk(co, a)
    BY <2>1, <2>2, <2>3 DEF RunOk, LiveBelow
  <2>6. ActsOk(co, acts) /\ Len(acts) = 0
    BY <1>1, NoActs
  <2>7. /\ ~(Len(acts) > 0) /\ a.type # "native" /\ a \in RunAct \cup NativeAct
        /\ \A k \in 1..Len(acts) : acts[k].type = "run" => acts[k].stopAt < a.stopAt
    BY <2>3, <2>6
  <2>8. co' = co /\ GlobalsOk(globals') /\ ErrOk(err') /\ RetOk(ret')
    BY <1>1, <1>3
  <2> QED BY <1>1, <2>4, <2>5, <2>6, <2>7, <2>8, InvPlusAct
<1>4. CASE ret' = Returned("ok", NoValue) /\ UNCHANGED <<co, acts, globals, err>>
  <2>1. GlobalsOk(globals') /\ ErrOk(err') /\ RetOk(ret') /\ co' = co /\ acts' = acts
    BY <1>1, <1>4 DEF RetOk, Returned, Status
  <2> QED BY <1>1, <2>1, InvHost
<1>5. CASE /\ \E r \in Raised("runtime") : err' = r /\ ret' = Returned(r, NoValue)
           /\ UNCHANGED <<co, acts, globals>>
  <2>1. GlobalsOk(globals') /\ ErrOk(err') /\ RetOk(ret') /\ co' = co /\ acts' = acts
    BY <1>1, <1>5 DEF ErrOk, RetOk, Returned, Status, Raised
  <2> QED BY <1>1, <2>1, InvHost
<1> QED BY <1>2, <1>3, <1>4, <1>5

----------------------------------------------------------------------------
(* The theorems.                                                            *)

LEMMA InvVmStep == Inv /\ VmStep => Inv'
BY StepPcOutside, StepFault, StepNop, StepLoadConst, StepLoadSingleton, StepMove,
   StepLoadLocal, StepStoreLocal, StepLoadGlobal, StepStoreGlobal, StepOperator,
   StepCompare, StepCmpChain, StepJump, StepCondJump, StepBuild, StepUnpack,
   StepCallRefused, StepCallScript, StepCallNative, StepReturn
   DEF VmStep

LEMMA InvNext == Inv /\ [Next]_vars => Inv'
<1> SUFFICES ASSUME Inv, [Next]_vars PROVE Inv'
  OBVIOUS
<1>1. CASE VmStep
  BY <1>1, InvVmStep
<1>2. CASE NativeStep
  BY <1>2, StepNativeReturn, StepNativeFail, StepNativeCall DEF NativeStep
<1>3. CASE HostStep
  BY <1>3, StepHostCall, StepHostClearError, StepHostReopen, StepHostPushFrame, StepHostRun
     DEF HostStep
<1>4. CASE UNCHANGED vars
  <2>1. co' = co /\ acts' = acts /\ globals' = globals /\ err' = err /\ ret' = ret
    BY <1>4 DEF vars
  <2> QED BY <2>1 DEF Inv
<1> QED BY <1>1, <1>2, <1>3, <1>4 DEF Next

LEMMA Invariance == Spec => []Inv
<1>1. Init => Inv
  BY InvInit
<1>2. Inv /\ [Next]_vars => Inv'
  BY InvNext
<1> QED BY <1>1, <1>2, PTL DEF Spec

\* Whatever the bytecode, the native functions and the host do within their
\* interfaces, every variable of the machine keeps its type.
THEOREM TypeCorrect == Spec => []TypeOK
<1>1. Inv => TypeOK
  BY InvDef DEF IInv
<1> QED BY <1>1, Invariance, PTL

\* For any bytecode, any limits and any number of nested calls, no instruction,
\* call, return or unwinding leaves the arrays of the coroutine: the top and
\* the window of every frame stay inside (ms_vm.c:157-229, 501-911).
THEOREM MemorySafe == Spec => []InBounds
<1>1. Inv => InBounds
  BY InvDef DEF IInv
<1> QED BY <1>1, Invariance, PTL

\* The machine never exposes a slot that nobody wrote, neither on its stack nor
\* as a local, also when the array moves under the arguments of a call
\* (ms_vm.c:190-220).
THEOREM AllInitialised == Spec => []LiveInitialised
<1>1. Inv => LiveInitialised
  BY InvDef DEF IInv
<1> QED BY <1>1, Invariance, PTL

\* At any depth of script calls, native functions and nested msCallProto, what
\* each activation on the C stack will restore or write when it ends is still
\* there (ms_vm.c:846-940).
THEOREM CallStackAgrees == Spec => []CallStackConsistent
<1>1. Inv => CallStackConsistent
  BY InvDef DEF IInv
<1> QED BY <1>1, Invariance, PTL

----------------------------------------------------------------------------
(* The bracket of a call.                                                    *)

Bracketed ==
  IF ret'.status = "ok"
  THEN co'.stackTop = Act.top + 1 /\ ret'.out = Peek(0) /\ ret'.out.tag \notin {"junk", "none"}
  ELSE co'.stackTop = Act.top

\* Appending adds one element, whatever the element is.
LEMMA OneMore ==
  ASSUME NEW S, NEW s \in Seq(S), NEW a
  PROVE  Len(Append(s, a)) = Len(s) + 1
<1> DEFINE T == S \cup {a}
<1>1. s \in Seq(T) /\ a \in T
  OBVIOUS
<1> HIDE DEF T
<1> QED BY <1>1

\* The activations are a sequence.
LEMMA ActsAreSeq ==
  ASSUME Inv
  PROVE  acts \in Seq(RunAct \cup NativeAct)
BY DEF Inv, Acts

\* An activation only ends by an error of its own or by a return.
LEMMA EndsBy ==
  ASSUME Inv, InVm, Next, Len(acts') < Len(acts)
  PROVE  \/ \E c : \E r \in {"runtime", "oom"} : Unwind(Len(acts), c, r)
         \/ ExecReturn
<1> DEFINE Ends == \E c : \E r \in {"runtime", "oom"} : Unwind(Len(acts), c, r)
<1>1. Len(acts) \in Nat
  BY ActsTyped DEF Inv
<1>2. acts' # acts
  BY <1>1
<1>3. \A c : ~Continue(c)
  BY <1>2 DEF Continue
<1>4. Fail => Ends
  BY DEF Fail, Raised
<1>5. \A c, v : Produce(c, v) => Ends
  BY <1>3, <1>4 DEF Produce
<1>6. ~InNative /\ ~InHost
  BY DEF InVm, InNative, InHost
<1>7. ~NativeStep /\ ~HostStep
  <2>1. ~NativeStep
    BY <1>6 DEF NativeStep, NativeReturn, NativeFail, NativeCall
  <2>2. ~HostStep
    BY <1>6 DEF HostStep, HostCall, HostClearError, HostReopen, HostPushFrame, HostRun
  <2> QED BY <2>1, <2>2
<1>8. ~ExecCallNative
  <2> SUFFICES ASSUME ExecCallNative PROVE FALSE
    OBVIOUS
  <2> DEFINE a == [type |-> "native", argc |-> Ins.a, base |-> Base, cap |-> co.stackCap]
  <2>1. acts' = Append(acts, a)
    BY DEF ExecCallNative
  <2> HIDE DEF a
  <2>2. Len(acts') = Len(acts) + 1
    BY <2>1, <1>1, ActsAreSeq, OneMore DEF Inv
  <2> QED BY <1>1, <2>2
<1> HIDE DEF Ends
<1>9. VmStep => Ends \/ ExecReturn
  <2>1. ExecPcOutside \/ ExecFault \/ ExecNop \/ ExecLoadConst \/ ExecLoadSingleton => Ends
    BY <1>3, <1>4 DEF ExecPcOutside, ExecFault, ExecNop, ExecLoadConst, ExecLoadSingleton
  <2>2. ExecMove \/ ExecLoadLocal \/ ExecStoreLocal \/ ExecLoadGlobal => Ends
    BY <1>3, <1>4 DEF ExecMove, ExecLoadLocal, ExecStoreLocal, ExecLoadGlobal
  <2>3. ExecStoreGlobal => Ends
    BY <1>2 DEF ExecStoreGlobal, Ends
  <2>4. ExecOperator \/ ExecCompare \/ ExecCmpChain => Ends
    BY <1>5 DEF ExecOperator, ExecCompare, ExecCmpChain
  <2>5. ExecJump \/ ExecCondJump => Ends
    BY <1>3 DEF ExecJump, ExecCondJump
  <2>6. ExecBuild => Ends
    BY <1>5 DEF ExecBuild
  <2>7. ExecUnpack => Ends
    BY <1>3, <1>4 DEF ExecUnpack
  <2>8. ExecCallRefused => Ends
    BY <1>4 DEF ExecCallRefused
  <2>9. ExecCallScript => Ends
    BY <1>3 DEF ExecCallScript, Raised, Ends
  <2> QED BY <1>8, <2>1, <2>2, <2>3, <2>4, <2>5, <2>6, <2>7, <2>8, <2>9 DEF VmStep
<1> QED BY <1>7, <1>9 DEF Next, Ends

\* The frame whose return ends a call of msCallProto is the one it pushed.
LEMMA ReturnBrackets ==
  ASSUME Inv, InVm, Act.call, ExecReturn, acts' # acts
  PROVE  Bracketed
<1> DEFINE left == Len(co.frames) - 1
           c == PushedOn(Cut(co, left, Top.base - 1), Peek(0))
<1>1. InVm /\ PcOk /\ Ins.op = "RETURN" /\ ~Fault
  BY RunsDef DEF ExecReturn
<1>2. /\ ~(left > Act.stopAt) /\ co' = c
      /\ ret' = Returned("ok", c.stack[Act.top])
  BY DEF ExecReturn, Continue
<1>3. Holds(1)
  BY <1>1 DEF Fault
<1>4. /\ c.stackTop = Top.base
      /\ c.stack = [co.stack EXCEPT ![Top.base - 1] = Peek(0)]
      /\ Peek(0) \in Value
  BY <1>1, <1>3, ReturnFacts
<1>5. /\ Act.stopAt \in Nat /\ RunOk(co, Act) /\ Len(co.frames) \in Nat /\ CoOk(co)
  <2>1. /\ Act.stopAt \in Nat /\ RunOk(co, Act) /\ Len(co.frames) \in 1..Len(co.frames) /\ CoOk(co)
    BY <1>1, RunFacts DEF Inv
  <2> QED BY <2>1
<1>6. Len(co.frames) = Act.stopAt + 1
  BY <1>2, <1>5 DEF RunOk
<1>7. Top.base = Act.top + 1
  BY <1>5, <1>6 DEF RunOk, Top
<1> HIDE DEF left, c
<1>8. Act.top = Top.base - 1 /\ Act.top \in 0..co.stackCap - 1
  <2>1. Act.top \in Nat
    BY <1>1, RunFacts
  <2>2. Top.base <= co.stackCap /\ co.stackCap \in Nat
    BY <1>1, ReturnRoom
  <2> QED BY <1>7, <2>1, <2>2
<1>9. c.stack[Act.top] = Peek(0)
  BY <1>4, <1>5, <1>8, CoElim
<1>10. Peek(0).tag \notin {"junk", "none"}
  BY <1>4 DEF Value
<1> QED BY <1>2, <1>4, <1>7, <1>9, <1>10 DEF Bracketed, Returned

\* A call that fails leaves the stack as high as it was, and one that succeeds
\* leaves the value that was returned and nothing else, whatever the code in
\* between did to its own part of the stack (msCallProto).
THEOREM CallsBracketed == Spec => CallBracket
<1>1. ASSUME Inv, [Next]_vars, InVm, Act.call, Len(acts') < Len(acts)
      PROVE  Bracketed
  <2>0. Len(acts) \in Nat
    BY <1>1, ActsTyped DEF Inv
  <2>1. acts' # acts
    BY <1>1, <2>0
  <2>2. Next
    BY <1>1, <2>1 DEF vars
  <2>3. CASE \E c : \E r \in {"runtime", "oom"} : Unwind(Len(acts), c, r)
    BY <2>3 DEF Unwind, Cut, Returned, Act, Bracketed
  <2>4. CASE ExecReturn
    BY <1>1, <2>1, <2>4, ReturnBrackets
  <2> QED BY <1>1, <2>2, <2>3, <2>4, EndsBy
<1>2. Inv /\ [Next]_vars =>
        [InVm /\ Act.call /\ Len(acts') < Len(acts) => Bracketed]_vars
  BY <1>1
<1> QED BY <1>2, Invariance, PTL DEF Spec, CallBracket, Bracketed

----------------------------------------------------------------------------
(* Well-formed code: every frame finds the values that its code expects.     *)

\* The code of every prototype is well formed, which the compiler is to see to
\* and the machine does not check.
CodeOk == \A id \in DOMAIN Proto : WellFormed(Proto[id])

\* How many values the code has on its stack before each instruction.
Depths(id) ==
  CHOOSE d \in [0..Len(Proto[id].code) - 1 -> 0..Proto[id].stackSize] : DepthOk(Proto[id], d)

\* With the stack ending at h, the code of frame f finds at least the values it
\* needs; or exactly those.
AtLeast(f, h) ==
  /\ f.pc \in 0..Len(Proto[f.proto].code) - 1
  /\ h >= LocalsEnd(f) + Depths(f.proto)[f.pc]

Exactly(f, h) ==
  /\ f.pc \in 0..Len(Proto[f.proto].code) - 1
  /\ h = LocalsEnd(f) + Depths(f.proto)[f.pc]

\* Frame k was pushed in a call of msCallProto, by the call or by code it runs:
\* nobody but the code itself has touched its stack.
Called(us, k) ==
  \E m \in 1..Len(us) : us[m].type = "run" /\ us[m].call /\ us[m].stopAt < k

Fits(us, k, f, h) == AtLeast(f, h) /\ (Called(us, k) => Exactly(f, h))

\* How many frames there were when activation m was called.
Under(n, us, m) == IF m < Len(us) THEN us[m + 1].stopAt ELSE n

IsNative(us, m) == us[m].type = "native"
IsRun(us, m) == us[m].type = "run"
RunsNow(us) == Len(us) > 0 /\ IsRun(us, Len(us))

\* Every frame has its values below what is above it: the next frame, the native
\* function that it called, the top of the stack.
FramesDeep(F) ==
  \A j, k \in 1..Len(F) : j < k => AtLeast(F[j], F[k].base)

HostDeep(F, t, us) ==
  /\ Len(us) = 0 => \A k \in 1..Len(F) : AtLeast(F[k], t)
  /\ Len(us) > 0 => \A k \in 1..us[1].stopAt : AtLeast(F[k], us[1].top)

TopDeep(F, t, us) == RunsNow(us) => Fits(us, Len(F), F[Len(F)], t)

NativesDeep(F, us) ==
  \A m \in 1..Len(us) : IsNative(us, m) =>
    /\ Under(Len(F), us, m) \in 1..Len(F)
    /\ Fits(us, Under(Len(F), us, m), F[Under(Len(F), us, m)], us[m].base)

CalledExact(F, us) ==
  \A k \in 1..Len(F) - 1 :
    /\ Called(us, k)
    /\ \A m \in 1..Len(us) : IsNative(us, m) => Under(Len(F), us, m) # k
    => Exactly(F[k], F[k + 1].base)

\* Only a native function calls back.
Alternate(us) == \A m \in 1..Len(us) - 1 : IsRun(us, m + 1) => IsNative(us, m)

Deep(F, t, us) ==
  /\ FramesDeep(F) /\ HostDeep(F, t, us) /\ TopDeep(F, t, us)
  /\ NativesDeep(F, us) /\ CalledExact(F, us) /\ Alternate(us)

\* What the invariant says of the frames and the activations alone.
FrameOk(f) ==
  /\ f \in Frame /\ f.base \in Int /\ LocalsEnd(f) \in Int /\ f.base <= LocalsEnd(f)

Nested(F, us) ==
  /\ Len(F) \in Nat /\ Len(us) \in Nat
  /\ \A k \in 1..Len(F) : FrameOk(F[k])
  /\ \A m \in 1..Len(us) : IsRun(us, m) => us[m].stopAt \in Nat /\ us[m].stopAt < Len(F)
  /\ \A m \in 1..Len(us) : IsNative(us, m) =>
       us[m].base \in Int /\ m > 1 /\ IsRun(us, m - 1) /\ (m < Len(us) => IsRun(us, m + 1))
  /\ \A m \in 1..Len(us) : IsRun(us, m) \/ IsNative(us, m)
  /\ \A m, n \in 1..Len(us) :
       m < n /\ IsRun(us, m) /\ IsRun(us, n) => us[m].stopAt < us[n].stopAt

LEMMA DepthsOk ==
  ASSUME CodeOk, NEW id \in DOMAIN Proto
  PROVE  /\ Depths(id) \in [0..Len(Proto[id].code) - 1 -> 0..Proto[id].stackSize]
         /\ DepthOk(Proto[id], Depths(id))
         /\ Proto[id].code # <<>>
BY DEF CodeOk, WellFormed, Depths

LEMMA AtLeastFacts ==
  ASSUME CodeOk, NEW f, FrameOk(f), NEW h \in Int, AtLeast(f, h)
  PROVE  LocalsEnd(f) <= h /\ f.base <= h /\ \A g \in Int : h <= g => AtLeast(f, g)
<1>1. f.proto \in DOMAIN Proto /\ LocalsEnd(f) \in Int /\ f.base \in Int /\ f.base <= LocalsEnd(f)
  BY DEF FrameOk, Frame
<1> DEFINE d == Depths(f.proto)[f.pc]
<1>2. d \in Nat
  <2>1. Depths(f.proto) \in [0..Len(Proto[f.proto].code) - 1 -> 0..Proto[f.proto].stackSize]
    BY <1>1, DepthsOk
  <2>2. f.pc \in 0..Len(Proto[f.proto].code) - 1
    BY DEF AtLeast
  <2>3. d \in 0..Proto[f.proto].stackSize
    BY <2>1, <2>2
  <2> QED BY <2>3, <1>1, ProtoFacts
<1>3. f.pc \in 0..Len(Proto[f.proto].code) - 1 /\ h >= LocalsEnd(f) + d
  BY DEF AtLeast
<1>4. ASSUME NEW g \in Int, h <= g PROVE AtLeast(f, g)
  <2> HIDE DEF d
  <2>1. g >= LocalsEnd(f) + d
    BY <1>1, <1>2, <1>3, <1>4
  <2> QED BY <1>3, <2>1 DEF AtLeast, d
<1> HIDE DEF d
<1>5. LocalsEnd(f) <= h /\ f.base <= h
  BY <1>1, <1>2, <1>3
<1> QED BY <1>4, <1>5

\* A frame that has just been pushed.
LEMMA NewFrameExact ==
  ASSUME CodeOk, NEW id \in DOMAIN Proto, NEW base \in Int
  PROVE  /\ AtLeast(NewFrame(id, base), base + Proto[id].localCount)
         /\ Exactly(NewFrame(id, base), base + Proto[id].localCount)
<1> DEFINE f == NewFrame(id, base)
<1>1. f.proto = id /\ f.pc = 0 /\ LocalsEnd(f) = base + Proto[id].localCount
  BY DEF NewFrame, LocalsEnd
<1>2. Depths(id)[0] = 0
  BY DepthsOk DEF DepthOk
<1>3. 0 \in 0..Len(Proto[id].code) - 1
  <2>1. Proto[id].code \in Seq(Instr) /\ Proto[id].code # <<>>
    BY DepthsOk, ProtoFacts
  <2> QED BY <2>1
<1>4. Proto[id].localCount \in Int
  BY ProtoFacts
<1> HIDE DEF f
<1>5. AtLeast(f, base + Proto[id].localCount) /\ Exactly(f, base + Proto[id].localCount)
  BY <1>1, <1>2, <1>3, <1>4 DEF AtLeast, Exactly
<1> QED BY <1>5 DEF f

LEMMA CalledFewer ==
  ASSUME NEW us, NEW vs, Len(us) \in Nat, Len(vs) \in Nat, Len(vs) <= Len(us),
         \A m \in 1..Len(vs) : vs[m] = us[m], NEW k, Called(vs, k)
  PROVE  Called(us, k)
<1>1. PICK m \in 1..Len(vs) : vs[m].type = "run" /\ vs[m].call /\ vs[m].stopAt < k
  BY DEF Called
<1>2. m \in 1..Len(us) /\ vs[m] = us[m]
  OBVIOUS
<1> QED BY <1>1, <1>2 DEF Called

\* The run of activation a ends, by an error or by its last return: what is left
\* is as it was when the run started.
LEMMA DeepCut ==
  ASSUME NEW F, NEW us, NEW t, Nested(F, us), Deep(F, t, us),
         NEW a \in 1..Len(us), IsRun(us, a),
         NEW G, NEW vs, NEW u,
         Len(G) = us[a].stopAt, \A k \in 1..Len(G) : G[k] = F[k],
         Len(vs) = a - 1, \A m \in 1..Len(vs) : vs[m] = us[m],
         a = 1 => \A k \in 1..us[1].stopAt : AtLeast(G[k], u)
  PROVE  Deep(G, u, vs)
<1>1. /\ Len(F) \in Nat /\ Len(us) \in Nat /\ Len(G) \in Nat /\ Len(G) < Len(F)
      /\ Len(vs) \in Nat /\ Len(vs) < Len(us)
      /\ \A k \in 1..Len(G) : k \in 1..Len(F)
      /\ \A m \in 1..Len(vs) : m \in 1..Len(us) /\ m < a
  BY DEF Nested
<1>2. \A m \in 1..Len(us) : m < a /\ IsRun(us, m) => us[m].stopAt \in Nat /\ us[m].stopAt < Len(G)
  BY DEF Nested
<1>3. \A k : Called(vs, k) => Called(us, k)
  <2>1. Len(vs) <= Len(us)
    BY <1>1
  <2> QED BY <1>1, <2>1, CalledFewer
<1>4. \A m \in 1..Len(vs) : IsNative(vs, m) =>
        Under(Len(G), vs, m) = Under(Len(F), us, m) /\ Under(Len(G), vs, m) <= Len(G)
  <2> SUFFICES ASSUME NEW m \in 1..Len(vs), IsNative(vs, m)
               PROVE  Under(Len(G), vs, m) = us[m + 1].stopAt /\ m < Len(us) /\ us[m + 1].stopAt <= Len(G)
    BY DEF Under
  <2>1. m \in 1..Len(us) /\ m + 1 \in 1..Len(us) /\ m + 1 <= a /\ IsNative(us, m)
    BY <1>1 DEF IsNative
  <2>2. IsRun(us, m + 1)
    BY <2>1 DEF Nested
  <2>3. CASE m + 1 = a
    BY <1>1, <2>1, <2>3 DEF Under
  <2>4. CASE m + 1 # a
    <3>1. m + 1 < a /\ m < Len(vs) /\ m + 1 \in 1..Len(vs)
      BY <1>1, <2>1, <2>4
    <3>2. vs[m + 1] = us[m + 1] /\ us[m + 1].stopAt \in Nat /\ us[m + 1].stopAt < Len(G)
      BY <1>2, <2>1, <2>2, <3>1
    <3> QED BY <1>1, <3>1, <3>2 DEF Under
  <2> QED BY <2>3, <2>4
<1>5. FramesDeep(G)
  <2> SUFFICES ASSUME NEW j \in 1..Len(G), NEW k \in 1..Len(G), j < k
               PROVE  AtLeast(G[j], G[k].base)
    BY DEF FramesDeep
  <2>1. G[j] = F[j] /\ G[k] = F[k] /\ j \in 1..Len(F) /\ k \in 1..Len(F)
    BY <1>1
  <2> QED BY <2>1 DEF Deep, FramesDeep
<1>6. HostDeep(G, u, vs)
  <2>1. Len(vs) = 0 => \A k \in 1..Len(G) : AtLeast(G[k], u)
    BY <1>1
  <2>2. ASSUME Len(vs) > 0 PROVE \A k \in 1..vs[1].stopAt : AtLeast(G[k], vs[1].top)
    <3>1. 1 \in 1..Len(vs) /\ vs[1] = us[1] /\ 1 \in 1..Len(us) /\ 1 < a
      BY <1>1, <2>2
    <3>2. IsRun(us, 1)
      BY <3>1 DEF Nested
    <3>3. us[1].stopAt \in Nat /\ us[1].stopAt < Len(G)
      BY <1>2, <3>1, <3>2
    <3>4. \A k \in 1..us[1].stopAt : AtLeast(F[k], us[1].top)
      BY <1>1, <3>1 DEF Deep, HostDeep
    <3>5. \A k \in 1..us[1].stopAt : k \in 1..Len(G) /\ G[k] = F[k]
      BY <1>1, <3>3
    <3> QED BY <3>1, <3>4, <3>5
  <2> QED BY <2>1, <2>2 DEF HostDeep
<1>7. TopDeep(G, u, vs)
  <2> SUFFICES ASSUME RunsNow(vs) PROVE FALSE
    BY DEF TopDeep
  <2>1. Len(vs) \in 1..Len(us) - 1 /\ vs[Len(vs)] = us[Len(vs)] /\ Len(vs) + 1 = a
    BY <1>1 DEF RunsNow
  <2>2. IsNative(us, Len(vs))
    BY <2>1 DEF Deep, Alternate
  <2> QED BY <2>1, <2>2 DEF RunsNow, IsRun, IsNative
<1>8. NativesDeep(G, vs)
  <2> SUFFICES ASSUME NEW m \in 1..Len(vs), IsNative(vs, m)
               PROVE  /\ Under(Len(G), vs, m) \in 1..Len(G)
                      /\ Fits(vs, Under(Len(G), vs, m), G[Under(Len(G), vs, m)], vs[m].base)
    BY DEF NativesDeep
  <2> DEFINE n == Under(Len(F), us, m)
  <2>1. m \in 1..Len(us) /\ vs[m] = us[m] /\ IsNative(us, m)
    BY <1>1 DEF IsNative
  <2>2. n \in 1..Len(F) /\ Fits(us, n, F[n], us[m].base)
    BY <2>1 DEF Deep, NativesDeep
  <2>3. Under(Len(G), vs, m) = n /\ n <= Len(G)
    BY <1>4
  <2> HIDE DEF n
  <2>4. n \in 1..Len(G)
    BY <1>1, <2>2, <2>3
  <2>5. G[n] = F[n]
    BY <2>4
  <2> QED BY <1>3, <2>1, <2>2, <2>3, <2>4, <2>5 DEF Fits
<1>9. CalledExact(G, vs)
  <2> SUFFICES ASSUME NEW k \in 1..Len(G) - 1, Called(vs, k),
                      \A m \in 1..Len(vs) : IsNative(vs, m) => Under(Len(G), vs, m) # k
               PROVE  Exactly(G[k], G[k + 1].base)
    BY DEF CalledExact
  <2>1. k \in 1..Len(F) - 1 /\ k + 1 \in 1..Len(G) /\ k \in 1..Len(G)
    BY <1>1
  <2>2. \A m \in 1..Len(us) : IsNative(us, m) => Under(Len(F), us, m) # k
    <3> SUFFICES ASSUME NEW m \in 1..Len(us), IsNative(us, m) PROVE Under(Len(F), us, m) # k
      OBVIOUS
    <3>1. CASE m < a
      <4>1. m \in 1..Len(vs) /\ IsNative(vs, m)
        BY <1>1, <3>1 DEF IsNative
      <4> QED BY <1>4, <4>1
    <3>2. CASE ~(m < a)
      <4>1. m > a
        BY <3>2 DEF IsRun, IsNative
      <4>2. CASE m < Len(us)
        <5>1. m + 1 \in 1..Len(us) /\ a < m + 1 /\ IsRun(us, m + 1)
          BY <1>1, <4>1, <4>2 DEF Nested
        <5>2. us[a].stopAt < us[m + 1].stopAt /\ us[m + 1].stopAt \in Nat
          BY <5>1 DEF Nested
        <5>3. us[m + 1].stopAt # k
          BY <1>1, <2>1, <5>2
        <5> QED BY <4>2, <5>3 DEF Under
      <4>3. CASE ~(m < Len(us))
        BY <1>1, <2>1, <4>3 DEF Under
      <4> QED BY <4>2, <4>3
    <3> QED BY <3>1, <3>2
  <2>3. Exactly(F[k], F[k + 1].base)
    BY <1>3, <2>1, <2>2 DEF Deep, CalledExact
  <2> QED BY <2>1, <2>3
<1>10. Alternate(vs)
  <2> SUFFICES ASSUME NEW m \in 1..Len(vs) - 1, IsRun(vs, m + 1) PROVE IsNative(vs, m)
    BY DEF Alternate
  <2>1. m \in 1..Len(us) - 1 /\ m \in 1..Len(vs) /\ m + 1 \in 1..Len(vs)
    BY <1>1
  <2>2. IsNative(us, m)
    BY <2>1 DEF Deep, Alternate, IsRun
  <2> QED BY <2>1, <2>2 DEF IsNative
<1> QED BY <1>5, <1>6, <1>7, <1>8, <1>9, <1>10 DEF Deep

\* Under a run, the frames that activations were called from are below the top.
LEMMA UnderTop ==
  ASSUME NEW F, NEW us, Nested(F, us), RunsNow(us), NEW m \in 1..Len(us), IsNative(us, m), NEW n
  PROVE  /\ m < Len(us) /\ Under(n, us, m) = us[m + 1].stopAt
         /\ us[m + 1].stopAt \in Nat /\ us[m + 1].stopAt <= us[Len(us)].stopAt
         /\ us[Len(us)].stopAt \in Nat /\ us[Len(us)].stopAt < Len(F)
<1>1. Len(us) \in Nat /\ Len(us) \in 1..Len(us) /\ IsRun(us, Len(us))
  BY DEF Nested, RunsNow
<1>2. m < Len(us)
  <2>1. m # Len(us)
    BY <1>1 DEF IsRun, IsNative
  <2> QED BY <1>1, <2>1
<1>3. m + 1 \in 1..Len(us) /\ IsRun(us, m + 1)
  BY <1>1, <1>2 DEF Nested
<1>4. us[m + 1].stopAt \in Nat /\ us[Len(us)].stopAt \in Nat /\ us[Len(us)].stopAt < Len(F)
  BY <1>1, <1>3 DEF Nested
<1>5. us[m + 1].stopAt <= us[Len(us)].stopAt
  <2>1. CASE m + 1 = Len(us)
    BY <1>4, <2>1
  <2>2. CASE m + 1 < Len(us)
    <3>1. us[m + 1].stopAt < us[Len(us)].stopAt
      BY <1>1, <1>3, <2>2 DEF Nested
    <3> QED BY <1>4, <3>1
  <2> QED BY <1>1, <1>2, <2>1, <2>2
<1> QED BY <1>2, <1>4, <1>5 DEF Under

\* The first activation is a run, and its frames are above those of the host.
LEMMA HostBelow ==
  ASSUME NEW F, NEW us, Nested(F, us), Len(us) > 0
  PROVE  1 \in 1..Len(us) /\ IsRun(us, 1) /\ us[1].stopAt \in Nat /\ us[1].stopAt < Len(F)
<1>1. 1 \in 1..Len(us)
  BY DEF Nested
<1>2. IsRun(us, 1)
  BY <1>1 DEF Nested
<1> QED BY <1>1, <1>2 DEF Nested

\* All frames have their values below the top.
LEMMA AllBelow ==
  ASSUME CodeOk, NEW F, NEW us, NEW t \in Int, Nested(F, us), Deep(F, t, us), RunsNow(us)
  PROVE  \A k \in 1..Len(F) : AtLeast(F[k], t)
<1>1. Len(F) \in Nat /\ \A k \in 1..Len(F) : FrameOk(F[k])
  BY DEF Nested
<1>2. AtLeast(F[Len(F)], t)
  BY DEF Deep, TopDeep, Fits
<1> SUFFICES ASSUME NEW k \in 1..Len(F) PROVE AtLeast(F[k], t)
  OBVIOUS
<1>3. CASE k = Len(F)
  BY <1>2, <1>3
<1>4. CASE k # Len(F)
  <2>1. Len(F) \in 1..Len(F) /\ k < Len(F)
    BY <1>1, <1>4
  <2>2. AtLeast(F[k], F[Len(F)].base)
    BY <2>1 DEF Deep, FramesDeep
  <2>3. FrameOk(F[k]) /\ FrameOk(F[Len(F)])
    BY <1>1, <2>1
  <2>4. F[Len(F)].base \in Int /\ F[Len(F)].base <= t
    BY <1>2, <2>3, AtLeastFacts DEF FrameOk
  <2> QED BY <2>2, <2>3, <2>4, AtLeastFacts
<1> QED BY <1>3, <1>4

\* The code of the top frame moved on: only that frame and the top changed.
LEMMA DeepTop ==
  ASSUME NEW F, NEW us, NEW t, Nested(F, us), Deep(F, t, us), RunsNow(us),
         NEW G, NEW u, Len(G) = Len(F),
         \A k \in 1..Len(F) : G[k].base = F[k].base /\ (k < Len(F) => G[k] = F[k]),
         Fits(us, Len(F), G[Len(F)], u)
  PROVE  Deep(G, u, us)
<1>1. Len(F) \in Nat /\ Len(us) \in Nat /\ Len(us) > 0
  BY DEF Nested, RunsNow
<1>2. FramesDeep(G)
  <2> SUFFICES ASSUME NEW j \in 1..Len(F), NEW k \in 1..Len(F), j < k
               PROVE  AtLeast(G[j], G[k].base)
    BY DEF FramesDeep
  <2>1. G[j] = F[j] /\ G[k].base = F[k].base
    BY <1>1
  <2> QED BY <2>1 DEF Deep, FramesDeep
<1>3. HostDeep(G, u, us)
  <2>1. us[1].stopAt \in Nat /\ us[1].stopAt < Len(F)
    BY <1>1, HostBelow
  <2>2. \A k \in 1..us[1].stopAt : G[k] = F[k]
    BY <1>1, <2>1
  <2> QED BY <1>1, <2>2 DEF Deep, HostDeep
<1>4. TopDeep(G, u, us)
  BY DEF TopDeep
<1>5. NativesDeep(G, us)
  <2> SUFFICES ASSUME NEW m \in 1..Len(us), IsNative(us, m)
               PROVE  /\ Under(Len(F), us, m) \in 1..Len(F)
                      /\ Fits(us, Under(Len(F), us, m), G[Under(Len(F), us, m)], us[m].base)
    BY DEF NativesDeep
  <2> DEFINE n == Under(Len(F), us, m)
  <2>1. n \in 1..Len(F) /\ Fits(us, n, F[n], us[m].base)
    BY DEF Deep, NativesDeep
  <2>2. n < Len(F)
    <3>1. n = us[m + 1].stopAt /\ us[m + 1].stopAt \in Nat /\ us[m + 1].stopAt <= us[Len(us)].stopAt
          /\ us[Len(us)].stopAt \in Nat /\ us[Len(us)].stopAt < Len(F)
      BY UnderTop
    <3> QED BY <1>1, <3>1
  <2> HIDE DEF n
  <2> QED BY <2>1, <2>2 DEF n
<1>6. CalledExact(G, us)
  <2> SUFFICES ASSUME NEW k \in 1..Len(F) - 1, Called(us, k),
                      \A m \in 1..Len(us) : IsNative(us, m) => Under(Len(F), us, m) # k
               PROVE  Exactly(G[k], G[k + 1].base)
    BY DEF CalledExact
  <2>1. k \in 1..Len(F) /\ k < Len(F) /\ k + 1 \in 1..Len(F)
    BY <1>1
  <2>2. Exactly(F[k], F[k + 1].base)
    BY DEF Deep, CalledExact
  <2>3. G[k] = F[k] /\ G[k + 1].base = F[k + 1].base
    BY <2>1
  <2> QED BY <2>2, <2>3
<1>7. Alternate(us)
  BY DEF Deep
<1> QED BY <1>2, <1>3, <1>4, <1>5, <1>6, <1>7 DEF Deep

\* A frame pushed where the values of the top frame end.
LEMMA DeepPush ==
  ASSUME CodeOk, NEW F, NEW us, NEW t \in Int, Nested(F, us), Deep(F, t, us), RunsNow(us),
         NEW G, NEW u, NEW f, Len(G) = Len(F) + 1, \A k \in 1..Len(F) : G[k] = F[k],
         G[Len(F) + 1] = f, f.base = t, AtLeast(f, u), Exactly(f, u)
  PROVE  Deep(G, u, us)
<1>1. Len(F) \in Nat /\ Len(us) \in Nat /\ Len(us) > 0
  BY DEF Nested, RunsNow
<1>2. FramesDeep(G)
  <2> SUFFICES ASSUME NEW j \in 1..Len(F) + 1, NEW k \in 1..Len(F) + 1, j < k
               PROVE  AtLeast(G[j], G[k].base)
    BY DEF FramesDeep
  <2>1. j \in 1..Len(F) /\ G[j] = F[j]
    BY <1>1
  <2>2. CASE k = Len(F) + 1
    BY <2>1, <2>2, AllBelow
  <2>3. CASE k # Len(F) + 1
    <3>1. k \in 1..Len(F) /\ G[k] = F[k]
      BY <1>1, <2>3
    <3> QED BY <2>1, <3>1 DEF Deep, FramesDeep
  <2> QED BY <2>2, <2>3
<1>3. HostDeep(G, u, us)
  <2>1. us[1].stopAt \in Nat /\ us[1].stopAt < Len(F)
    BY <1>1, HostBelow
  <2>2. \A k \in 1..us[1].stopAt : G[k] = F[k]
    BY <1>1, <2>1
  <2> QED BY <1>1, <2>2 DEF Deep, HostDeep
<1>4. TopDeep(G, u, us)
  BY DEF TopDeep, Fits
<1>5. \A m \in 1..Len(us) : IsNative(us, m) => Under(Len(G), us, m) = Under(Len(F), us, m)
  BY UnderTop
<1>6. NativesDeep(G, us)
  <2> SUFFICES ASSUME NEW m \in 1..Len(us), IsNative(us, m)
               PROVE  /\ Under(Len(F), us, m) \in 1..Len(F) + 1
                      /\ Fits(us, Under(Len(F), us, m), G[Under(Len(F), us, m)], us[m].base)
    BY <1>5 DEF NativesDeep
  <2> DEFINE n == Under(Len(F), us, m)
  <2>1. n \in 1..Len(F) /\ Fits(us, n, F[n], us[m].base)
    BY DEF Deep, NativesDeep
  <2> HIDE DEF n
  <2> QED BY <1>1, <2>1 DEF n
<1>7. CalledExact(G, us)
  <2> SUFFICES ASSUME NEW k \in 1..Len(F), Called(us, k),
                      \A m \in 1..Len(us) : IsNative(us, m) => Under(Len(G), us, m) # k
               PROVE  Exactly(G[k], G[k + 1].base)
    <3>1. Len(G) - 1 = Len(F)
      BY <1>1
    <3> QED BY <3>1 DEF CalledExact
  <2>1. CASE k = Len(F)
    <3>1. Exactly(F[k], t)
      BY <2>1 DEF Deep, TopDeep, Fits
    <3> QED BY <2>1, <3>1
  <2>2. CASE k # Len(F)
    <3>1. k \in 1..Len(F) - 1 /\ k + 1 \in 1..Len(F)
      BY <1>1, <2>2
    <3>2. Exactly(F[k], F[k + 1].base)
      BY <1>5, <3>1 DEF Deep, CalledExact
    <3> QED BY <3>1, <3>2
  <2> QED BY <2>1, <2>2
<1>8. Alternate(us)
  BY DEF Deep
<1> QED BY <1>2, <1>3, <1>4, <1>6, <1>7, <1>8 DEF Deep

\* One more activation that is no call: whose frames are called is as before.
LEMMA CalledSame ==
  ASSUME NEW us, NEW vs, Len(us) \in Nat, Len(vs) = Len(us) + 1,
         \A m \in 1..Len(us) : vs[m] = us[m], NEW k,
         ~(IsRun(vs, Len(vs)) /\ vs[Len(vs)].call /\ vs[Len(vs)].stopAt < k)
  PROVE  Called(vs, k) <=> Called(us, k)
<1>1. Called(us, k) => Called(vs, k)
  <2>1. Len(us) <= Len(vs) /\ Len(vs) \in Nat
    OBVIOUS
  <2> QED BY <2>1, CalledFewer
<1>2. ASSUME Called(vs, k) PROVE Called(us, k)
  <2>1. PICK m \in 1..Len(vs) : vs[m].type = "run" /\ vs[m].call /\ vs[m].stopAt < k
    BY <1>2 DEF Called
  <2>2. m \in 1..Len(us) /\ vs[m] = us[m]
    BY <2>1 DEF IsRun
  <2> QED BY <2>1, <2>2 DEF Called
<1> QED BY <1>1, <1>2

\* The top frame calls a native function, which takes over.
LEMMA DeepNative ==
  ASSUME NEW F, NEW us, NEW t, Nested(F, us), Deep(F, t, us), RunsNow(us),
         NEW vs, NEW u, Len(vs) = Len(us) + 1, \A m \in 1..Len(us) : vs[m] = us[m],
         IsNative(vs, Len(us) + 1), vs[Len(us) + 1].base = t
  PROVE  Deep(F, u, vs)
<1>1. /\ Len(F) \in Nat /\ Len(us) \in Nat /\ Len(us) > 0 /\ Len(vs) \in Nat
      /\ Len(us) \in 1..Len(us) /\ Len(us) + 1 \in 1..Len(vs)
  BY DEF Nested, RunsNow
<1>2. \A k : Called(vs, k) <=> Called(us, k)
  <2>1. ~IsRun(vs, Len(vs))
    BY DEF IsRun, IsNative
  <2> QED BY <1>1, <2>1, CalledSame
<1>3. HostDeep(F, u, vs)
  <2>1. vs[1] = us[1]
    BY <1>1
  <2> QED BY <1>1, <2>1 DEF Deep, HostDeep
<1>4. TopDeep(F, u, vs)
  BY DEF TopDeep, RunsNow, IsRun, IsNative
<1>5. \A m \in 1..Len(us) : IsNative(us, m) =>
        IsNative(vs, m) /\ Under(Len(F), vs, m) = Under(Len(F), us, m)
  <2> SUFFICES ASSUME NEW m \in 1..Len(us), IsNative(us, m)
               PROVE  Under(Len(F), vs, m) = Under(Len(F), us, m)
    BY DEF IsNative
  <2>1. m < Len(us) /\ Under(Len(F), us, m) = us[m + 1].stopAt
    BY UnderTop
  <2>2. m < Len(vs) /\ vs[m + 1] = us[m + 1]
    BY <1>1, <2>1
  <2> QED BY <2>1, <2>2 DEF Under
<1>6. NativesDeep(F, vs)
  <2> SUFFICES ASSUME NEW m \in 1..Len(vs), IsNative(vs, m)
               PROVE  /\ Under(Len(F), vs, m) \in 1..Len(F)
                      /\ Fits(vs, Under(Len(F), vs, m), F[Under(Len(F), vs, m)], vs[m].base)
    BY DEF NativesDeep
  <2>1. CASE m = Len(us) + 1
    <3>1. Under(Len(F), vs, m) = Len(F)
      BY <1>1, <2>1 DEF Under
    <3>2. Fits(us, Len(F), F[Len(F)], t)
      BY DEF Deep, TopDeep
    <3>3. Len(F) \in 1..Len(F)
      <4>1. IsRun(us, Len(us)) /\ Len(us) \in 1..Len(us)
        BY <1>1 DEF RunsNow
      <4>2. us[Len(us)].stopAt \in Nat /\ us[Len(us)].stopAt < Len(F)
        BY <4>1 DEF Nested
      <4> QED BY <1>1, <4>2
    <3> QED BY <1>2, <2>1, <3>1, <3>2, <3>3 DEF Fits
  <2>2. CASE m # Len(us) + 1
    <3>1. m \in 1..Len(us) /\ IsNative(us, m) /\ vs[m] = us[m]
      BY <1>1, <2>2 DEF IsNative
    <3> DEFINE n == Under(Len(F), us, m)
    <3>2. n \in 1..Len(F) /\ Fits(us, n, F[n], us[m].base)
      BY <3>1 DEF Deep, NativesDeep
    <3>3. Under(Len(F), vs, m) = n
      BY <1>5, <3>1
    <3> HIDE DEF n
    <3> QED BY <1>2, <3>1, <3>2, <3>3 DEF Fits
  <2> QED BY <2>1, <2>2
<1>7. CalledExact(F, vs)
  <2> SUFFICES ASSUME NEW k \in 1..Len(F) - 1, Called(vs, k),
                      \A m \in 1..Len(vs) : IsNative(vs, m) => Under(Len(F), vs, m) # k
               PROVE  Exactly(F[k], F[k + 1].base)
    BY DEF CalledExact
  <2>1. \A m \in 1..Len(us) : m \in 1..Len(vs)
    BY <1>1
  <2>2. \A m \in 1..Len(us) : IsNative(us, m) => Under(Len(F), us, m) # k
    BY <1>5, <2>1
  <2> QED BY <1>2, <2>2 DEF Deep, CalledExact
<1>8. Alternate(vs)
  <2> SUFFICES ASSUME NEW m \in 1..Len(us), IsRun(vs, m + 1) PROVE IsNative(vs, m)
    <3>1. Len(vs) - 1 = Len(us)
      BY <1>1
    <3> QED BY <3>1 DEF Alternate
  <2>1. m # Len(us)
    BY DEF IsRun, IsNative
  <2>2. m \in 1..Len(us) - 1 /\ m + 1 \in 1..Len(us)
    BY <1>1, <2>1
  <2>3. IsNative(us, m)
    BY <2>2 DEF Deep, Alternate, IsRun
  <2> QED BY <2>3 DEF IsNative
<1>9. FramesDeep(F)
  BY DEF Deep
<1> QED BY <1>3, <1>4, <1>6, <1>7, <1>8, <1>9 DEF Deep

\* The native function at the top is done: its caller finds the result.
LEMMA DeepResume ==
  ASSUME NEW F, NEW us, NEW t, Nested(F, us), Deep(F, t, us), Len(us) > 0, IsNative(us, Len(us)),
         NEW vs, Len(vs) = Len(us) - 1, \A m \in 1..Len(vs) : vs[m] = us[m]
  PROVE  Deep(F, us[Len(us)].base, vs)
<1> DEFINE b == us[Len(us)].base
<1>1. /\ Len(F) \in Nat /\ Len(us) \in Nat /\ Len(vs) \in Nat /\ Len(vs) \in 1..Len(vs)
      /\ Len(us) \in 1..Len(us) /\ Len(vs) < Len(us)
      /\ \A m \in 1..Len(vs) : m \in 1..Len(us)
  <2>1. Len(us) \in Nat /\ Len(us) \in 1..Len(us)
    BY DEF Nested
  <2>2. Len(us) > 1 /\ Len(F) \in Nat
    BY <2>1 DEF Nested
  <2> QED BY <2>1, <2>2
<1>2. \A k : Called(vs, k) <=> Called(us, k)
  <2>1. ~IsRun(us, Len(us))
    BY DEF IsRun, IsNative
  <2>2. Len(us) = Len(vs) + 1 /\ \A m \in 1..Len(vs) : us[m] = vs[m]
    BY <1>1
  <2> QED BY <1>1, <2>1, <2>2, CalledSame
<1>3. HostDeep(F, b, vs)
  <2>1. vs[1] = us[1]
    BY <1>1
  <2> QED BY <1>1, <2>1 DEF Deep, HostDeep
<1>4. Under(Len(F), us, Len(us)) = Len(F)
  BY DEF Under
<1>5. TopDeep(F, b, vs)
  <2>1. Fits(us, Len(F), F[Len(F)], b)
    BY <1>1, <1>4 DEF Deep, NativesDeep
  <2> QED BY <1>2, <2>1 DEF TopDeep, Fits
<1>6. \A m \in 1..Len(vs) : IsNative(vs, m) =>
        IsNative(us, m) /\ Under(Len(F), vs, m) = Under(Len(F), us, m)
  <2> SUFFICES ASSUME NEW m \in 1..Len(vs), IsNative(vs, m)
               PROVE  IsNative(us, m) /\ Under(Len(F), vs, m) = Under(Len(F), us, m)
    OBVIOUS
  <2>1. IsNative(us, m) /\ m \in 1..Len(us)
    BY <1>1 DEF IsNative
  <2>2. m # Len(vs)
    <3>1. IsRun(us, Len(us) - 1)
      BY <1>1 DEF Nested
    <3> QED BY <2>1, <3>1 DEF IsRun, IsNative
  <2>3. m < Len(vs) /\ m < Len(us) /\ vs[m + 1] = us[m + 1]
    BY <1>1, <2>2
  <2> QED BY <2>1, <2>3 DEF Under
<1>7. NativesDeep(F, vs)
  <2> SUFFICES ASSUME NEW m \in 1..Len(vs), IsNative(vs, m)
               PROVE  /\ Under(Len(F), vs, m) \in 1..Len(F)
                      /\ Fits(vs, Under(Len(F), vs, m), F[Under(Len(F), vs, m)], vs[m].base)
    BY DEF NativesDeep
  <2> DEFINE n == Under(Len(F), us, m)
  <2>1. m \in 1..Len(us) /\ IsNative(us, m) /\ Under(Len(F), vs, m) = n /\ vs[m] = us[m]
    BY <1>1, <1>6
  <2>2. n \in 1..Len(F) /\ Fits(us, n, F[n], us[m].base)
    BY <2>1 DEF Deep, NativesDeep
  <2> HIDE DEF n
  <2> QED BY <1>2, <2>1, <2>2 DEF Fits
<1>8. CalledExact(F, vs)
  <2> SUFFICES ASSUME NEW k \in 1..Len(F) - 1, Called(vs, k),
                      \A m \in 1..Len(vs) : IsNative(vs, m) => Under(Len(F), vs, m) # k
               PROVE  Exactly(F[k], F[k + 1].base)
    BY DEF CalledExact
  <2>1. \A m \in 1..Len(us) : IsNative(us, m) => Under(Len(F), us, m) # k
    <3> SUFFICES ASSUME NEW m \in 1..Len(us), IsNative(us, m) PROVE Under(Len(F), us, m) # k
      OBVIOUS
    <3>1. CASE m = Len(us)
      BY <1>1, <1>4, <3>1
    <3>2. CASE m # Len(us)
      <4>1. m \in 1..Len(vs) /\ vs[m] = us[m]
        BY <1>1, <3>2
      <4>2. IsNative(vs, m)
        BY <4>1 DEF IsNative
      <4> QED BY <1>6, <4>1, <4>2
    <3> QED BY <3>1, <3>2
  <2> QED BY <1>2, <2>1 DEF Deep, CalledExact
<1>9. Alternate(vs)
  <2> SUFFICES ASSUME NEW m \in 1..Len(vs) - 1, IsRun(vs, m + 1) PROVE IsNative(vs, m)
    BY DEF Alternate
  <2>1. m \in 1..Len(us) - 1 /\ m \in 1..Len(vs) /\ m + 1 \in 1..Len(vs)
    BY <1>1
  <2>2. IsNative(us, m)
    BY <2>1 DEF Deep, Alternate, IsRun
  <2> QED BY <2>1, <2>2 DEF IsNative
<1>10. FramesDeep(F)
  BY DEF Deep
<1> QED BY <1>3, <1>5, <1>7, <1>8, <1>9, <1>10 DEF Deep

\* The top frame returns to a frame of the same run.
LEMMA DeepReturn ==
  ASSUME NEW F, NEW us, NEW t, Nested(F, us), Deep(F, t, us), RunsNow(us),
         NEW G, Len(G) = Len(F) - 1, Len(G) > us[Len(us)].stopAt,
         \A k \in 1..Len(G) : G[k] = F[k]
  PROVE  Deep(G, F[Len(F)].base, us)
<1> DEFINE u == F[Len(F)].base
<1>1. /\ Len(F) \in Nat /\ Len(us) \in Nat /\ Len(us) > 0 /\ us[Len(us)].stopAt \in Nat
      /\ us[Len(us)].stopAt < Len(F)
  <2>1. Len(us) \in 1..Len(us) /\ IsRun(us, Len(us))
    BY DEF Nested, RunsNow
  <2> QED BY <2>1 DEF Nested
<1>2. /\ Len(G) \in Nat /\ Len(G) \in 1..Len(G) /\ Len(G) < Len(F) /\ Len(F) \in 1..Len(F)
      /\ Len(G) \in 1..Len(F) - 1 /\ Len(G) + 1 = Len(F)
      /\ \A k \in 1..Len(G) : k \in 1..Len(F)
  BY <1>1
<1>3. \A m \in 1..Len(us) : IsNative(us, m) =>
        Under(Len(G), us, m) = Under(Len(F), us, m) /\ Under(Len(F), us, m) < Len(G)
  <2> SUFFICES ASSUME NEW m \in 1..Len(us), IsNative(us, m)
               PROVE  Under(Len(G), us, m) = Under(Len(F), us, m) /\ Under(Len(F), us, m) < Len(G)
    OBVIOUS
  <2>1. /\ Under(Len(F), us, m) = us[m + 1].stopAt /\ Under(Len(G), us, m) = us[m + 1].stopAt
        /\ us[m + 1].stopAt \in Nat /\ us[m + 1].stopAt <= us[Len(us)].stopAt
    BY UnderTop
  <2> QED BY <1>1, <1>2, <2>1
<1>4. FramesDeep(G)
  BY <1>2 DEF Deep, FramesDeep
<1>5. HostDeep(G, u, us)
  <2>1. us[1].stopAt \in Nat /\ us[1].stopAt < Len(G)
    <3>1. us[1].stopAt \in Nat /\ us[1].stopAt <= us[Len(us)].stopAt
      <4>1. 1 \in 1..Len(us) /\ Len(us) \in 1..Len(us) /\ IsRun(us, 1) /\ us[1].stopAt \in Nat
            /\ IsRun(us, Len(us))
        BY <1>1, HostBelow DEF RunsNow
      <4>2. CASE Len(us) = 1
        BY <1>1, <4>1, <4>2
      <4>3. CASE 1 < Len(us)
        <5>1. us[1].stopAt < us[Len(us)].stopAt
          BY <4>1, <4>3 DEF Nested
        <5> QED BY <1>1, <4>1, <5>1
      <4> QED BY <1>1, <4>2, <4>3
    <3> QED BY <1>1, <1>2, <3>1
  <2> DEFINE n == us[1].stopAt
  <2>2. \A k \in 1..n : k \in 1..Len(G)
    <3> HIDE DEF n
    <3>1. n \in Nat /\ n < Len(G) /\ Len(G) \in Nat
      BY <1>2, <2>1 DEF n
    <3> QED BY <3>1
  <2>3. \A k \in 1..us[1].stopAt : G[k] = F[k]
    BY <2>2
  <2> QED BY <1>1, <2>3 DEF Deep, HostDeep
<1>6. TopDeep(G, u, us)
  <2>1. AtLeast(F[Len(G)], u)
    BY <1>2 DEF Deep, FramesDeep
  <2>2. ASSUME Called(us, Len(G)) PROVE Exactly(F[Len(G)], u)
    <3>1. \A m \in 1..Len(us) : IsNative(us, m) => Under(Len(F), us, m) # Len(G)
      <4> SUFFICES ASSUME NEW m \in 1..Len(us), IsNative(us, m)
                   PROVE  Under(Len(F), us, m) # Len(G)
        OBVIOUS
      <4>1. Under(Len(F), us, m) < Len(G)
        BY <1>3
      <4> QED BY <1>2, <4>1
    <3>2. Exactly(F[Len(G)], F[Len(G) + 1].base)
      BY <1>2, <2>2, <3>1 DEF Deep, CalledExact
    <3> QED BY <1>2, <3>2
  <2> QED BY <1>2, <2>1, <2>2 DEF TopDeep, Fits
<1>7. NativesDeep(G, us)
  <2> SUFFICES ASSUME NEW m \in 1..Len(us), IsNative(us, m)
               PROVE  /\ Under(Len(G), us, m) \in 1..Len(G)
                      /\ Fits(us, Under(Len(G), us, m), G[Under(Len(G), us, m)], us[m].base)
    BY DEF NativesDeep
  <2> DEFINE n == Under(Len(F), us, m)
  <2>1. n \in 1..Len(F) /\ Fits(us, n, F[n], us[m].base)
    BY DEF Deep, NativesDeep
  <2>2. Under(Len(G), us, m) = n /\ n < Len(G)
    BY <1>3
  <2> HIDE DEF n
  <2> QED BY <1>2, <2>1, <2>2
<1>8. CalledExact(G, us)
  <2> SUFFICES ASSUME NEW k \in 1..Len(G) - 1, Called(us, k),
                      \A m \in 1..Len(us) : IsNative(us, m) => Under(Len(G), us, m) # k
               PROVE  Exactly(G[k], G[k + 1].base)
    BY DEF CalledExact
  <2>1. k \in 1..Len(F) - 1 /\ k \in 1..Len(G) /\ k + 1 \in 1..Len(G)
    BY <1>2
  <2>2. Exactly(F[k], F[k + 1].base)
    BY <1>3, <2>1 DEF Deep, CalledExact
  <2> QED BY <2>1, <2>2
<1>9. Alternate(us)
  BY DEF Deep
<1> QED BY <1>4, <1>5, <1>6, <1>7, <1>8, <1>9 DEF Deep

\* The host or a native function calls: a frame above the top, and a run.
LEMMA DeepStart ==
  ASSUME CodeOk, NEW F, NEW us, NEW t \in Int, Nested(F, us), Deep(F, t, us), ~RunsNow(us),
         Len(us) > 0 => us[Len(us)].base <= t,
         NEW G, NEW u, NEW f, Len(G) = Len(F) + 1, \A k \in 1..Len(F) : G[k] = F[k],
         G[Len(F) + 1] = f, f.base = t + 1, AtLeast(f, u), Exactly(f, u),
         NEW vs, Len(vs) = Len(us) + 1, \A m \in 1..Len(us) : vs[m] = us[m],
         IsRun(vs, Len(us) + 1), vs[Len(us) + 1].stopAt = Len(F), vs[Len(us) + 1].top = t
  PROVE  Deep(G, u, vs)
<1> DEFINE L == Len(F)
           n == Len(us)
<1>1. /\ L \in Nat /\ n \in Nat /\ Len(vs) = n + 1 /\ Len(G) = L + 1
      /\ \A m \in 1..n : m \in 1..Len(vs) /\ m < Len(vs)
      /\ \A k \in 1..L : k \in 1..Len(G) /\ FrameOk(F[k])
  BY DEF Nested
<1>2. n > 0 => n \in 1..n /\ IsNative(us, n) /\ Under(L, us, n) = L /\ us[n].base \in Int /\ n > 1
  <2> SUFFICES ASSUME n > 0
               PROVE  n \in 1..n /\ IsNative(us, n) /\ Under(L, us, n) = L /\ us[n].base \in Int /\ n > 1
    OBVIOUS
  <2>1. n \in 1..n
    BY <1>1
  <2>2. IsNative(us, n)
    BY <2>1 DEF Nested, RunsNow
  <2> QED BY <2>1, <2>2 DEF Nested, Under
<1>3. \A j \in 1..L : AtLeast(F[j], t)
  <2>1. CASE n = 0
    BY <2>1 DEF Deep, HostDeep
  <2>2. CASE n # 0
    <3>1. n > 0
      BY <1>1, <2>2
    <3>2. L \in 1..L /\ AtLeast(F[L], us[n].base)
      BY <1>2, <3>1 DEF Deep, NativesDeep, Fits
    <3>3. FrameOk(F[L]) /\ F[L].base \in Int
      BY <1>1, <3>2 DEF FrameOk
    <3>4. AtLeast(F[L], t) /\ F[L].base <= t
      <4>1. us[n].base \in Int /\ us[n].base <= t
        BY <1>2, <3>1
      <4>2. AtLeast(F[L], t) /\ F[L].base <= us[n].base
        BY <3>2, <3>3, <4>1, AtLeastFacts
      <4> QED BY <3>3, <4>1, <4>2
    <3> SUFFICES ASSUME NEW j \in 1..L PROVE AtLeast(F[j], t)
      OBVIOUS
    <3>5. CASE j = L
      BY <3>4, <3>5
    <3>6. CASE j # L
      <4>1. j < L
        BY <1>1, <3>6
      <4>2. AtLeast(F[j], F[L].base)
        BY <3>2, <4>1 DEF Deep, FramesDeep
      <4>3. FrameOk(F[j])
        BY <1>1
      <4> QED BY <3>3, <3>4, <4>2, <4>3, AtLeastFacts
    <3> QED BY <3>5, <3>6
  <2> QED BY <2>1, <2>2
<1>4. \A j \in 1..L : AtLeast(F[j], t + 1)
  <2> SUFFICES ASSUME NEW j \in 1..L PROVE AtLeast(F[j], t + 1)
    OBVIOUS
  <2>1. t + 1 \in Int /\ t <= t + 1
    OBVIOUS
  <2>2. FrameOk(F[j]) /\ AtLeast(F[j], t)
    BY <1>1, <1>3
  <2> QED BY <2>1, <2>2, AtLeastFacts
<1>5. \A k \in 1..L : Called(vs, k) <=> Called(us, k)
  <2> SUFFICES ASSUME NEW k \in 1..L PROVE Called(vs, k) <=> Called(us, k)
    OBVIOUS
  <2>1. ~(vs[Len(vs)].stopAt < k)
    BY <1>1
  <2> QED BY <1>1, <2>1, CalledSame
<1>6. \A m \in 1..n : IsNative(us, m) <=> IsNative(vs, m)
  BY DEF IsNative
<1>7. \A m \in 1..n : Under(Len(G), vs, m) = Under(L, us, m)
  <2> SUFFICES ASSUME NEW m \in 1..n PROVE Under(Len(G), vs, m) = Under(L, us, m)
    OBVIOUS
  <2>1. Under(Len(G), vs, m) = vs[m + 1].stopAt
    BY <1>1 DEF Under
  <2>2. CASE m = n
    BY <1>1, <2>1, <2>2 DEF Under
  <2>3. CASE m # n
    <3>1. m < n /\ vs[m + 1] = us[m + 1]
      BY <1>1, <2>3
    <3> QED BY <2>1, <3>1 DEF Under
  <2> QED BY <2>2, <2>3
<1>8. \A m \in 1..Len(vs) : IsNative(vs, m) => m \in 1..n
  <2>1. ~IsNative(vs, n + 1)
    BY DEF IsRun, IsNative
  <2> QED BY <1>1, <2>1
<1>9. FramesDeep(G)
  <2> SUFFICES ASSUME NEW j \in 1..L + 1, NEW k \in 1..L + 1, j < k
               PROVE  AtLeast(G[j], G[k].base)
    BY DEF FramesDeep
  <2>1. j \in 1..L /\ G[j] = F[j]
    BY <1>1
  <2>2. CASE k = L + 1
    BY <1>4, <2>1, <2>2
  <2>3. CASE k # L + 1
    <3>1. k \in 1..L /\ G[k] = F[k]
      BY <1>1, <2>3
    <3> QED BY <2>1, <3>1 DEF Deep, FramesDeep
  <2> QED BY <2>2, <2>3
<1>10. HostDeep(G, u, vs)
  <2>1. Len(vs) > 0
    BY <1>1
  <2>2. \A k \in 1..vs[1].stopAt : AtLeast(G[k], vs[1].top)
    <3>1. CASE n = 0
      BY <1>3, <3>1
    <3>2. CASE n # 0
      <4>1. n > 0 /\ 1 \in 1..n /\ vs[1] = us[1]
        BY <1>1, <3>2
      <4>2. us[1].stopAt \in Nat /\ us[1].stopAt < L
        BY <4>1, HostBelow
      <4>3. \A k \in 1..us[1].stopAt : k \in 1..L
        BY <1>1, <4>2
      <4>4. \A k \in 1..us[1].stopAt : AtLeast(F[k], us[1].top)
        BY <4>1 DEF Deep, HostDeep
      <4> QED BY <4>1, <4>3, <4>4
    <3> QED BY <3>1, <3>2
  <2> QED BY <2>1, <2>2 DEF HostDeep
<1>11. TopDeep(G, u, vs)
  BY DEF TopDeep, Fits
<1>12. NativesDeep(G, vs)
  <2> SUFFICES ASSUME NEW m \in 1..Len(vs), IsNative(vs, m)
               PROVE  /\ Under(Len(G), vs, m) \in 1..Len(G)
                      /\ Fits(vs, Under(Len(G), vs, m), G[Under(Len(G), vs, m)], vs[m].base)
    BY DEF NativesDeep
  <2> DEFINE x == Under(L, us, m)
  <2>1. m \in 1..n /\ IsNative(us, m) /\ vs[m] = us[m] /\ Under(Len(G), vs, m) = x
    BY <1>6, <1>7, <1>8
  <2>2. x \in 1..L /\ Fits(us, x, F[x], us[m].base)
    BY <2>1 DEF Deep, NativesDeep
  <2> HIDE DEF x, L
  <2>3. G[x] = F[x] /\ x \in 1..Len(G)
    BY <1>1, <2>2 DEF L
  <2> QED BY <1>5, <2>1, <2>2, <2>3 DEF Fits
<1>13. CalledExact(G, vs)
  <2> SUFFICES ASSUME NEW k \in 1..L, Called(vs, k),
                      \A m \in 1..Len(vs) : IsNative(vs, m) => Under(Len(G), vs, m) # k
               PROVE  Exactly(G[k], G[k + 1].base)
    <3>1. Len(G) - 1 = L
      BY <1>1
    <3> QED BY <3>1 DEF CalledExact
  <2>1. Called(us, k)
    BY <1>5
  <2>2. \A m \in 1..n : IsNative(us, m) => Under(L, us, m) # k
    BY <1>1, <1>6, <1>7
  <2>3. CASE k = L
    <3>1. n = 0
      BY <1>1, <1>2, <2>2, <2>3
    <3> QED BY <2>1, <3>1 DEF Called
  <2>4. CASE k # L
    <3>1. k \in 1..L - 1 /\ k + 1 \in 1..L
      BY <1>1, <2>4
    <3>2. Exactly(F[k], F[k + 1].base)
      BY <2>1, <2>2, <3>1 DEF Deep, CalledExact
    <3> QED BY <3>1, <3>2
  <2> QED BY <2>3, <2>4
<1>14. Alternate(vs)
  <2> SUFFICES ASSUME NEW m \in 1..n, IsRun(vs, m + 1) PROVE IsNative(vs, m)
    <3>1. Len(vs) - 1 = n
      BY <1>1
    <3> QED BY <3>1 DEF Alternate
  <2>1. CASE m = n
    BY <1>1, <1>2, <1>6, <2>1
  <2>2. CASE m # n
    <3>1. m \in 1..n - 1 /\ m + 1 \in 1..n
      BY <1>1, <2>2
    <3>2. IsNative(us, m)
      BY <3>1 DEF Deep, Alternate, IsRun
    <3> QED BY <3>2 DEF IsNative
  <2> QED BY <2>1, <2>2
<1> QED BY <1>9, <1>10, <1>11, <1>12, <1>13, <1>14 DEF Deep

\* With no activation, only the frames and the top matter.
LEMMA DeepHost ==
  ASSUME NEW F, NEW us, NEW t, Len(us) = 0, FramesDeep(F), \A k \in 1..Len(F) : AtLeast(F[k], t)
  PROVE  Deep(F, t, us)
BY DEF Deep, HostDeep, TopDeep, RunsNow, NativesDeep, CalledExact, Called, Alternate

\* The host pushes a frame itself.
LEMMA DeepHostPush ==
  ASSUME CodeOk, NEW F, NEW us, NEW t \in Int, Nested(F, us), Deep(F, t, us), Len(us) = 0,
         NEW G, NEW u \in Int, NEW f, Len(G) = Len(F) + 1, \A k \in 1..Len(F) : G[k] = F[k],
         G[Len(F) + 1] = f, f.base = t + 1, AtLeast(f, u), t + 1 <= u
  PROVE  Deep(G, u, us)
<1>1. Len(F) \in Nat /\ \A k \in 1..Len(F) : FrameOk(F[k]) /\ AtLeast(F[k], t)
  BY DEF Nested, Deep, HostDeep
<1>2. \A k \in 1..Len(F) : AtLeast(F[k], t + 1) /\ AtLeast(F[k], u)
  <2> SUFFICES ASSUME NEW k \in 1..Len(F) PROVE AtLeast(F[k], t + 1) /\ AtLeast(F[k], u)
    OBVIOUS
  <2>1. t + 1 \in Int /\ t <= t + 1 /\ t <= u
    OBVIOUS
  <2> QED BY <1>1, <2>1, AtLeastFacts
<1>3. FramesDeep(G)
  <2> SUFFICES ASSUME NEW j \in 1..Len(F) + 1, NEW k \in 1..Len(F) + 1, j < k
               PROVE  AtLeast(G[j], G[k].base)
    BY DEF FramesDeep
  <2>1. j \in 1..Len(F) /\ G[j] = F[j]
    BY <1>1
  <2>2. CASE k = Len(F) + 1
    BY <1>2, <2>1, <2>2
  <2>3. CASE k # Len(F) + 1
    <3>1. k \in 1..Len(F) /\ G[k] = F[k]
      BY <1>1, <2>3
    <3> QED BY <2>1, <3>1 DEF Deep, FramesDeep
  <2> QED BY <2>2, <2>3
<1>4. \A k \in 1..Len(G) : AtLeast(G[k], u)
  <2> SUFFICES ASSUME NEW k \in 1..Len(F) + 1 PROVE AtLeast(G[k], u)
    OBVIOUS
  <2>1. CASE k = Len(F) + 1
    BY <2>1
  <2>2. CASE k # Len(F) + 1
    <3>1. k \in 1..Len(F)
      BY <1>1, <2>2
    <3> QED BY <1>2, <3>1
  <2> QED BY <2>1, <2>2
<1> QED BY <1>3, <1>4, DeepHost

\* The host runs the frames that are there.
LEMMA DeepHostRun ==
  ASSUME NEW F, NEW us, NEW t, Nested(F, us), Deep(F, t, us), Len(us) = 0,
         NEW vs, Len(vs) = 1, IsRun(vs, 1), ~vs[1].call, vs[1].top = t,
         vs[1].stopAt \in 0..Len(F) - 1
  PROVE  Deep(F, t, vs)
<1>1. Len(F) \in Nat /\ \A k \in 1..Len(F) : AtLeast(F[k], t)
  BY DEF Nested, Deep, HostDeep
<1>2. \A k : ~Called(vs, k)
  BY DEF Called
<1>3. HostDeep(F, t, vs)
  <2>1. \A k \in 1..vs[1].stopAt : k \in 1..Len(F)
    BY <1>1
  <2> QED BY <1>1, <2>1 DEF HostDeep
<1>4. TopDeep(F, t, vs)
  <2>1. Len(F) \in 1..Len(F)
    BY <1>1
  <2> QED BY <1>1, <1>2, <2>1 DEF TopDeep, Fits
<1>5. NativesDeep(F, vs)
  <2>1. \A m \in 1..Len(vs) : ~IsNative(vs, m)
    BY DEF IsRun, IsNative
  <2> QED BY <2>1 DEF NativesDeep
<1>6. CalledExact(F, vs) /\ Alternate(vs) /\ FramesDeep(F)
  BY <1>2 DEF CalledExact, Alternate, Deep
<1> QED BY <1>3, <1>4, <1>5, <1>6 DEF Deep

----------------------------------------------------------------------------
(* What the instructions do to the frame and the top.                        *)

LEMMA InvNested == Inv => Nested(co.frames, acts)
<1> SUFFICES ASSUME Inv PROVE Nested(co.frames, acts)
  OBVIOUS
<1>1. CoOk(co) /\ acts \in Acts /\ ActsOk(co, acts)
  BY DEF Inv
<1>2. Len(co.frames) \in Nat /\ \A k \in 1..Len(co.frames) : FrameOk(co.frames[k])
  <2>1. co.stackCap \in Nat /\ Len(co.frames) \in Nat
        /\ \A k \in 1..Len(co.frames) : co.frames[k] \in Frame /\ Window(co.stackCap, co.frames[k])
    BY <1>1, CoElim
  <2> QED BY <2>1, LocalsEndBound DEF FrameOk
<1>3. Len(acts) \in Nat /\ \A m \in 1..Len(acts) : acts[m] \in RunAct \cup NativeAct
  BY <1>1, ActsTyped
<1>4. \A m \in 1..Len(acts) : IsRun(acts, m) => acts[m].stopAt \in Nat /\ acts[m].stopAt < Len(co.frames)
  BY <1>1, <1>3, ActFields DEF ActsOk, RunOk, IsRun
<1>5. \A m \in 1..Len(acts) : IsNative(acts, m) =>
        acts[m].base \in Int /\ m > 1 /\ IsRun(acts, m - 1) /\ (m < Len(acts) => IsRun(acts, m + 1))
  BY <1>1, <1>3, ActFields DEF ActsOk, NativeOk, IsNative, IsRun
<1>6. \A m \in 1..Len(acts) : IsRun(acts, m) \/ IsNative(acts, m)
  BY <1>3, ActFields DEF IsRun, IsNative
<1>7. \A m, n \in 1..Len(acts) :
        m < n /\ IsRun(acts, m) /\ IsRun(acts, n) => acts[m].stopAt < acts[n].stopAt
  BY <1>1 DEF ActsOk, IsRun
<1> QED BY <1>2, <1>3, <1>4, <1>5, <1>6, <1>7 DEF Nested

LEMMA CountsNat ==
  ASSUME NEW i \in Instr
  PROVE  Pops(i) \in Nat /\ Pushes(i) \in Nat
<1>1. i.a \in 0..255
  BY DEF Instr
<1>2. BuildCount(i) \in Nat /\ i.a \in Nat /\ i.a + 1 \in Nat
  BY <1>1 DEF BuildCount
<1>3. Pops(i) \in Nat
  BY <1>2 DEF Pops
<1>4. Pushes(i) \in Nat
  BY <1>2 DEF Pushes
<1> QED BY <1>3, <1>4

\* What well-formedness says of the instruction a frame is at.
LEMMA AtFacts ==
  ASSUME CodeOk, NEW f, FrameOk(f), f.pc \in 0..Len(Proto[f.proto].code) - 1,
         NEW i, i = Proto[f.proto].code[f.pc + 1], NEW n, n = Depths(f.proto)[f.pc]
  PROVE  /\ i \in Instr /\ n \in Nat /\ OperandsOk(Proto[f.proto], i)
         /\ n >= Pops(i) /\ Pops(i) \in Nat /\ Pushes(i) \in Nat
         /\ Proto[f.proto].stackSize \in Int
         /\ i.op # "RETURN" => n - Pops(i) + Pushes(i) <= Proto[f.proto].stackSize
         /\ i.op = "UNPACK" => n + i.a <= Proto[f.proto].stackSize
         /\ \A pc \in Successors(i, f.pc) :
              /\ pc \in 0..Len(Proto[f.proto].code) - 1
              /\ Depths(f.proto)[pc] = n - Pops(i) + Pushes(i)
<1> DEFINE p == Proto[f.proto]
           d == Depths(f.proto)
<1>1. f.proto \in DOMAIN Proto
  BY DEF FrameOk, Frame
<1>2. /\ d \in [0..Len(p.code) - 1 -> 0..p.stackSize] /\ DepthOk(p, d)
      /\ p.code \in Seq(Instr) /\ p.stackSize \in Int
  BY <1>1, DepthsOk, ProtoFacts
<1>3. f.pc \in DOMAIN d
  BY <1>2
<1> HIDE DEF d
<1>4. /\ OperandsOk(p, i) /\ n >= Pops(i)
      /\ i.op # "RETURN" => n - Pops(i) + Pushes(i) <= p.stackSize
      /\ i.op = "UNPACK" => n + i.a <= p.stackSize
      /\ \A pc \in Successors(i, f.pc) : pc \in DOMAIN d /\ d[pc] = n - Pops(i) + Pushes(i)
  BY <1>2, <1>3 DEF DepthOk, d
<1>5. i \in Instr
  <2>1. f.pc + 1 \in 1..Len(p.code)
    BY <1>2
  <2> QED BY <1>2, <2>1
<1>6. n \in Nat
  <2>1. n = d[f.pc]
    BY DEF d
  <2>2. n \in 0..p.stackSize
    BY <1>2, <2>1
  <2> QED BY <1>2, <2>2
<1>7. DOMAIN d = 0..Len(p.code) - 1
  BY <1>2
<1> QED BY <1>2, <1>4, <1>5, <1>6, <1>7, CountsNat DEF d

\* After an instruction, the frame has the values its code expects then.
LEMMA Advance ==
  ASSUME CodeOk, NEW f, FrameOk(f), NEW h \in Int, AtLeast(f, h),
         NEW i, i = Proto[f.proto].code[f.pc + 1], NEW pc \in Successors(i, f.pc),
         NEW g, g.proto = f.proto, g.base = f.base, g.pc = pc
  PROVE  /\ AtLeast(g, h - Pops(i) + Pushes(i))
         /\ Exactly(f, h) => Exactly(g, h - Pops(i) + Pushes(i))
<1> DEFINE n == Depths(f.proto)[f.pc]
           x == Pops(i)
           y == Pushes(i)
           end == LocalsEnd(f)
<1>1. f.pc \in 0..Len(Proto[f.proto].code) - 1 /\ h >= end + n
  BY DEF AtLeast
<1>2. /\ n \in Nat /\ x \in Nat /\ y \in Nat
      /\ pc \in 0..Len(Proto[f.proto].code) - 1 /\ Depths(f.proto)[pc] = n - x + y
  BY <1>1, AtFacts
<1>3. LocalsEnd(g) = end /\ end \in Int
  BY DEF LocalsEnd, FrameOk
<1>4. Exactly(f, h) => h = end + n
  BY DEF Exactly
<1>5. AtLeast(g, h - x + y) <=> h - x + y >= end + (n - x + y)
  BY <1>2, <1>3 DEF AtLeast
<1>6. Exactly(g, h - x + y) <=> h - x + y = end + (n - x + y)
  BY <1>2, <1>3 DEF Exactly
<1> HIDE DEF n, x, y, end
<1>7. h - x + y >= end + (n - x + y) /\ (h = end + n => h - x + y = end + (n - x + y))
  BY <1>1, <1>2, <1>3
<1> QED BY <1>4, <1>5, <1>6, <1>7 DEF x, y

\* d is the coroutine with the top frame at pc and the top at top.
Moved(d, pc, top) ==
  d.frames = [co.frames EXCEPT ![Len(co.frames)].pc = pc] /\ d.stackTop = top

LEMMA MovedFrames ==
  ASSUME Inv, InVm, NEW d, NEW pc \in Int, NEW top, Moved(d, pc, top)
  PROVE  /\ Len(d.frames) = Len(co.frames)
         /\ \A k \in 1..Len(co.frames) :
              d.frames[k].base = co.frames[k].base /\ (k < Len(co.frames) => d.frames[k] = co.frames[k])
         /\ d.frames[Len(co.frames)].proto = Top.proto
         /\ d.frames[Len(co.frames)].base = Top.base
         /\ d.frames[Len(co.frames)].pc = pc
<1>1. co.frames \in Seq(Frame) /\ Len(co.frames) \in 1..Len(co.frames) /\ Top \in Frame
  BY RunFacts, CoElim DEF Inv
<1>2. d.frames = [co.frames EXCEPT ![Len(co.frames)] = [Top EXCEPT !.pc = pc]]
  BY DEF Moved, Top
<1> DEFINE f == [Top EXCEPT !.pc = pc]
<1>3. f.proto = Top.proto /\ f.base = Top.base /\ f.pc = pc
  BY <1>1 DEF Frame
<1>4. Len(co.frames) \in Nat /\ Top = co.frames[Len(co.frames)]
  BY <1>1 DEF Top
<1> HIDE DEF f
<1>5. d.frames = [co.frames EXCEPT ![Len(co.frames)] = f]
  BY <1>2 DEF f
<1>6. /\ Len(d.frames) = Len(co.frames) /\ d.frames[Len(co.frames)] = f
      /\ \A k \in 1..Len(co.frames) : k # Len(co.frames) => d.frames[k] = co.frames[k]
  BY <1>1, <1>4, <1>5
<1>7. \A k \in 1..Len(co.frames) :
        d.frames[k].base = co.frames[k].base /\ (k < Len(co.frames) => d.frames[k] = co.frames[k])
  <2> SUFFICES ASSUME NEW k \in 1..Len(co.frames)
               PROVE  d.frames[k].base = co.frames[k].base /\ (k < Len(co.frames) => d.frames[k] = co.frames[k])
    OBVIOUS
  <2>1. CASE k = Len(co.frames)
    BY <1>3, <1>4, <1>6, <2>1
  <2>2. CASE k # Len(co.frames)
    BY <1>6, <2>2
  <2> QED BY <2>1, <2>2
<1> QED BY <1>3, <1>6, <1>7

\* An instruction that goes on to one of its successors, and takes and leaves
\* as many values as it should, keeps every frame as its code expects.
LEMMA DeepMoved ==
  ASSUME CodeOk, Inv, InVm, PcOk, Deep(co.frames, co.stackTop, acts),
         NEW pc \in Successors(Ins, Top.pc), NEW d,
         Moved(d, pc, co.stackTop - Pops(Ins) + Pushes(Ins))
  PROVE  Deep(d.frames, co.stackTop - Pops(Ins) + Pushes(Ins), acts)
<1> DEFINE L == Len(co.frames)
           u == co.stackTop - Pops(Ins) + Pushes(Ins)
<1>1. /\ Nested(co.frames, acts) /\ RunsNow(acts) /\ L \in 1..L
      /\ Top = co.frames[L] /\ co.stackTop \in Int
  <2>1. Len(acts) \in 1..Len(acts) /\ Len(acts) \in Nat /\ Act.type = "run" /\ L \in 1..L
    BY RunFacts
  <2> QED BY <2>1, InvNested, InsFacts DEF RunsNow, IsRun, Act, Top
<1>2. FrameOk(Top)
  BY <1>1 DEF Nested
<1>3. Fits(acts, L, Top, co.stackTop)
  BY <1>1 DEF Deep, TopDeep
<1>4. Ins = Proto[Top.proto].code[Top.pc + 1]
  BY DEF Ins, P
<1>5. pc \in Int
  <2>1. Top.pc \in 0..Len(Proto[Top.proto].code) - 1
    BY DEF PcOk, P
  <2>2. pc \in 0..Len(Proto[Top.proto].code) - 1
    BY <1>2, <1>4, <2>1, AtFacts
  <2> QED BY <2>2
<1>6. /\ Len(d.frames) = L
      /\ \A k \in 1..L : d.frames[k].base = co.frames[k].base /\ (k < L => d.frames[k] = co.frames[k])
      /\ d.frames[L].proto = Top.proto /\ d.frames[L].base = Top.base /\ d.frames[L].pc = pc
  BY <1>5, MovedFrames
<1>7. AtLeast(d.frames[L], u) /\ (Exactly(Top, co.stackTop) => Exactly(d.frames[L], u))
  <2> DEFINE f == Top
             g == d.frames[L]
             h == co.stackTop
             i == Ins
  <2>1. /\ FrameOk(f) /\ h \in Int /\ AtLeast(f, h) /\ i = Proto[f.proto].code[f.pc + 1]
        /\ pc \in Successors(i, f.pc) /\ u = h - Pops(i) + Pushes(i)
    BY <1>1, <1>2, <1>3, <1>4 DEF Fits
  <2>2. g.proto = f.proto /\ g.base = f.base /\ g.pc = pc
    BY <1>1, <1>6
  <2> HIDE DEF f, g, h, i
  <2>3. /\ AtLeast(g, h - Pops(i) + Pushes(i))
        /\ Exactly(f, h) => Exactly(g, h - Pops(i) + Pushes(i))
    BY <2>1, <2>2, Advance
  <2> HIDE DEF u
  <2>4. AtLeast(g, u) /\ (Exactly(f, h) => Exactly(g, u))
    BY <2>1, <2>3
  <2> QED BY <2>4 DEF f, g, h
<1>8. Fits(acts, L, d.frames[L], u)
  BY <1>3, <1>7 DEF Fits
<1> HIDE DEF u
<1>9. Deep(d.frames, u, acts)
  BY <1>1, <1>6, <1>8, DeepTop
<1> QED BY <1>9 DEF u

DeepNow == Deep(co.frames, co.stackTop, acts)

LEMMA CutFields ==
  ASSUME NEW c, CoOk(c), NEW n, NEW top
  PROVE  /\ Cut(c, n, top).frames = SubSeq(c.frames, 1, n) /\ Cut(c, n, top).stackTop = top
         /\ Cut(c, n, top).stackCap = c.stackCap /\ Cut(c, n, top).stack = c.stack
<1> DEFINE d == Cut(c, n, top)
           frames == SubSeq(c.frames, 1, n)
           cap == c.stackCap
           stack == c.stack
<1>1. d = Co(frames, c.framesCap, top, cap, stack)
  BY CutForm
<1> HIDE DEF d, frames, cap, stack
<1>2. d.frames = frames /\ d.stackTop = top /\ d.stackCap = cap /\ d.stack = stack
  BY <1>1, CoFields
<1> QED BY <1>2 DEF d, frames, cap, stack

LEMMA PushedOnFields ==
  ASSUME NEW c, CoOk(c), NEW v
  PROVE  /\ PushedOn(c, v).frames = c.frames /\ PushedOn(c, v).stackTop = c.stackTop + 1
         /\ PushedOn(c, v).stackCap = c.stackCap
         /\ PushedOn(c, v).stack = [c.stack EXCEPT ![c.stackTop] = v]
<1> DEFINE d == PushedOn(c, v)
<1>1. d = Co(c.frames, c.framesCap, c.stackTop + 1, c.stackCap, [c.stack EXCEPT ![c.stackTop] = v])
  BY PushedOnForm
<1> HIDE DEF d
<1>2. /\ d.frames = c.frames /\ d.stackTop = c.stackTop + 1
      /\ d.stackCap = c.stackCap /\ d.stack = [c.stack EXCEPT ![c.stackTop] = v]
  BY <1>1, CoFields
<1> QED BY <1>2 DEF d

\* An error ends run k, with the coroutine in state c.
LEMMA DeepUnwind ==
  ASSUME Inv, DeepNow, NEW k \in 1..Len(acts), IsRun(acts, k), NEW c, CoOk(c),
         \A j \in 1..acts[k].stopAt : j \in 1..Len(c.frames) /\ c.frames[j] = co.frames[j],
         NEW r, Unwind(k, c, r)
  PROVE  DeepNow'
<1> DEFINE n == acts[k].stopAt
           d == Cut(c, n, acts[k].top)
           vs == SubSeq(acts, 1, k - 1)
<1>1. co' = d /\ acts' = vs
  BY DEF Unwind
<1>2. Nested(co.frames, acts) /\ acts \in Acts /\ Len(acts) \in Nat /\ n \in Nat
  BY InvNested DEF Inv, Nested
<1>3. d.frames = SubSeq(c.frames, 1, n) /\ d.stackTop = acts[k].top
  BY CutFields
<1>4. Len(d.frames) = n /\ \A j \in 1..n : d.frames[j] = co.frames[j]
  <2>1. c.frames \in Seq(Frame) /\ Len(c.frames) \in Nat
    BY CoElim
  <2>2. n \in 0..Len(c.frames)
    <3> DEFINE m == n
    <3> HIDE DEF m
    <3>1. m \in Nat /\ (\A j \in 1..m : j \in 1..Len(c.frames))
      BY <1>2 DEF m
    <3>2. m \in 0..Len(c.frames)
      <4>1. CASE m = 0
        BY <2>1, <4>1
      <4>2. CASE m # 0
        <5>1. m \in 1..m
          BY <3>1, <4>2
        <5>2. m \in 1..Len(c.frames)
          BY <3>1, <5>1
        <5> QED BY <2>1, <5>2
      <4> QED BY <4>1, <4>2
    <3> QED BY <3>2 DEF m
  <2>3. Len(SubSeq(c.frames, 1, n)) = n /\ \A j \in 1..n : SubSeq(c.frames, 1, n)[j] = c.frames[j]
    <3> DEFINE m == n
               S == c.frames
    <3>1. S \in Seq(Frame) /\ m \in 0..Len(S)
      BY <2>1, <2>2
    <3> HIDE DEF m, S
    <3>2. Len(SubSeq(S, 1, m)) = m /\ \A j \in 1..m : SubSeq(S, 1, m)[j] = S[j]
      BY <3>1
    <3> QED BY <3>2 DEF m, S
  <2> HIDE DEF d
  <2> QED BY <1>3, <2>3
<1>5. Len(vs) = k - 1 /\ \A m \in 1..Len(vs) : vs[m] = acts[m]
  <2>1. k - 1 \in 0..Len(acts)
    BY <1>2
  <2> QED BY <1>2, <2>1, ActsSub
<1>6. k = 1 => \A j \in 1..acts[1].stopAt : AtLeast(d.frames[j], d.stackTop)
  <2> HIDE DEF d
  <2> SUFFICES ASSUME k = 1, NEW j \in 1..acts[1].stopAt PROVE AtLeast(d.frames[j], d.stackTop)
    OBVIOUS
  <2>1. Len(acts) > 0
    BY <1>2
  <2>2. AtLeast(co.frames[j], acts[1].top)
    BY <2>1 DEF DeepNow, Deep, HostDeep
  <2> QED BY <1>3, <1>4, <2>2
<1> HIDE DEF d, vs
<1>7. Deep(d.frames, d.stackTop, vs)
  <2>1. Deep(co.frames, co.stackTop, acts)
    BY DEF DeepNow
  <2> HIDE DEF n
  <2> QED BY <1>2, <1>4, <1>5, <1>6, <2>1, DeepCut DEF n
<1> QED BY <1>1, <1>7 DEF DeepNow

\* The run in control, and its frame.
LEMMA RunNow ==
  ASSUME Inv, InVm
  PROVE  /\ Len(acts) \in 1..Len(acts) /\ IsRun(acts, Len(acts)) /\ RunsNow(acts)
         /\ Nested(co.frames, acts) /\ Len(co.frames) \in 1..Len(co.frames)
         /\ Len(co.frames) \in Nat /\ Len(acts) \in Nat
         /\ acts[Len(acts)].stopAt \in Nat /\ acts[Len(acts)].stopAt < Len(co.frames)
         /\ co.stackTop \in Int /\ FrameOk(Top)
<1>1. /\ Len(acts) \in 1..Len(acts) /\ Len(acts) \in Nat /\ Act.type = "run"
      /\ Len(co.frames) \in 1..Len(co.frames)
  BY RunFacts
<1>2. Nested(co.frames, acts)
  BY InvNested
<1>3. IsRun(acts, Len(acts)) /\ RunsNow(acts)
  BY <1>1 DEF IsRun, RunsNow, Act
<1>4. /\ acts[Len(acts)].stopAt \in Nat /\ acts[Len(acts)].stopAt < Len(co.frames)
      /\ Len(co.frames) \in Nat /\ FrameOk(Top)
  BY <1>1, <1>2, <1>3 DEF Nested, Top
<1>5. co.stackTop \in Int
  BY CoElim DEF Inv
<1> QED BY <1>1, <1>2, <1>3, <1>4, <1>5

LEMMA DeepFail ==
  ASSUME Inv, DeepNow, InVm, Fail
  PROVE  DeepNow'
<1>1. PICK r : Unwind(Len(acts), co, r)
  BY DEF Fail
<1>2. CoOk(co)
  BY DEF Inv
<1>3. \A j \in 1..acts[Len(acts)].stopAt : j \in 1..Len(co.frames)
  BY RunNow
<1> QED BY <1>1, <1>2, <1>3, RunNow, DeepUnwind

\* An instruction that goes on within its frame.
Goes ==
  /\ InVm /\ PcOk
  /\ acts' = acts
  /\ \E pc \in Successors(Ins, Top.pc) : Moved(co', pc, co.stackTop - Pops(Ins) + Pushes(Ins))

LEMMA DeepGoes ==
  ASSUME CodeOk, Inv, DeepNow, Goes
  PROVE  DeepNow'
<1>1. PICK pc \in Successors(Ins, Top.pc) : Moved(co', pc, co.stackTop - Pops(Ins) + Pushes(Ins))
  BY DEF Goes
<1> DEFINE d == co'
<1>2. Moved(d, pc, co.stackTop - Pops(Ins) + Pushes(Ins))
  BY <1>1
<1> HIDE DEF d
<1>3. Deep(d.frames, co.stackTop - Pops(Ins) + Pushes(Ins), acts)
  BY <1>2, DeepMoved DEF DeepNow, Goes
<1>4. d.stackTop = co.stackTop - Pops(Ins) + Pushes(Ins)
  BY <1>2 DEF Moved
<1> QED BY <1>3, <1>4 DEF d, DeepNow, Goes

\* The coroutine after the fetch.
LEMMA FetchMoved ==
  ASSUME Inv, InVm, PcOk
  PROVE  Moved(Fetched, Top.pc + 1, co.stackTop) /\ CoOk(Fetched) /\ Top.pc \in Int
         /\ Fetched.stackTop = co.stackTop /\ Fetched.stackCap = co.stackCap
<1>1. CoOk(co) /\ co.frames # <<>>
  BY RunFacts DEF Inv
<1>2. Top.pc \in Int /\ Top.pc + 1 \in Int
  BY InsFacts
<1>3. Fetched = [co EXCEPT !.frames[Len(co.frames)].pc = Top.pc + 1]
  BY DEF Fetched, Top
<1>4. /\ Fetched.stackTop = co.stackTop
      /\ Fetched.frames = [co.frames EXCEPT ![Len(co.frames)].pc = Top.pc + 1]
  BY <1>1, <1>2, <1>3, PcStep
<1> QED BY <1>2, <1>4, FetchStep DEF Moved

LEMMA MovedPopped ==
  ASSUME Inv, InVm, PcOk, NEW n \in Nat, n <= co.stackTop
  PROVE  Moved(Popped(Fetched, n), Top.pc + 1, co.stackTop - n)
<1>1. /\ Moved(Fetched, Top.pc + 1, co.stackTop) /\ CoOk(Fetched) /\ Fetched.stackTop = co.stackTop
  BY FetchMoved
<1>2. /\ Popped(Fetched, n).stackTop = co.stackTop - n
      /\ Popped(Fetched, n).frames = Fetched.frames
  BY <1>1, PopStep
<1> QED BY <1>1, <1>2 DEF Moved

LEMMA MovedPushed ==
  ASSUME NEW c, CoOk(c), NEW pc, Moved(c, pc, c.stackTop), NEW v
  PROVE  Moved(PushedOn(c, v), pc, c.stackTop + 1)
<1>1. PushedOn(c, v).frames = c.frames /\ PushedOn(c, v).stackTop = c.stackTop + 1
  BY PushedOnFields
<1> QED BY <1>1 DEF Moved

\* A jump that lands in the code.
LEMMA MovedJumped ==
  ASSUME Inv, InVm, PcOk, NEW c, CoOk(c), Moved(c, Top.pc + 1, c.stackTop), NEW off \in Int,
         0 <= Top.pc + 1 + off
  PROVE  Moved(Jumped(c, off), Top.pc + 1 + off, c.stackTop)
<1>1. Top.pc \in Int /\ Len(co.frames) \in 1..Len(co.frames)
  BY InsFacts, RunFacts
<1>2. Len(c.frames) = Len(co.frames) /\ c.frames[Len(co.frames)].pc = Top.pc + 1
  <2>1. Top.pc + 1 \in Int
    BY <1>1
  <2> QED BY <2>1, MovedFrames
<1> DEFINE old == Top.pc + 1
           pc == old + off
<1>3. Jumped(c, off) = [c EXCEPT !.frames[Len(c.frames)].pc = pc]
  <2>1. Jumped(c, off) = [c EXCEPT !.frames[Len(c.frames)].pc = IF old + off < 0 THEN -1 ELSE old + off]
    BY <1>2 DEF Jumped
  <2>2. ~(old + off < 0)
    BY <1>1
  <2> QED BY <2>1, <2>2
<1>4. pc \in Int
  BY <1>1
<1>5. c.frames # <<>>
  BY <1>1, <1>2, CoElim
<1> HIDE DEF pc
<1>6. /\ Jumped(c, off).stackTop = c.stackTop
      /\ Jumped(c, off).frames = [c.frames EXCEPT ![Len(c.frames)].pc = pc]
  BY <1>3, <1>4, <1>5, PcStep
<1>7. [c.frames EXCEPT ![Len(c.frames)].pc = pc] = [co.frames EXCEPT ![Len(co.frames)].pc = pc]
  <2>1. c.frames = [co.frames EXCEPT ![Len(co.frames)].pc = Top.pc + 1]
    BY DEF Moved
  <2>2. co.frames \in Seq(Frame) /\ co.frames[Len(co.frames)] \in Frame
    BY <1>1, CoElim DEF Inv
  <2> QED BY <1>1, <1>2, <2>1, <2>2
<1> QED BY <1>6, <1>7 DEF Moved, pc

\* What the instructions do to the stack and to pc, unfolded once.
LEMMA Effects ==
  ASSUME NEW i, NEW pc
  PROVE  /\ i.op \in {"NOP", "MOVE"} => Pops(i) = 0 /\ Pushes(i) = 0 /\ Successors(i, pc) = {pc + 1}
         /\ i.op \in Singletons \cup {"LOAD_CONST", "LOAD_LOCAL", "LOAD_GLOBAL"} =>
              Pops(i) = 0 /\ Pushes(i) = 1 /\ Successors(i, pc) = {pc + 1}
         /\ i.op \in {"STORE_LOCAL", "STORE_GLOBAL"} =>
              Pops(i) = 1 /\ Pushes(i) = 0 /\ Successors(i, pc) = {pc + 1}
         /\ i.op = "UNARY" => Pops(i) = 1 /\ Pushes(i) = 1 /\ Successors(i, pc) = {pc + 1}
         /\ i.op \in {"BINARY", "COMPARE"} =>
              Pops(i) = 2 /\ Pushes(i) = 1 /\ Successors(i, pc) = {pc + 1}
         /\ i.op = "CMP_CHAIN" =>
              Pops(i) = 2 /\ Pushes(i) = 1 /\ Successors(i, pc) = {pc + 1, pc + 1 + i.bx}
         /\ i.op = "JUMP" => Pops(i) = 0 /\ Pushes(i) = 0 /\ Successors(i, pc) = {pc + 1 + i.bx}
         /\ i.op \in CondJumps =>
              Pops(i) = 1 /\ Pushes(i) = 0 /\ Successors(i, pc) = {pc + 1, pc + 1 + i.bx}
         /\ i.op \in Builds =>
              Pops(i) = BuildCount(i) /\ Pushes(i) = 1 /\ Successors(i, pc) = {pc + 1}
         /\ i.op = "UNPACK" => Pops(i) = 1 /\ Pushes(i) = i.a /\ Successors(i, pc) = {pc + 1}
         /\ i.op = "CALL" => Pops(i) = i.a + 1 /\ Pushes(i) = 1 /\ Successors(i, pc) = {pc + 1}
         /\ i.op = "RETURN" => Pops(i) = 1
BY DEF Pops, Pushes, Successors, Singletons, CondJumps, Builds

LEMMA GoesBy ==
  ASSUME InVm, PcOk, acts' = acts, NEW c, co' = c, NEW pc \in Successors(Ins, Top.pc),
         NEW top, Moved(c, pc, top), top = co.stackTop - Pops(Ins) + Pushes(Ins)
  PROVE  Goes
BY DEF Goes

LEMMA MovedSlot ==
  ASSUME NEW c, CoOk(c), NEW i \in 0..c.stackCap - 1, NEW v \in Value,
         NEW pc, NEW top, Moved(c, pc, top)
  PROVE  Moved([c EXCEPT !.stack[i] = v], pc, top)
<1> DEFINE d == [c EXCEPT !.stack[i] = v]
<1>1. d.stackTop = c.stackTop /\ d.frames = c.frames
  BY SlotStep
<1> HIDE DEF d
<1>2. Moved(d, pc, top)
  BY <1>1 DEF Moved
<1> QED BY <1>2 DEF d

LEMMA GoesNop == Inv /\ ExecNop => Goes
<1> SUFFICES ASSUME Inv, ExecNop PROVE Goes
  OBVIOUS
<1>1. InVm /\ PcOk /\ Ins.op = "NOP" /\ Continue(Fetched)
  BY RunsDef DEF ExecNop
<1>2. Moved(Fetched, Top.pc + 1, co.stackTop) /\ co.stackTop \in Int
  BY <1>1, FetchMoved, InsFacts
<1>3. Pops(Ins) = 0 /\ Pushes(Ins) = 0 /\ Top.pc + 1 \in Successors(Ins, Top.pc)
  BY <1>1, Effects
<1>4. co.stackTop = co.stackTop - Pops(Ins) + Pushes(Ins)
  BY <1>2, <1>3
<1> QED BY <1>1, <1>2, <1>3, <1>4, GoesBy DEF Continue

LEMMA GoesPush ==
  ASSUME Inv, InVm, PcOk, Ins.op \in Singletons \cup {"LOAD_CONST", "LOAD_LOCAL", "LOAD_GLOBAL"},
         NEW v, Continue(PushedOn(Fetched, v))
  PROVE  Goes
<1>1. /\ Moved(Fetched, Top.pc + 1, co.stackTop) /\ CoOk(Fetched)
      /\ Fetched.stackTop = co.stackTop /\ co.stackTop \in Int
  BY FetchMoved, InsFacts
<1>2. Moved(PushedOn(Fetched, v), Top.pc + 1, co.stackTop + 1)
  BY <1>1, MovedPushed
<1>3. Pops(Ins) = 0 /\ Pushes(Ins) = 1 /\ Top.pc + 1 \in Successors(Ins, Top.pc)
  BY Effects
<1>4. co.stackTop + 1 = co.stackTop - Pops(Ins) + Pushes(Ins)
  BY <1>1, <1>3
<1> QED BY <1>2, <1>3, <1>4, GoesBy DEF Continue

LEMMA GoesLoadConst == Inv /\ ExecLoadConst => Goes
BY RunsDef, GoesPush DEF ExecLoadConst

LEMMA GoesLoadSingleton == Inv /\ ExecLoadSingleton => Goes
<1> SUFFICES ASSUME Inv, ExecLoadSingleton PROVE Goes
  OBVIOUS
<1> DEFINE v == IF Ins.op = "LOAD_NIL" THEN Nil ELSE Bool(Ins.op = "LOAD_TRUE")
<1>1. InVm /\ PcOk /\ Ins.op \in Singletons /\ Continue(PushedOn(Fetched, v))
  BY RunsDef DEF ExecLoadSingleton
<1> HIDE DEF v
<1> QED BY <1>1, GoesPush

LEMMA GoesLoadLocal == Inv /\ ExecLoadLocal => Goes
BY RunsDef, GoesPush DEF ExecLoadLocal

LEMMA GoesLoadGlobal == Inv /\ ExecLoadGlobal => Goes \/ (InVm /\ Fail)
BY RunsDef, GoesPush DEF ExecLoadGlobal

LEMMA GoesMove == Inv /\ ExecMove => Goes
<1> SUFFICES ASSUME Inv, ExecMove PROVE Goes
  OBVIOUS
<1> DEFINE i == Top.base + Ins.a
           v == co.stack[Top.base + Ins.bx]
<1>1. /\ InVm /\ PcOk /\ Ins.op = "MOVE" /\ ~Fault
      /\ Continue([Fetched EXCEPT !.stack[i] = v])
  BY RunsDef DEF ExecMove
<1>2. Ins.a \in 0..P.localCount - 1 /\ Ins.bx \in 0..P.localCount - 1
  <2>1. ~(Ins.a >= P.localCount) /\ Ins.bx \in 0..P.localCount - 1
    BY <1>1 DEF Fault
  <2> QED BY <1>1, <2>1, OperandLocal
<1>3. i \in 0..co.stackCap - 1 /\ v \in Value
  BY <1>1, <1>2, LocalFacts
<1>4. /\ Moved(Fetched, Top.pc + 1, co.stackTop) /\ CoOk(Fetched)
      /\ Fetched.stackCap = co.stackCap /\ co.stackTop \in Int
  BY <1>1, FetchMoved, InsFacts
<1> HIDE DEF i, v
<1>5. Moved([Fetched EXCEPT !.stack[i] = v], Top.pc + 1, co.stackTop)
  BY <1>3, <1>4, MovedSlot
<1>6. Pops(Ins) = 0 /\ Pushes(Ins) = 0 /\ Top.pc + 1 \in Successors(Ins, Top.pc)
  BY <1>1, Effects
<1>7. co.stackTop = co.stackTop - Pops(Ins) + Pushes(Ins)
  BY <1>4, <1>6
<1> QED BY <1>1, <1>5, <1>6, <1>7, GoesBy DEF Continue

LEMMA GoesStoreLocal == Inv /\ ExecStoreLocal => Goes
<1> SUFFICES ASSUME Inv, ExecStoreLocal PROVE Goes
  OBVIOUS
<1> DEFINE i == Top.base + Ins.a
           v == Peek(0)
           c == Popped(Fetched, 1)
<1>1. /\ InVm /\ PcOk /\ Ins.op = "STORE_LOCAL" /\ ~Fault
      /\ Continue([c EXCEPT !.stack[i] = v])
  BY RunsDef DEF ExecStoreLocal
<1>2. Holds(0 + 1) /\ ~(Ins.a >= P.localCount)
  BY <1>1 DEF Fault
<1>3. Ins.a \in 0..P.localCount - 1
  BY <1>1, <1>2, OperandLocal
<1>4. i \in 0..co.stackCap - 1
  BY <1>1, <1>3, LocalFacts
<1>5. v \in Value /\ 1 <= co.stackTop
  BY <1>1, <1>2, PeekFacts
<1>6. /\ CoOk(c) /\ c.stackCap = co.stackCap /\ co.stackTop \in Int
      /\ Moved(c, Top.pc + 1, co.stackTop - 1)
  <2>1. CoOk(c) /\ c.stackCap = co.stackCap
    BY <1>1, <1>5, FetchPop
  <2>2. Moved(c, Top.pc + 1, co.stackTop - 1)
    BY <1>1, <1>5, MovedPopped
  <2>3. co.stackTop \in Int
    BY <1>1, InsFacts
  <2> QED BY <2>1, <2>2, <2>3
<1> HIDE DEF i, v, c
<1>7. Moved([c EXCEPT !.stack[i] = v], Top.pc + 1, co.stackTop - 1)
  BY <1>4, <1>5, <1>6, MovedSlot
<1>8. Pops(Ins) = 1 /\ Pushes(Ins) = 0 /\ Top.pc + 1 \in Successors(Ins, Top.pc)
  BY <1>1, Effects
<1>9. co.stackTop - 1 = co.stackTop - Pops(Ins) + Pushes(Ins)
  BY <1>6, <1>8
<1> QED BY <1>1, <1>7, <1>8, <1>9, GoesBy DEF Continue

LEMMA DeepStoreGlobal == CodeOk /\ Inv /\ DeepNow /\ ExecStoreGlobal => DeepNow'
<1> SUFFICES ASSUME CodeOk, Inv, DeepNow, ExecStoreGlobal PROVE DeepNow'
  OBVIOUS
<1>1. InVm /\ PcOk /\ Ins.op = "STORE_GLOBAL" /\ ~Fault
  BY RunsDef DEF ExecStoreGlobal
<1>2. Holds(0 + 1)
  BY <1>1 DEF Fault
<1>3. 1 <= co.stackTop /\ co.stackTop \in Int
  BY <1>1, <1>2, PeekFacts, InsFacts
<1>4. CASE Unwind(Len(acts), co, "oom")
  <2>1. CoOk(co)
    BY DEF Inv
  <2>2. \A j \in 1..acts[Len(acts)].stopAt : j \in 1..Len(co.frames)
    BY <1>1, RunNow
  <2> QED BY <1>1, <1>4, <2>1, <2>2, RunNow, DeepUnwind
<1>5. CASE co' = Popped(Fetched, 1) /\ acts' = acts
  <2>1. Moved(Popped(Fetched, 1), Top.pc + 1, co.stackTop - 1)
    BY <1>1, <1>3, MovedPopped
  <2>2. Pops(Ins) = 1 /\ Pushes(Ins) = 0 /\ Top.pc + 1 \in Successors(Ins, Top.pc)
    BY <1>1, Effects
  <2>3. co.stackTop - 1 = co.stackTop - Pops(Ins) + Pushes(Ins)
    BY <1>3, <2>2
  <2> QED BY <1>1, <1>5, <2>1, <2>2, <2>3, GoesBy, DeepGoes
<1> QED BY <1>4, <1>5 DEF ExecStoreGlobal

\* The operands of an instruction are above the frame's base.
LEMMA OperandsThere ==
  ASSUME Inv, InVm, PcOk, NEW n \in Nat, Holds(n)
  PROVE  n <= co.stackTop /\ co.stackTop \in Int
<1>1. co.stackTop \in Nat /\ Floor \in Nat /\ co.stackTop >= Floor + n
  BY InsFacts DEF Holds
<1> QED BY <1>1

\* An instruction that replaces its n operands by one value.
LEMMA GoesProduce ==
  ASSUME Inv, InVm, PcOk, NEW c, CoOk(c), NEW pc \in Successors(Ins, Top.pc), NEW n \in Nat,
         Moved(c, pc, co.stackTop - n), Pops(Ins) = n, Pushes(Ins) = 1, NEW v, Produce(c, v)
  PROVE  Goes \/ (InVm /\ Fail)
<1>1. CASE Fail
  BY <1>1
<1>2. CASE Continue(PushedOn(c, v))
  <2>1. c.stackTop = co.stackTop - n
    BY DEF Moved
  <2>2. Moved(PushedOn(c, v), pc, co.stackTop - n + 1)
    BY <2>1, MovedPushed
  <2> QED BY <1>2, <2>2, GoesBy DEF Continue
<1> QED BY <1>1, <1>2 DEF Produce

LEMMA GoesOperate ==
  ASSUME Inv, InVm, PcOk, NEW n \in Nat, Holds(n), Pops(Ins) = n, Pushes(Ins) = 1,
         Top.pc + 1 \in Successors(Ins, Top.pc), NEW v, Produce(Popped(Fetched, n), v)
  PROVE  Goes \/ (InVm /\ Fail)
<1>1. n <= co.stackTop
  BY OperandsThere
<1>2. Moved(Popped(Fetched, n), Top.pc + 1, co.stackTop - n) /\ CoOk(Popped(Fetched, n))
  BY <1>1, MovedPopped, FetchPop
<1> QED BY <1>2, GoesProduce

LEMMA GoesOperator == Inv /\ ExecOperator => Goes \/ (InVm /\ Fail)
<1> SUFFICES ASSUME Inv, ExecOperator PROVE Goes \/ (InVm /\ Fail)
  OBVIOUS
<1>1. InVm /\ PcOk /\ Ins.op \in {"BINARY", "UNARY"} /\ ~Fault
  BY RunsDef DEF ExecOperator
<1>2. PICK v \in Results : Produce(Popped(Fetched, Pops(Ins)), v)
  BY DEF ExecOperator
<1>3. CASE Ins.op = "BINARY"
  <2>1. Pops(Ins) = 2 /\ Pushes(Ins) = 1 /\ Top.pc + 1 \in Successors(Ins, Top.pc)
    BY <1>3, Effects
  <2>2. Holds(2)
    BY <1>1, <1>3 DEF Fault
  <2> QED BY <1>1, <1>2, <2>1, <2>2, GoesOperate
<1>4. CASE Ins.op = "UNARY"
  <2>1. Pops(Ins) = 1 /\ Pushes(Ins) = 1 /\ Top.pc + 1 \in Successors(Ins, Top.pc)
    BY <1>4, Effects
  <2>2. Holds(1)
    BY <1>1, <1>4 DEF Fault
  <2> QED BY <1>1, <1>2, <2>1, <2>2, GoesOperate
<1> QED BY <1>1, <1>3, <1>4

LEMMA GoesCompare == Inv /\ ExecCompare => Goes \/ (InVm /\ Fail)
<1> SUFFICES ASSUME Inv, ExecCompare PROVE Goes \/ (InVm /\ Fail)
  OBVIOUS
<1>1. InVm /\ PcOk /\ Ins.op = "COMPARE" /\ ~Fault
  BY RunsDef DEF ExecCompare
<1>2. PICK b \in BOOLEAN : Produce(Popped(Fetched, 2), Bool(b))
  BY DEF ExecCompare
<1>3. Pops(Ins) = 2 /\ Pushes(Ins) = 1 /\ Top.pc + 1 \in Successors(Ins, Top.pc)
  BY <1>1, Effects
<1>4. Holds(2)
  BY <1>1 DEF Fault
<1> QED BY <1>1, <1>2, <1>3, <1>4, GoesOperate

\* A jump of well-formed code lands in it.
LEMMA JumpLands ==
  ASSUME CodeOk, Inv, InVm, PcOk, Top.pc + 1 + Ins.bx \in Successors(Ins, Top.pc)
  PROVE  0 <= Top.pc + 1 + Ins.bx
<1>1. FrameOk(Top) /\ Ins = Proto[Top.proto].code[Top.pc + 1]
      /\ Top.pc \in 0..Len(Proto[Top.proto].code) - 1
  BY RunNow DEF Ins, P, PcOk
<1>2. Top.pc + 1 + Ins.bx \in 0..Len(Proto[Top.proto].code) - 1
  BY <1>1, AtFacts
<1> QED BY <1>2

LEMMA GoesCmpChain == CodeOk /\ Inv /\ ExecCmpChain => Goes \/ (InVm /\ Fail)
<1> SUFFICES ASSUME CodeOk, Inv, ExecCmpChain PROVE Goes \/ (InVm /\ Fail)
  OBVIOUS
<1>1. InVm /\ PcOk /\ Ins.op = "CMP_CHAIN" /\ ~Fault
  BY RunsDef DEF ExecCmpChain
<1>2. /\ Pops(Ins) = 2 /\ Pushes(Ins) = 1 /\ Top.pc + 1 \in Successors(Ins, Top.pc)
      /\ Top.pc + 1 + Ins.bx \in Successors(Ins, Top.pc)
  BY <1>1, Effects
<1>3. Holds(2)
  BY <1>1 DEF Fault
<1>4. CASE Produce(Popped(Fetched, 2), Peek(0))
  BY <1>1, <1>2, <1>3, <1>4, GoesOperate
<1>5. CASE Produce(Jumped(Popped(Fetched, 2), Ins.bx), Bool(FALSE))
  <2> DEFINE c == Popped(Fetched, 2)
             d == Jumped(c, Ins.bx)
  <2>1. 2 <= co.stackTop /\ Ins.bx \in Int
    BY <1>1, <1>3, OperandsThere, InsFacts
  <2>2. Moved(c, Top.pc + 1, co.stackTop - 2) /\ CoOk(c) /\ c.stackTop = co.stackTop - 2
    BY <1>1, <2>1, MovedPopped, FetchPop
  <2>3. CoOk(d)
    BY <1>1, <2>1, JumpPopped DEF SameShape
  <2>4. 0 <= Top.pc + 1 + Ins.bx
    BY <1>1, <1>2, JumpLands
  <2> HIDE DEF c
  <2>5. Moved(d, Top.pc + 1 + Ins.bx, co.stackTop - 2)
    BY <1>1, <2>1, <2>2, <2>4, MovedJumped
  <2>6. Produce(d, Bool(FALSE))
    BY <1>5 DEF c
  <2> HIDE DEF d
  <2> QED BY <1>1, <1>2, <2>3, <2>5, <2>6, GoesProduce
<1> QED BY <1>4, <1>5 DEF ExecCmpChain

LEMMA GoesJump == CodeOk /\ Inv /\ ExecJump => Goes
<1> SUFFICES ASSUME CodeOk, Inv, ExecJump PROVE Goes
  OBVIOUS
<1>1. InVm /\ PcOk /\ Ins.op = "JUMP" /\ Continue(Jumped(Fetched, Ins.bx))
  BY RunsDef DEF ExecJump
<1>2. /\ Pops(Ins) = 0 /\ Pushes(Ins) = 0
      /\ Top.pc + 1 + Ins.bx \in Successors(Ins, Top.pc)
  BY <1>1, Effects
<1>3. /\ Moved(Fetched, Top.pc + 1, co.stackTop) /\ CoOk(Fetched)
      /\ Fetched.stackTop = co.stackTop /\ co.stackTop \in Int /\ Ins.bx \in Int
  BY <1>1, FetchMoved, InsFacts
<1>4. 0 <= Top.pc + 1 + Ins.bx
  BY <1>1, <1>2, JumpLands
<1>5. Moved(Jumped(Fetched, Ins.bx), Top.pc + 1 + Ins.bx, co.stackTop)
  BY <1>1, <1>3, <1>4, MovedJumped
<1>6. co.stackTop = co.stackTop - Pops(Ins) + Pushes(Ins)
  BY <1>2, <1>3
<1> QED BY <1>1, <1>2, <1>5, <1>6, GoesBy DEF Continue

LEMMA GoesCondJump == CodeOk /\ Inv /\ ExecCondJump => Goes
<1> SUFFICES ASSUME CodeOk, Inv, ExecCondJump PROVE Goes
  OBVIOUS
<1> DEFINE next == Popped(Fetched, 1)
           far == Jumped(next, Ins.bx)
<1>1. InVm /\ PcOk /\ Ins.op \in CondJumps /\ ~Fault
  BY RunsDef DEF ExecCondJump
<1>2. Continue(far) \/ Continue(next)
  BY DEF ExecCondJump
<1>3. Holds(1)
  BY <1>1 DEF Fault
<1>4. 1 <= co.stackTop /\ co.stackTop \in Int /\ Ins.bx \in Int
  BY <1>1, <1>3, OperandsThere, InsFacts
<1>5. /\ Pops(Ins) = 1 /\ Pushes(Ins) = 0 /\ Top.pc + 1 \in Successors(Ins, Top.pc)
      /\ Top.pc + 1 + Ins.bx \in Successors(Ins, Top.pc)
  BY <1>1, Effects
<1>6. Moved(next, Top.pc + 1, co.stackTop - 1) /\ CoOk(next) /\ next.stackTop = co.stackTop - 1
  BY <1>1, <1>4, MovedPopped, FetchPop
<1>7. 0 <= Top.pc + 1 + Ins.bx
  BY <1>1, <1>5, JumpLands
<1> HIDE DEF next
<1>8. Moved(far, Top.pc + 1 + Ins.bx, co.stackTop - 1)
  BY <1>1, <1>4, <1>6, <1>7, MovedJumped
<1> HIDE DEF far
<1>9. co.stackTop - 1 = co.stackTop - Pops(Ins) + Pushes(Ins)
  BY <1>4, <1>5
<1>10. CASE Continue(far)
  BY <1>1, <1>5, <1>8, <1>9, <1>10, GoesBy DEF Continue
<1>11. CASE Continue(next)
  BY <1>1, <1>5, <1>6, <1>9, <1>11, GoesBy DEF Continue
<1> QED BY <1>2, <1>10, <1>11

LEMMA GoesBuild == Inv /\ ExecBuild => Goes \/ (InVm /\ Fail)
<1> SUFFICES ASSUME Inv, ExecBuild PROVE Goes \/ (InVm /\ Fail)
  OBVIOUS
<1> DEFINE m == BuildCount(Ins)
<1>1. InVm /\ PcOk /\ Ins.op \in Builds /\ ~Fault
  BY RunsDef DEF ExecBuild
<1>2. m \in Nat
  <2>1. Ins.a \in 0..255
    BY <1>1, InsFacts
  <2> QED BY <2>1 DEF BuildCount
<1>3. Holds(m)
  BY <1>1 DEF Fault
<1>4. PICK n \in (IF Ins.op = "BUILD_LIST" THEN {Ins.a} ELSE 0..Ins.a) :
        Produce(Popped(Fetched, m), Val(IF Ins.op = "BUILD_LIST" THEN "list" ELSE "dict", n))
  BY DEF ExecBuild
<1>5. Pops(Ins) = m /\ Pushes(Ins) = 1 /\ Top.pc + 1 \in Successors(Ins, Top.pc)
  BY <1>1, Effects
<1> HIDE DEF m
<1> QED BY <1>1, <1>2, <1>3, <1>4, <1>5, GoesOperate

LEMMA UnpackedFields ==
  ASSUME NEW c, CoOk(c), NEW target, NEW n
  PROVE  Unpacked(c, target, n).frames = c.frames /\ Unpacked(c, target, n).stackTop = c.stackTop - 1 + n
<1> DEFINE d == Unpacked(c, target, n)
           stack == [i \in 0..c.stackCap - 1 |->
                      IF i \in c.stackTop - 1..c.stackTop - 1 + n - 1
                      THEN target[i - (c.stackTop - 1)]
                      ELSE IF i = c.stackTop - 1 + n THEN target[n - 1] ELSE c.stack[i]]
<1>1. d = Co(c.frames, c.framesCap, c.stackTop - 1 + n, c.stackCap, stack)
  BY UnpackedForm
<1> HIDE DEF d, stack
<1>2. d.frames = c.frames /\ d.stackTop = c.stackTop - 1 + n
  BY <1>1, CoFields
<1> QED BY <1>2 DEF d

LEMMA GoesUnpack == Inv /\ ExecUnpack => Goes \/ (InVm /\ Fail)
<1> SUFFICES ASSUME Inv, ExecUnpack PROVE Goes \/ (InVm /\ Fail)
  OBVIOUS
<1> DEFINE list == Peek(0)
           target(f) == [i \in 0..Ins.a - 1 |->
                           IF i = Ins.bx THEN Val("list", list.n - (Ins.a - 1)) ELSE f[i]]
<1>1. InVm /\ PcOk /\ Ins.op = "UNPACK" /\ ~Fault
  <2>1. Runs({"UNPACK"})
    BY DEF ExecUnpack
  <2> QED BY <2>1, RunsDef
<1>2. CASE Fail
  BY <1>1, <1>2
<1>3. CASE \E f \in [0..Ins.a - 1 -> Results] : Continue(Unpacked(Fetched, target(f), Ins.a))
  <2>1. PICK f \in [0..Ins.a - 1 -> Results] : Continue(Unpacked(Fetched, target(f), Ins.a))
    BY <1>3
  <2> DEFINE t == target(f)
             c == Unpacked(Fetched, t, Ins.a)
  <2> HIDE DEF t
  <2>2. /\ Moved(Fetched, Top.pc + 1, co.stackTop) /\ CoOk(Fetched)
        /\ Fetched.stackTop = co.stackTop
    BY <1>1, FetchMoved
  <2>3. c.frames = Fetched.frames /\ c.stackTop = Fetched.stackTop - 1 + Ins.a
    BY <2>2, UnpackedFields
  <2>4. Pops(Ins) = 1 /\ Pushes(Ins) = Ins.a /\ Top.pc + 1 \in Successors(Ins, Top.pc)
    BY <1>1, Effects
  <2>5. Continue(c)
    BY <2>1 DEF t
  <2> HIDE DEF c
  <2>6. Moved(c, Top.pc + 1, co.stackTop - Pops(Ins) + Pushes(Ins))
    BY <2>2, <2>3, <2>4 DEF Moved
  <2> QED BY <1>1, <2>4, <2>5, <2>6, GoesBy DEF Continue
<1> QED BY <1>2, <1>3 DEF ExecUnpack

----------------------------------------------------------------------------
(* Calls: the frame that is pushed, and the slots that stay as they were.    *)

\* The slots of c below n are in d as they were.
SameBelow(c, d, n) ==
  c.stackCap <= d.stackCap /\ \A i \in 0..c.stackCap - 1 : i < n => d.stack[i] = c.stack[i]

LEMMA PushedFields ==
  ASSUME NEW c, NEW g, CoOk(g), NEW id, NEW argc, NEW inPlace, NEW base, NEW argv
  PROVE  /\ Pushed(c, g, id, argc, inPlace, base, argv).stackTop = base + Proto[id].localCount
         /\ Pushed(c, g, id, argc, inPlace, base, argv).stackCap = g.stackCap
         /\ Pushed(c, g, id, argc, inPlace, base, argv).stack
              = PushedStack(c, g, id, argc, inPlace, base, argv)
<1> DEFINE d == Pushed(c, g, id, argc, inPlace, base, argv)
           frames == Append(g.frames, NewFrame(id, base))
           local == base + Proto[id].localCount
           stack == PushedStack(c, g, id, argc, inPlace, base, argv)
           cap == g.stackCap
<1>1. d = Co(frames, g.framesCap, local, cap, stack)
  BY PushedForm
<1> HIDE DEF d, frames, local, stack, cap
<1>2. d.stackTop = local /\ d.stackCap = cap /\ d.stack = stack
  BY <1>1, CoFields
<1> QED BY <1>2 DEF d, local, stack, cap

LEMMA PushedKeeps ==
  ASSUME NEW c, NEW g, CoOk(g), NEW id \in DOMAIN Proto, NEW argc \in Nat, NEW inPlace \in BOOLEAN,
         NEW base \in Int, NEW argv, NEW n \in Int, n <= base + argc, ~inPlace => n <= base - 1
  PROVE  SameBelow(g, Pushed(c, g, id, argc, inPlace, base, argv), n)
<1> DEFINE d == Pushed(c, g, id, argc, inPlace, base, argv)
           stack == PushedStack(c, g, id, argc, inPlace, base, argv)
<1>1. d.stackCap = g.stackCap /\ d.stack = stack
  BY PushedFields
<1>2. g.stackCap \in Nat
  BY CoElim
<1>3. \A i \in 0..g.stackCap - 1 : i < n => stack[i] = g.stack[i]
  <2> SUFFICES ASSUME NEW i \in 0..g.stackCap - 1, i < n PROVE stack[i] = g.stack[i]
    OBVIOUS
  <2>1. ~(~inPlace /\ i = base - 1) /\ ~(~inPlace /\ i \in base..base + argc - 1)
    OBVIOUS
  <2>2. i \notin base + argc..base + Proto[id].localCount - 1
    BY ProtoFacts
  <2>3. stack[i] = IF ~inPlace /\ i = base - 1 THEN Nil
                   ELSE IF ~inPlace /\ i \in base..base + argc - 1
                        THEN ArgAt(c, g, argv, argc, i - base)
                   ELSE IF i \in base + argc..base + Proto[id].localCount - 1 THEN Nil
                   ELSE g.stack[i]
    BY DEF PushedStack
  <2> QED BY <2>1, <2>2, <2>3
<1> HIDE DEF d, stack
<1>4. SameBelow(g, d, n)
  BY <1>1, <1>2, <1>3 DEF SameBelow
<1> QED BY <1>4 DEF d

\* A frame that is pushed leaves every slot below its callee slot, and the
\* arguments that are in place; one that is not pushed leaves every slot.
LEMMA PushFrameKeeps ==
  ASSUME NEW c, CoOk(c), NEW id \in DOMAIN Proto, NEW argc \in Nat, NEW inPlace \in BOOLEAN,
         NEW base \in Int, NEW argv, NEW n \in Int, n <= base + argc, ~inPlace => n <= base - 1,
         NEW o \in PushFrameAt(c, id, argc, inPlace, base, argv)
  PROVE  /\ SameBelow(c, o.co, n)
         /\ o.res = "ok" => o.co.stackTop = base + Proto[id].localCount
         /\ o.res # "ok" => SameBelow(c, o.co, c.stackCap)
<1>0. c.stackCap \in Nat /\ Len(c.frames) \in Nat
  BY CoElim
<1>1. CASE PushRefused(c, Proto[id], argc, inPlace, base)
  <2>1. o = Outcome("runtime", c)
    BY <1>1 DEF PushFrameAt
  <2>2. o.res = "runtime" /\ o.co = c
    BY <2>1 DEF Outcome
  <2> QED BY <1>0, <2>2 DEF SameBelow
<1>2. CASE ~PushRefused(c, Proto[id], argc, inPlace, base)
  <2> DEFINE needed == base + Proto[id].localCount + Proto[id].stackSize
  <2>1. PICK s \in EnsureStack(c, needed) :
          \/ s.res # "ok" /\ o = s
          \/ /\ s.res = "ok"
             /\ \E f \in EnsureFrames(s.co, Len(c.frames) + 1) :
                  o = IF f.res = "ok"
                        THEN Outcome("ok", Pushed(c, f.co, id, argc, inPlace, base, argv)) ELSE f
    BY <1>2 DEF PushFrameAt
  <2>2. needed \in Int
    BY ProtoFacts
  <2> HIDE DEF needed
  <2>3. /\ s.res # "ok" => s.co = c
        /\ CoOk(s.co) /\ s.co.stackCap >= c.stackCap
        /\ s.co.frames = c.frames /\ s.co.stackTop = c.stackTop
        /\ \A i \in 0..c.stackCap - 1 : s.co.stack[i] = c.stack[i]
    BY <2>1, <2>2, EnsureStackSafe
  <2>4. CASE s.res # "ok" /\ o = s
    BY <1>0, <2>3, <2>4 DEF SameBelow
  <2>5. CASE s.res = "ok" /\ ~(s.res # "ok" /\ o = s)
    <3>1. PICK f \in EnsureFrames(s.co, Len(c.frames) + 1) :
            o = IF f.res = "ok"
                  THEN Outcome("ok", Pushed(c, f.co, id, argc, inPlace, base, argv)) ELSE f
      BY <2>1, <2>5
    <3>2. CoOk(f.co) /\ f.co.stackCap = s.co.stackCap /\ f.co.stack = s.co.stack
      <4>1. Len(c.frames) + 1 \in Int
        BY <1>0
      <4> QED BY <2>3, <3>1, <4>1, EnsureFramesSafe
    <3>3. /\ c.stackCap <= f.co.stackCap /\ f.co.stackCap \in Nat
          /\ \A i \in 0..c.stackCap - 1 : i \in 0..f.co.stackCap - 1 /\ f.co.stack[i] = c.stack[i]
      <4>1. s.co.stackCap \in Nat
        BY <2>3, CoElim
      <4> QED BY <1>0, <2>3, <3>2, <4>1
    <3>4. CASE f.res = "ok"
      <4>1. o.res = "ok" /\ o.co = Pushed(c, f.co, id, argc, inPlace, base, argv)
        BY <3>1, <3>4 DEF Outcome
      <4>2. /\ Pushed(c, f.co, id, argc, inPlace, base, argv).stackTop = base + Proto[id].localCount
            /\ Pushed(c, f.co, id, argc, inPlace, base, argv).stackCap = f.co.stackCap
        BY <3>2, PushedFields
      <4>6. SameBelow(f.co, Pushed(c, f.co, id, argc, inPlace, base, argv), n)
        BY <3>2, PushedKeeps
      <4> DEFINE g == f.co
                 d == o.co
      <4>3. /\ d.stackTop = base + Proto[id].localCount /\ d.stackCap = g.stackCap
            /\ SameBelow(g, d, n)
        BY <4>1, <4>2, <4>6
      <4>4. /\ c.stackCap <= g.stackCap /\ g.stackCap \in Nat
            /\ \A i \in 0..c.stackCap - 1 : i \in 0..g.stackCap - 1 /\ g.stack[i] = c.stack[i]
        BY <3>3
      <4> HIDE DEF g, d
      <4>5. SameBelow(c, d, n)
        BY <4>3, <4>4 DEF SameBelow
      <4> QED BY <4>1, <4>3, <4>5 DEF d
    <3>5. CASE f.res # "ok"
      <4>1. o = f
        BY <3>1, <3>5
      <4> QED BY <3>3, <3>5, <4>1 DEF SameBelow
    <3> QED BY <3>4, <3>5
  <2> QED BY <2>1, <2>4, <2>5
<1> QED BY <1>1, <1>2

LEMMA FramesOk ==
  ASSUME NEW c, CoOk(c)
  PROVE  Len(c.frames) \in Nat /\ \A k \in 1..Len(c.frames) : FrameOk(c.frames[k])
<1>1. c.stackCap \in Nat /\ Len(c.frames) \in Nat
      /\ \A k \in 1..Len(c.frames) : c.frames[k] \in Frame /\ Window(c.stackCap, c.frames[k])
  BY CoElim
<1> QED BY <1>1, LocalsEndBound DEF FrameOk

\* The machine at the call, the arguments taken off.
LEMMA DeepAtCall ==
  ASSUME CodeOk, Inv, DeepNow, InVm, PcOk, Ins.op = "CALL", ~Fault
  PROVE  /\ Deep(Fetched.frames, Base, acts) /\ Nested(Fetched.frames, acts)
         /\ Len(Fetched.frames) = Len(co.frames)
         /\ \A j \in 1..acts[Len(acts)].stopAt :
              j \in 1..Len(Fetched.frames) /\ Fetched.frames[j] = co.frames[j]
<1>1. /\ Ins.a \in Nat /\ Base \in Nat /\ Base + Ins.a = co.stackTop /\ co.stackTop \in Nat
      /\ Ins.a <= co.stackTop
  <2>1. Ins.a \in Nat /\ Base \in Nat /\ Base + Ins.a = co.stackTop
    BY CallFacts
  <2> QED BY <2>1
<1>2. Pops(Ins) = Ins.a + 1 /\ Pushes(Ins) = 1 /\ Top.pc + 1 \in Successors(Ins, Top.pc)
  BY Effects
<1> DEFINE d == Popped(Fetched, Ins.a)
<1>3. Moved(d, Top.pc + 1, co.stackTop - Ins.a)
  BY <1>1, MovedPopped
<1>4. co.stackTop - Ins.a = co.stackTop - Pops(Ins) + Pushes(Ins) /\ co.stackTop - Ins.a = Base
  BY <1>1, <1>2
<1>5. d.frames = Fetched.frames /\ CoOk(Fetched) /\ Moved(Fetched, Top.pc + 1, co.stackTop)
  BY <1>1, FetchStep, FetchMoved, PopStep
<1> HIDE DEF d
<1>6. Deep(Fetched.frames, Base, acts)
  <2>1. Moved(d, Top.pc + 1, co.stackTop - Pops(Ins) + Pushes(Ins))
    BY <1>3, <1>4
  <2>2. Deep(d.frames, co.stackTop - Pops(Ins) + Pushes(Ins), acts)
    BY <1>2, <2>1, DeepMoved DEF DeepNow
  <2> QED BY <1>4, <1>5, <2>2
<1>7. /\ Len(Fetched.frames) = Len(co.frames)
      /\ \A k \in 1..Len(co.frames) : k < Len(co.frames) => Fetched.frames[k] = co.frames[k]
  <2>1. Top.pc + 1 \in Int
    BY InsFacts
  <2> QED BY <1>5, <2>1, MovedFrames
<1>8. Nested(co.frames, acts)
  BY InvNested
<1>9. \A k \in 1..Len(Fetched.frames) : FrameOk(Fetched.frames[k])
  BY <1>5, FramesOk
<1>10. Nested(Fetched.frames, acts)
  BY <1>7, <1>8, <1>9 DEF Nested
<1>11. \A j \in 1..acts[Len(acts)].stopAt :
         j \in 1..Len(Fetched.frames) /\ Fetched.frames[j] = co.frames[j]
  <2> SUFFICES ASSUME NEW j \in 1..acts[Len(acts)].stopAt
               PROVE  j \in 1..Len(co.frames) /\ j < Len(co.frames)
    BY <1>7
  <2>1. /\ acts[Len(acts)].stopAt \in Nat /\ acts[Len(acts)].stopAt < Len(co.frames)
        /\ Len(co.frames) \in Nat
    BY RunNow
  <2> QED BY <2>1
<1> QED BY <1>6, <1>7, <1>10, <1>11

LEMMA AppendedFrames ==
  ASSUME NEW c, CoOk(c), NEW d, NEW f, d.frames = Append(c.frames, f)
  PROVE  /\ Len(d.frames) = Len(c.frames) + 1 /\ d.frames[Len(c.frames) + 1] = f
         /\ \A k \in 1..Len(c.frames) : d.frames[k] = c.frames[k]
<1>1. c.frames \in Seq(Frame)
  BY CoElim
<1> QED BY <1>1

\* A frame whose arguments are in place.
LEMMA PushFrameInPlace ==
  ASSUME NEW c, CoOk(c), NEW id \in DOMAIN Proto, NEW argc \in Nat, NEW base \in Int, NEW argv,
         NEW o \in PushFrameAt(c, id, argc, TRUE, base, argv)
  PROVE  /\ CoOk(o.co) /\ SameBelow(c, o.co, base)
         /\ o.res = "ok" => /\ o.co.frames = Append(c.frames, NewFrame(id, base))
                            /\ o.co.stackTop = base + Proto[id].localCount
         /\ o.res # "ok" => o.co.frames = c.frames /\ SameBelow(c, o.co, c.stackCap)
<1> DEFINE yes == TRUE
<1>1. yes \in BOOLEAN /\ o \in PushFrameAt(c, id, argc, yes, base, argv)
  OBVIOUS
<1>5. ~yes => base = c.stackTop + 1 /\ ArgsOk(c, argc, argv)
  OBVIOUS
<1> HIDE DEF yes
<1>2. /\ o.res \in Status
      /\ CoOk(o.co) /\ Extends(c, o.co)
      /\ o.res = "ok" => o.co.frames = Append(c.frames, NewFrame(id, base)) /\ base <= o.co.stackTop
      /\ o.res # "ok" => o.co.frames = c.frames /\ o.co.stackTop = c.stackTop
  BY <1>1, <1>5, PushFrameSafe
<1>3. base <= base + argc /\ (~yes => base <= base - 1)
  BY DEF yes
<1>4. /\ SameBelow(c, o.co, base)
      /\ o.res = "ok" => o.co.stackTop = base + Proto[id].localCount
      /\ o.res # "ok" => SameBelow(c, o.co, c.stackCap)
  BY <1>1, <1>3, PushFrameKeeps
<1> QED BY <1>2, <1>4

LEMMA DeepCallScript == CodeOk /\ Inv /\ DeepNow /\ ExecCallScript => DeepNow'
<1> SUFFICES ASSUME CodeOk, Inv, DeepNow, ExecCallScript PROVE DeepNow'
  OBVIOUS
<1>1. InVm /\ PcOk /\ Ins.op = "CALL" /\ ~Fault /\ Callee.tag = "fn"
  BY RunsDef DEF ExecCallScript
<1>2. PICK o \in PushFrameAt(Fetched, Callee.n, Ins.a, TRUE, Base, HeapArgs(<<>>)) :
        IF o.res = "ok" THEN Continue(o.co)
        ELSE \E r \in Raised(o.res) : Unwind(Len(acts), o.co, r)
  BY DEF ExecCallScript
<1>3. Callee.n \in DOMAIN Proto
  <2>1. Callee \in Value
    BY <1>1, CallFacts
  <2> QED BY <1>1, <2>1 DEF Value
<1>4. Ins.a \in Nat /\ Base \in Int
  BY <1>1, CallFacts
<1>5. CoOk(Fetched)
  BY <1>1, FetchStep
<1>6. /\ Deep(Fetched.frames, Base, acts) /\ Nested(Fetched.frames, acts)
      /\ \A j \in 1..acts[Len(acts)].stopAt :
           j \in 1..Len(Fetched.frames) /\ Fetched.frames[j] = co.frames[j]
  BY <1>1, DeepAtCall
<1> DEFINE args == HeapArgs(<<>>)
           base == Base
           id == Callee.n
           argc == Ins.a
           c == Fetched
<1>8. /\ o \in PushFrameAt(c, id, argc, TRUE, base, args)
      /\ CoOk(c) /\ id \in DOMAIN Proto /\ argc \in Nat /\ base \in Int
  BY <1>2, <1>3, <1>4, <1>5
<1> HIDE DEF args, base, id, argc, c
<1>7. /\ CoOk(o.co) /\ SameBelow(c, o.co, base)
      /\ o.res = "ok" => /\ o.co.frames = Append(c.frames, NewFrame(id, base))
                         /\ o.co.stackTop = base + Proto[id].localCount
      /\ o.res # "ok" => o.co.frames = c.frames /\ SameBelow(c, o.co, c.stackCap)
  BY <1>8, PushFrameInPlace
<1> USE DEF args, base, id, argc, c
<1>9. CASE o.res = "ok"
  <2> DEFINE F == Fetched.frames
             G == o.co.frames
             u == o.co.stackTop
             t == Base
             p == Callee.n
             f == NewFrame(p, t)
  <2>1. co' = o.co /\ acts' = acts
    BY <1>2, <1>9 DEF Continue
  <2>2. /\ Len(G) = Len(F) + 1 /\ G[Len(F) + 1] = f /\ \A k \in 1..Len(F) : G[k] = F[k]
    BY <1>5, <1>7, <1>9, AppendedFrames
  <2>3. u = t + Proto[p].localCount
    BY <1>7, <1>9
  <2>4. RunsNow(acts) /\ t \in Int /\ p \in DOMAIN Proto
    BY <1>1, <1>3, <1>4, RunNow
  <2>5. Deep(F, t, acts) /\ Nested(F, acts)
    BY <1>6
  <2>6. f.base = t
    BY DEF NewFrame
  <2> HIDE DEF F, G, u, t, p, f
  <2>7. AtLeast(f, u) /\ Exactly(f, u)
    BY <2>3, <2>4, NewFrameExact DEF f
  <2>8. Deep(G, u, acts)
    BY <2>2, <2>4, <2>5, <2>6, <2>7, DeepPush
  <2> QED BY <2>1, <2>8 DEF DeepNow, G, u
<1>10. CASE o.res # "ok"
  <2>1. PICK r \in Raised(o.res) : Unwind(Len(acts), o.co, r)
    BY <1>2, <1>10
  <2>2. /\ CoOk(o.co)
        /\ \A j \in 1..acts[Len(acts)].stopAt :
             j \in 1..Len(o.co.frames) /\ o.co.frames[j] = co.frames[j]
    BY <1>6, <1>7, <1>10
  <2> QED BY <1>1, <2>1, <2>2, RunNow, DeepUnwind
<1> QED BY <1>9, <1>10

LEMMA ActsAppended ==
  ASSUME NEW us \in Acts, NEW a, NEW vs, vs = Append(us, a)
  PROVE  Len(vs) = Len(us) + 1 /\ vs[Len(us) + 1] = a /\ \A m \in 1..Len(us) : vs[m] = us[m]
BY DEF Acts

LEMMA DeepCallNative == CodeOk /\ Inv /\ DeepNow /\ ExecCallNative => DeepNow'
<1> SUFFICES ASSUME CodeOk, Inv, DeepNow, ExecCallNative PROVE DeepNow'
  OBVIOUS
<1> DEFINE a == [type |-> "native", argc |-> Ins.a, base |-> Base, cap |-> co.stackCap]
           vs == acts'
           t == Base
           F == Fetched.frames
           u == Fetched.stackTop
<1>1. InVm /\ PcOk /\ Ins.op = "CALL" /\ ~Fault
  BY RunsDef DEF ExecCallNative
<1>2. co' = Fetched /\ vs = Append(acts, a)
  BY DEF ExecCallNative
<1>3. a.type = "native" /\ a.base = t
  OBVIOUS
<1>4. acts \in Acts /\ RunsNow(acts)
  BY <1>1, RunNow DEF Inv
<1>5. Deep(F, t, acts) /\ Nested(F, acts)
  BY <1>1, DeepAtCall
<1> HIDE DEF a, vs, t, F, u
<1>6. Len(vs) = Len(acts) + 1 /\ vs[Len(acts) + 1] = a /\ \A m \in 1..Len(acts) : vs[m] = acts[m]
  BY <1>2, <1>4, ActsAppended
<1>7. IsNative(vs, Len(acts) + 1) /\ vs[Len(acts) + 1].base = t
  BY <1>3, <1>6 DEF IsNative
<1>8. Deep(F, u, vs)
  BY <1>4, <1>5, <1>6, <1>7, DeepNative
<1> QED BY <1>2, <1>8 DEF DeepNow, F, u, vs

LEMMA DeepReturned == CodeOk /\ Inv /\ DeepNow /\ ExecReturn => DeepNow'
<1> SUFFICES ASSUME CodeOk, Inv, DeepNow, ExecReturn PROVE DeepNow'
  OBVIOUS
<1> DEFINE left == Len(co.frames) - 1
           c == PushedOn(Cut(co, left, Top.base - 1), Peek(0))
           n == Len(acts)
<1>1. InVm /\ PcOk /\ Ins.op = "RETURN" /\ ~Fault
  BY RunsDef DEF ExecReturn
<1>2. IF left > Act.stopAt THEN Continue(c) ELSE co' = c /\ acts' = CallerActs
  BY DEF ExecReturn
<1>3. Holds(1)
  BY <1>1 DEF Fault
<1>4. /\ CoOk(c) /\ Len(c.frames) = left
      /\ \A k \in 1..left : c.frames[k] = co.frames[k]
      /\ c.stackTop = Top.base
  BY <1>1, <1>3, ReturnFacts
<1>5. /\ Deep(co.frames, co.stackTop, acts) /\ Nested(co.frames, acts) /\ RunsNow(acts)
      /\ n \in 1..n /\ n \in Nat /\ IsRun(acts, n) /\ acts[n].stopAt \in Nat
      /\ acts[n].stopAt < Len(co.frames) /\ Len(co.frames) \in 1..Len(co.frames)
      /\ Len(co.frames) \in Nat /\ Act.stopAt = acts[n].stopAt /\ acts \in Acts
  BY <1>1, RunNow DEF DeepNow, Act, Inv
<1>6. Top.base = co.frames[Len(co.frames)].base
  BY DEF Top
<1> HIDE DEF c
<1>7. CASE left > Act.stopAt
  <2>1. co' = c /\ acts' = acts
    BY <1>2, <1>7 DEF Continue
  <2>2. Deep(c.frames, co.frames[Len(co.frames)].base, acts)
    BY <1>4, <1>5, <1>7, DeepReturn
  <2> QED BY <1>4, <1>6, <2>1, <2>2 DEF DeepNow
<1>8. CASE ~(left > Act.stopAt)
  <2> DEFINE vs == acts'
             G == c.frames
             u == Top.base
  <2>1. co' = c /\ vs = SubSeq(acts, 1, n - 1)
    BY <1>2, <1>8 DEF CallerActs
  <2>2. left = acts[n].stopAt
    BY <1>5, <1>8
  <2>3. Len(vs) = n - 1 /\ \A m \in 1..Len(vs) : vs[m] = acts[m]
    <3>1. n - 1 \in 0..Len(acts)
      BY <1>5
    <3> QED BY <1>5, <2>1, <3>1, ActsSub
  <2>4. Len(G) = acts[n].stopAt /\ \A k \in 1..Len(G) : G[k] = co.frames[k]
    BY <1>4, <2>2
  <2>5. n = 1 => \A k \in 1..acts[1].stopAt : AtLeast(G[k], u)
    <3> SUFFICES ASSUME n = 1, NEW k \in 1..acts[1].stopAt PROVE AtLeast(G[k], u)
      OBVIOUS
    <3>1. k \in 1..Len(co.frames) /\ k < Len(co.frames) /\ G[k] = co.frames[k]
      BY <1>5, <2>4
    <3>2. AtLeast(co.frames[k], co.frames[Len(co.frames)].base)
      <4>1. FramesDeep(co.frames) /\ Len(co.frames) \in 1..Len(co.frames)
        BY <1>5 DEF Deep
      <4> QED BY <3>1, <4>1 DEF FramesDeep
    <3> QED BY <1>6, <3>1, <3>2
  <2> HIDE DEF vs, G, u
  <2>6. Deep(G, u, vs)
    <3> DEFINE F == co.frames
               t == co.stackTop
               us == acts
    <3>1. /\ Nested(F, us) /\ Deep(F, t, us) /\ n \in 1..Len(us) /\ IsRun(us, n)
          /\ Len(G) = us[n].stopAt /\ Len(vs) = n - 1
          /\ \A m \in 1..Len(vs) : vs[m] = us[m]
          /\ \A k \in 1..Len(G) : G[k] = F[k]
          /\ (n = 1 => \A k \in 1..us[1].stopAt : AtLeast(G[k], u))
      BY <1>5, <2>3, <2>4, <2>5
    <3> HIDE DEF F, t, us, n
    <3> QED BY <3>1, DeepCut
  <2> QED BY <1>4, <2>1, <2>6 DEF DeepNow, vs, G, u
<1> QED BY <1>7, <1>8

LEMMA PushFrameOver ==
  ASSUME NEW c, CoOk(c), NEW id \in DOMAIN Proto, NEW argc \in Nat, NEW argv,
         NEW o \in PushFrameAt(c, id, argc, FALSE, c.stackTop + 1, argv)
  PROVE  /\ SameBelow(c, o.co, c.stackTop)
         /\ o.res = "ok" => o.co.stackTop = c.stackTop + 1 + Proto[id].localCount
         /\ o.res # "ok" => SameBelow(c, o.co, c.stackCap)
<1> DEFINE no == FALSE
           base == c.stackTop + 1
           n == c.stackTop
<1>1. no \in BOOLEAN /\ o \in PushFrameAt(c, id, argc, no, base, argv)
  OBVIOUS
<1>2. base \in Int /\ n \in Int /\ n <= base + argc /\ (~no => n <= base - 1)
  <2>1. n \in Nat
    BY CoElim
  <2> HIDE DEF n, no
  <2>2. base = n + 1
    BY DEF n
  <2> HIDE DEF base
  <2> QED BY <2>1, <2>2
<1> HIDE DEF no, base, n
<1>3. /\ SameBelow(c, o.co, n)
      /\ o.res = "ok" => o.co.stackTop = base + Proto[id].localCount
      /\ o.res # "ok" => SameBelow(c, o.co, c.stackCap)
  BY <1>1, <1>2, PushFrameKeeps
<1> QED BY <1>3 DEF base, n

LEMMA DeepNativeReturn == Inv /\ DeepNow /\ NativeReturn => DeepNow'
<1> SUFFICES ASSUME Inv, DeepNow, NativeReturn PROVE DeepNow'
  OBVIOUS
<1> DEFINE top == Act.base - 1
           c == [co EXCEPT !.stackTop = top]
           vs == acts'
           F == co.frames
           b == acts[Len(acts)].base
<1>1. InNative /\ vs = SubSeq(acts, 1, Len(acts) - 1)
  BY DEF NativeReturn, CallerActs
<1>2. PICK v \in Results : co' = PushedOn(c, v)
  BY DEF NativeReturn
<1>3. CoOk(co) /\ Nested(F, acts) /\ Deep(F, co.stackTop, acts) /\ acts \in Acts
  BY InvNested DEF Inv, DeepNow
<1>4. /\ Len(acts) \in Nat /\ Len(acts) > 0 /\ IsNative(acts, Len(acts))
      /\ Act.base \in Int /\ Act.base = b
  BY <1>1, NativeFacts DEF IsNative
<1>5. Len(vs) = Len(acts) - 1 /\ \A m \in 1..Len(vs) : vs[m] = acts[m]
  <2>1. Len(acts) - 1 \in 0..Len(acts)
    BY <1>4
  <2> QED BY <1>1, <1>3, <2>1, ActsSub
<1>6. c = Co(F, co.framesCap, top, co.stackCap, co.stack)
  BY <1>3, SetTop
<1>7. PushedOn(c, v).frames = F /\ PushedOn(c, v).stackTop = b
  <2> DEFINE m == co.stackTop - top
  <2>1. top + 1 = b
    BY <1>4
  <2>2. CoOk(c) /\ c.stackTop = top /\ c.frames = F
    <3>1. /\ co.stackTop \in Nat /\ co.stackTop <= co.stackCap /\ co.stackCap \in Nat
          /\ Act.base \in Int /\ Act.argc \in Nat /\ Act.base >= 1
          /\ Act.base + Act.argc <= co.stackTop
      BY <1>1, <1>3, NativeFacts, CoElim
    <3>2. m \in Nat /\ m <= co.stackTop /\ co.stackTop - m = top
      BY <3>1
    <3> HIDE DEF top, m
    <3>3. c = Popped(co, m)
      <4>1. Popped(co, m) = Co(co.frames, co.framesCap, co.stackTop - m, co.stackCap, co.stack)
        BY <1>3, SetTop, Zenon DEF Popped
      <4>2. c = Co(co.frames, co.framesCap, top, co.stackCap, co.stack)
        BY <1>3, SetTop
      <4> QED BY <3>2, <4>1, <4>2
    <3>4. SameShape(co, c) /\ c.stackTop = top /\ c.frames = co.frames
      BY <1>3, <3>2, <3>3, PopStep
    <3> QED BY <3>4 DEF SameShape
  <2> HIDE DEF c, top, F, b
  <2>3. PushedOn(c, v).frames = c.frames /\ PushedOn(c, v).stackTop = c.stackTop + 1
    BY <2>2, PushedOnFields
  <2> QED BY <2>1, <2>2, <2>3
<1> HIDE DEF vs, F, b, c
<1>8. Deep(F, acts[Len(acts)].base, vs)
  BY <1>3, <1>4, <1>5, DeepResume
<1> QED BY <1>2, <1>7, <1>8 DEF DeepNow, vs, b

LEMMA DeepNativeFail == Inv /\ DeepNow /\ NativeFail => DeepNow'
<1> SUFFICES ASSUME Inv, DeepNow, NativeFail PROVE DeepNow'
  OBVIOUS
<1> DEFINE k == Len(acts) - 1
<1>1. PICK r : Unwind(k, co, r)
  BY DEF NativeFail
<1>2. k \in 1..Len(acts) /\ IsRun(acts, k)
  <2>1. Len(acts) \in Nat /\ Len(acts) > 1 /\ acts[Len(acts) - 1].type = "run"
    BY NativeFacts DEF NativeFail
  <2> QED BY <2>1 DEF IsRun
<1> HIDE DEF k
<1>3. CoOk(co)
  BY DEF Inv
<1>4. \A j \in 1..acts[k].stopAt : j \in 1..Len(co.frames)
  <2>1. acts[k].stopAt \in Nat /\ acts[k].stopAt < Len(co.frames) /\ Len(co.frames) \in Nat
    BY <1>2, InvNested DEF Nested
  <2> QED BY <2>1
<1> QED BY <1>1, <1>2, <1>3, <1>4, DeepUnwind

LEMMA DeepCallProto ==
  ASSUME CodeOk, Inv, DeepNow, InHost \/ InNative, NEW e, NEW id \in DOMAIN Proto,
         NEW argc \in Nat, NEW argv, ArgsOk(co, argc, argv), CallProto(e, id, argc, argv)
  PROVE  DeepNow'
<1>1. CoOk(co) /\ acts \in Acts /\ co.stackTop \in Nat /\ Len(co.frames) \in Nat
  BY CoElim DEF Inv
<1>2. PICK o \in PushFrameAt(co, id, argc, FALSE, co.stackTop + 1, argv) :
        IF o.res = "ok"
        THEN /\ co' = o.co
             /\ acts' = Append(acts, [type |-> "run", stopAt |-> Len(co.frames),
                                      top |-> co.stackTop, call |-> TRUE])
        ELSE /\ co' = Cut(o.co, Len(co.frames), co.stackTop)
             /\ acts' = acts
  BY DEF CallProto
<1>3. o \in PushFrameAt(co, id, argc, FALSE, co.stackTop + 1, argv)
  BY <1>2
<1>4. CASE o.res = "ok"
  <2> DEFINE F == co.frames
             G == o.co.frames
             u == o.co.stackTop
             t == co.stackTop
             f == NewFrame(id, t + 1)
             a == [type |-> "run", stopAt |-> Len(F), top |-> t, call |-> TRUE]
             vs == acts'
  <2>1. co' = o.co /\ vs = Append(acts, a)
    BY <1>2, <1>4
  <2>2. G = Append(F, f)
    BY <1>1, <1>3, <1>4, PushFrameAbove
  <2>3. u = t + 1 + Proto[id].localCount
    BY <1>1, <1>3, <1>4, PushFrameOver
  <2>4. /\ Len(G) = Len(F) + 1 /\ G[Len(F) + 1] = f /\ \A k \in 1..Len(F) : G[k] = F[k]
    BY <1>1, <2>2, AppendedFrames
  <2>5. Len(vs) = Len(acts) + 1 /\ vs[Len(acts) + 1] = a /\ \A m \in 1..Len(acts) : vs[m] = acts[m]
    <3> HIDE DEF a
    <3> QED BY <1>1, <2>1, ActsAppended
  <2>6. a.type = "run" /\ a.stopAt = Len(F) /\ a.top = t
    OBVIOUS
  <2>7. Deep(F, t, acts) /\ Nested(F, acts) /\ t \in Int /\ f.base = t + 1
    BY <1>1, InvNested DEF DeepNow, NewFrame
  <2>8. ~RunsNow(acts)
    <3>1. CASE InHost
      BY <3>1 DEF InHost, RunsNow
    <3>2. CASE InNative
      BY <3>2 DEF InNative, RunsNow, IsRun, Act
    <3> QED BY <3>1, <3>2
  <2>9. Len(acts) > 0 => acts[Len(acts)].base <= t
    <3> SUFFICES ASSUME Len(acts) > 0 PROVE acts[Len(acts)].base <= t
      OBVIOUS
    <3>1. InNative
      BY DEF InHost
    <3>2. /\ acts[Len(acts)] = Act /\ Act.base \in Int /\ Act.argc \in Nat
          /\ Act.base + Act.argc <= co.stackTop
      BY <3>1, NativeFacts
    <3> QED BY <1>1, <3>2
  <2>10. t + 1 \in Int
    BY <2>7
  <2> HIDE DEF F, G, u, t, a, vs
  <2>11. AtLeast(f, u) /\ Exactly(f, u)
    BY <2>3, <2>10, NewFrameExact
  <2> HIDE DEF f
  <2>12. IsRun(vs, Len(acts) + 1) /\ vs[Len(acts) + 1].stopAt = Len(F) /\ vs[Len(acts) + 1].top = t
    BY <2>5, <2>6 DEF IsRun
  <2>13. Deep(G, u, vs)
    BY <2>4, <2>5, <2>7, <2>8, <2>9, <2>11, <2>12, DeepStart
  <2> QED BY <2>1, <2>13 DEF DeepNow, G, u, vs
<1>5. CASE o.res # "ok"
  <2>1. Unmoved(co, o.co) /\ CoOk(o.co)
    BY <1>1, <1>3, <1>5, PushFrameAbove
  <2>2. co' = Cut(o.co, Len(co.frames), co.stackTop) /\ acts' = acts
    BY <1>2, <1>5
  <2> DEFINE d == Cut(o.co, Len(co.frames), co.stackTop)
             F == co.frames
             t == co.stackTop
  <2>3. d.frames = F /\ d.stackTop = t
    <3>1. d.frames = SubSeq(o.co.frames, 1, Len(F)) /\ d.stackTop = t
      BY <2>1, CutFields
    <3>2. SubSeq(F, 1, Len(F)) = F
      <4>1. F \in Seq(Frame)
        BY <1>1, CoElim
      <4> HIDE DEF F
      <4> QED BY <4>1
    <3> HIDE DEF d
    <3> QED BY <2>1, <3>1, <3>2 DEF Unmoved
  <2> HIDE DEF d, F, t
  <2>4. Deep(F, t, acts)
    BY DEF DeepNow, F, t
  <2> QED BY <2>2, <2>3, <2>4 DEF DeepNow, d
<1> QED BY <1>4, <1>5

LEMMA DeepHostCall == CodeOk /\ Inv /\ DeepNow /\ HostCall => DeepNow'
<1> SUFFICES ASSUME CodeOk, Inv, DeepNow, HostCall PROVE DeepNow'
  OBVIOUS
<1>1. PICK id \in EntryProtos, args \in MadeArgs : CallProto("none", id, Len(args), HeapArgs(args))
  BY DEF HostCall
<1>2. InHost
  BY DEF HostCall
<1>3. id \in DOMAIN Proto
  BY ProtoAssumption
<1>4. Len(args) \in Nat /\ ArgsOk(co, Len(args), HeapArgs(args))
  BY MadeArgsOk
<1> QED BY <1>1, <1>2, <1>3, <1>4, DeepCallProto

LEMMA DeepNativeCall == CodeOk /\ Inv /\ DeepNow /\ NativeCall => DeepNow'
<1> SUFFICES ASSUME CodeOk, Inv, DeepNow, NativeCall PROVE DeepNow'
  OBVIOUS
<1>1. InNative
  BY DEF NativeCall
<1>2. PICK id \in NativeProtos :
        \/ \E args \in MadeArgs : CallProto(err, id, Len(args), HeapArgs(args))
        \/ \E first \in 0..Act.argc : \E argc \in 1..Act.argc - first :
             CallProto(err, id, argc, StackArgs(Act.base + first))
  BY DEF NativeCall
<1>3. id \in DOMAIN Proto
  BY ProtoAssumption
<1>4. CASE \E args \in MadeArgs : CallProto(err, id, Len(args), HeapArgs(args))
  <2>1. PICK args \in MadeArgs : CallProto(err, id, Len(args), HeapArgs(args))
    BY <1>4
  <2>2. Len(args) \in Nat /\ ArgsOk(co, Len(args), HeapArgs(args))
    BY MadeArgsOk
  <2> QED BY <1>1, <1>3, <2>1, <2>2, DeepCallProto
<1>5. CASE \E first \in 0..Act.argc : \E argc \in 1..Act.argc - first :
             CallProto(err, id, argc, StackArgs(Act.base + first))
  <2>1. PICK first \in 0..Act.argc : \E argc \in 1..Act.argc - first :
          CallProto(err, id, argc, StackArgs(Act.base + first))
    BY <1>5
  <2>2. PICK argc \in 1..Act.argc - first : CallProto(err, id, argc, StackArgs(Act.base + first))
    BY <2>1
  <2>3. /\ Act.base \in Int /\ Act.argc \in Nat /\ Act.base >= 1
        /\ Act.base + Act.argc <= co.stackTop /\ co.stackTop \in Nat
    BY <1>1, NativeFacts, CoElim DEF Inv
  <2> DEFINE index == Act.base + first
  <2>4. argc \in Nat /\ index \in Nat /\ index + argc <= co.stackTop
    BY <2>3
  <2>5. ArgsOk(co, argc, StackArgs(index))
    BY <2>4, StackArgsOk
  <2>6. CallProto(err, id, argc, StackArgs(index))
    BY <2>2
  <2> HIDE DEF index
  <2> QED BY <1>1, <1>3, <2>4, <2>5, <2>6, DeepCallProto
<1> QED BY <1>2, <1>4, <1>5

LEMMA DeepHostReopen == HostReopen => DeepNow'
<1> SUFFICES ASSUME HostReopen PROVE DeepNow'
  OBVIOUS
<1>1. co' = NewCo /\ acts' = <<>>
  BY DEF HostReopen, InHost
<1>2. NewCo.frames = <<>>
  BY DEF NewCo
<1> DEFINE F == NewCo.frames
           t == NewCo.stackTop
           us == <<>>
<1>3. Len(F) = 0 /\ Len(us) = 0
  BY <1>2
<1> HIDE DEF F, t, us
<1>4. FramesDeep(F) /\ \A k \in 1..Len(F) : AtLeast(F[k], t)
  BY <1>3 DEF FramesDeep
<1>5. Deep(F, t, us)
  BY <1>3, <1>4, DeepHost
<1> QED BY <1>1, <1>5 DEF DeepNow, F, t, us

LEMMA DeepInit == Init => DeepNow
<1> SUFFICES ASSUME Init PROVE DeepNow
  OBVIOUS
<1>1. co = NewCo /\ acts = <<>>
  BY DEF Init
<1>2. NewCo.frames = <<>>
  BY DEF NewCo
<1> DEFINE F == NewCo.frames
           t == NewCo.stackTop
           us == <<>>
<1>3. Len(F) = 0 /\ Len(us) = 0
  BY <1>2
<1> HIDE DEF F, t, us
<1>4. FramesDeep(F) /\ \A k \in 1..Len(F) : AtLeast(F[k], t)
  BY <1>3 DEF FramesDeep
<1>5. Deep(F, t, us)
  BY <1>3, <1>4, DeepHost
<1> QED BY <1>1, <1>5 DEF DeepNow, F, t, us

\* The argv that the host passes to msVmPushFrame.
LEMMA HostArgsOk ==
  ASSUME Inv, NEW argc \in 0..2,
         NEW argv \in {HeapArgs([k \in 1..argc |-> Nil])} \cup
                      {StackArgs(index) : index \in 0..co.stackTop - argc}
  PROVE  ArgsOk(co, argc, argv)
<1>1. CASE argv = HeapArgs([k \in 1..argc |-> Nil])
  <2>1. \A j \in 0..argc - 1 : argv.vals[j + 1] = Nil
    BY <1>1 DEF HeapArgs
  <2>2. ~argv.inStack
    BY <1>1 DEF HeapArgs
  <2> QED BY <2>1, <2>2, ValueFacts DEF ArgsOk
<1>2. CASE \E index \in 0..co.stackTop - argc : argv = StackArgs(index)
  <2>1. PICK index \in 0..co.stackTop - argc : argv = StackArgs(index)
    BY <1>2
  <2>2. co.stackTop \in Nat
    BY CoElim DEF Inv
  <2>3. index \in Nat /\ index + argc <= co.stackTop
    BY <2>2
  <2> QED BY <2>1, <2>3, StackArgsOk
<1> QED BY <1>1, <1>2

LEMMA DeepHostPushed ==
  ASSUME CodeOk, Inv, DeepNow, InHost, NEW id \in DOMAIN Proto, NEW argc \in Nat, NEW argv,
         ArgsOk(co, argc, argv),
         NEW o \in PushFrameAt(co, id, argc, FALSE, co.stackTop + 1, argv),
         co' = o.co, acts' = acts
  PROVE  DeepNow'
<1>1. CoOk(co) /\ co.stackTop \in Nat /\ Len(co.frames) \in Nat
  BY CoElim DEF Inv
<1> DEFINE F == co.frames
           G == o.co.frames
           u == o.co.stackTop
           t == co.stackTop
           f == NewFrame(id, t + 1)
<1>2. Deep(F, t, acts) /\ Nested(F, acts) /\ t \in Int /\ f.base = t + 1
  BY <1>1, InvNested DEF DeepNow, NewFrame
<1>3. CoOk(o.co) /\ u \in Int
  <2>1. CoOk(o.co)
    BY <1>1, PushFrameAbove
  <2> QED BY <2>1, CoElim
<1>4. CASE o.res = "ok"
  <2>1. G = Append(F, f) /\ t + 1 <= u
    BY <1>1, <1>4, PushFrameAbove
  <2>2. u = t + 1 + Proto[id].localCount
    BY <1>1, <1>4, PushFrameOver
  <2>3. Len(G) = Len(F) + 1 /\ G[Len(F) + 1] = f /\ \A k \in 1..Len(F) : G[k] = F[k]
    BY <1>1, <2>1, AppendedFrames
  <2>4. Len(acts) = 0
    BY DEF InHost
  <2>5. t + 1 \in Int
    BY <1>2
  <2> HIDE DEF F, G, u, t
  <2>6. AtLeast(f, u)
    BY <2>2, <2>5, NewFrameExact
  <2> HIDE DEF f
  <2>7. Deep(G, u, acts)
    BY <1>2, <1>3, <2>1, <2>3, <2>4, <2>6, DeepHostPush
  <2> QED BY <2>7 DEF DeepNow, G, u
<1>5. CASE o.res # "ok"
  <2>1. Unmoved(co, o.co)
    BY <1>1, <1>5, PushFrameAbove
  <2>2. G = F /\ u = t
    BY <2>1 DEF Unmoved
  <2> HIDE DEF F, G, u, t
  <2>3. Deep(G, u, acts)
    BY <1>2, <2>2
  <2> QED BY <2>3 DEF DeepNow, G, u
<1> QED BY <1>4, <1>5

LEMMA DeepHostPushFrame == CodeOk /\ Inv /\ DeepNow /\ HostPushFrame => DeepNow'
<1> SUFFICES ASSUME CodeOk, Inv, DeepNow, HostPushFrame PROVE DeepNow'
  OBVIOUS
<1>1. PICK id \in EntryProtos, argc \in 0..2 :
      \E argv \in {HeapArgs([k \in 1..argc |-> Nil])} \cup
                  {StackArgs(index) : index \in 0..co.stackTop - argc} :
      \E o \in PushFrameAt(co, id, argc, FALSE, co.stackTop + 1, argv) : co' = o.co /\ acts' = acts
  BY DEF HostPushFrame
<1>2. PICK argv \in {HeapArgs([k \in 1..argc |-> Nil])} \cup
                    {StackArgs(index) : index \in 0..co.stackTop - argc} :
      \E o \in PushFrameAt(co, id, argc, FALSE, co.stackTop + 1, argv) : co' = o.co /\ acts' = acts
  BY <1>1
<1>3. PICK o \in PushFrameAt(co, id, argc, FALSE, co.stackTop + 1, argv) : co' = o.co /\ acts' = acts
  BY <1>2
<1>4. InHost /\ id \in DOMAIN Proto /\ argc \in Nat
  BY ProtoAssumption DEF HostPushFrame
<1>5. ArgsOk(co, argc, argv)
  BY <1>2, HostArgsOk
<1> QED BY <1>3, <1>4, <1>5, DeepHostPushed

LEMMA DeepHostRuns == Inv /\ DeepNow /\ HostRun => DeepNow'
<1> SUFFICES ASSUME Inv, DeepNow, HostRun PROVE DeepNow'
  OBVIOUS
<1>1. InHost /\ co' = co
  BY DEF HostRun
<1>2. PICK stopAt \in -1..Len(co.frames) + 1 :
        \/ /\ stopAt \in 0..Len(co.frames) - 1
           /\ acts' = <<[type |-> "run", stopAt |-> stopAt, top |-> co.stackTop, call |-> FALSE]>>
        \/ acts' = acts
  BY DEF HostRun
<1>3. CASE acts' = acts
  BY <1>1, <1>3 DEF DeepNow
<1>4. CASE /\ stopAt \in 0..Len(co.frames) - 1
           /\ acts' = <<[type |-> "run", stopAt |-> stopAt, top |-> co.stackTop, call |-> FALSE]>>
  <2> DEFINE a == [type |-> "run", stopAt |-> stopAt, top |-> co.stackTop, call |-> FALSE]
             vs == <<a>>
             F == co.frames
             t == co.stackTop
  <2>1. Len(vs) = 1 /\ vs[1].type = "run" /\ ~vs[1].call /\ vs[1].top = t /\ vs[1].stopAt = stopAt
    OBVIOUS
  <2>2. acts' = vs /\ Len(acts) = 0 /\ Deep(F, t, acts) /\ Nested(F, acts)
    BY <1>1, <1>4, InvNested DEF InHost, DeepNow
  <2> HIDE DEF vs, F, t
  <2>3. IsRun(vs, 1) /\ vs[1].stopAt \in 0..Len(F) - 1
    BY <1>4, <2>1 DEF IsRun, F
  <2>4. Deep(F, t, vs)
    BY <2>1, <2>2, <2>3, DeepHostRun
  <2> QED BY <1>1, <2>2, <2>4 DEF DeepNow, F, t
<1> QED BY <1>2, <1>3, <1>4

LEMMA DeepVmStep == CodeOk /\ Inv /\ DeepNow /\ VmStep => DeepNow'
<1> SUFFICES ASSUME CodeOk, Inv, DeepNow, VmStep PROVE DeepNow'
  OBVIOUS
<1>1. ASSUME \/ ExecPcOutside \/ ExecFault \/ ExecNop \/ ExecLoadConst \/ ExecLoadSingleton
             \/ ExecMove \/ ExecLoadLocal \/ ExecStoreLocal \/ ExecLoadGlobal
             \/ ExecOperator \/ ExecCompare \/ ExecCmpChain \/ ExecJump \/ ExecCondJump
             \/ ExecBuild \/ ExecUnpack \/ ExecCallRefused
      PROVE  Goes \/ (InVm /\ Fail)
  <2>1. ExecPcOutside \/ ExecFault \/ ExecCallRefused => InVm /\ Fail
    BY RunsDef DEF ExecPcOutside, ExecFault, Executes, ExecCallRefused
  <2> QED BY <1>1, <2>1, GoesNop, GoesLoadConst, GoesLoadSingleton, GoesMove, GoesLoadLocal,
             GoesStoreLocal, GoesLoadGlobal, GoesOperator, GoesCompare, GoesCmpChain,
             GoesJump, GoesCondJump, GoesBuild, GoesUnpack
<1>2. Goes \/ (InVm /\ Fail) => DeepNow'
  BY DeepGoes, DeepFail
<1>3. ExecStoreGlobal \/ ExecCallScript \/ ExecCallNative \/ ExecReturn => DeepNow'
  BY DeepStoreGlobal, DeepCallScript, DeepCallNative, DeepReturned
<1> QED BY <1>1, <1>2, <1>3 DEF VmStep

LEMMA DeepNext == CodeOk /\ Inv /\ DeepNow /\ [Next]_vars => DeepNow'
<1> SUFFICES ASSUME CodeOk, Inv, DeepNow, [Next]_vars PROVE DeepNow'
  OBVIOUS
<1>1. CASE VmStep
  BY <1>1, DeepVmStep
<1>2. CASE NativeStep
  BY <1>2, DeepNativeReturn, DeepNativeFail, DeepNativeCall DEF NativeStep
<1>3. CASE HostStep
  <2>1. HostClearError => DeepNow'
    BY DEF HostClearError, DeepNow
  <2> QED BY <1>3, <2>1, DeepHostCall, DeepHostReopen, DeepHostPushFrame, DeepHostRuns DEF HostStep
<1>4. CASE UNCHANGED vars
  BY <1>4 DEF vars, DeepNow
<1> QED BY <1>1, <1>2, <1>3, <1>4 DEF Next

----------------------------------------------------------------------------
(* What follows: called code passes every check of the loop.                *)

LEMMA DepthHere ==
  ASSUME CodeOk, Inv, DeepNow, InVm, Act.call
  PROVE  /\ PcOk
         /\ \E n \in Nat :
              /\ co.stackTop = Floor + n /\ OperandsOk(P, Ins) /\ n >= Pops(Ins)
              /\ Ins.op # "RETURN" => n - Pops(Ins) + Pushes(Ins) <= P.stackSize
              /\ Ins.op = "UNPACK" => n + Ins.a <= P.stackSize
<1>1. /\ Len(acts) \in 1..Len(acts) /\ IsRun(acts, Len(acts)) /\ RunsNow(acts)
      /\ acts[Len(acts)].stopAt < Len(co.frames) /\ FrameOk(Top)
  BY RunNow
<1>2. Called(acts, Len(co.frames))
  BY <1>1 DEF Called, IsRun, Act
<1>3. Exactly(Top, co.stackTop)
  BY <1>1, <1>2 DEF DeepNow, Deep, TopDeep, Fits, Top
<1> DEFINE n == Depths(Top.proto)[Top.pc]
<1>4. Top.pc \in 0..Len(Proto[Top.proto].code) - 1 /\ co.stackTop = Floor + n
  BY <1>3 DEF Exactly, Floor
<1>5. PcOk /\ Ins = Proto[Top.proto].code[Top.pc + 1] /\ P = Proto[Top.proto]
  BY <1>4 DEF PcOk, Ins, P
<1> HIDE DEF n
<1>6. /\ n \in Nat /\ OperandsOk(Proto[Top.proto], Ins) /\ n >= Pops(Ins)
      /\ Ins.op # "RETURN" => n - Pops(Ins) + Pushes(Ins) <= Proto[Top.proto].stackSize
      /\ Ins.op = "UNPACK" => n + Ins.a <= Proto[Top.proto].stackSize
  BY <1>1, <1>4, <1>5, AtFacts DEF n
<1>7. /\ OperandsOk(P, Ins)
      /\ Ins.op # "RETURN" => n - Pops(Ins) + Pushes(Ins) <= P.stackSize
      /\ Ins.op = "UNPACK" => n + Ins.a <= P.stackSize
  BY <1>5, <1>6
<1> QED BY <1>4, <1>5, <1>6, <1>7

LEMMA NoFault ==
  ASSUME CodeOk, Inv, DeepNow, InVm, Act.call
  PROVE  PcOk /\ ~Fault
<1>1. PcOk
  BY DepthHere
<1>2. PICK n \in Nat :
        /\ co.stackTop = Floor + n /\ OperandsOk(P, Ins) /\ n >= Pops(Ins)
        /\ Ins.op # "RETURN" => n - Pops(Ins) + Pushes(Ins) <= P.stackSize
        /\ Ins.op = "UNPACK" => n + Ins.a <= P.stackSize
  BY DepthHere
<1>3. /\ Ins \in Instr /\ Ins.bx \in Int /\ Floor \in Nat /\ Floor >= 1
      /\ P.localCount \in Int /\ P.stackSize \in Int /\ WindowEnd = Floor + P.stackSize
  <2>1. /\ Ins \in Instr /\ Ins.bx \in Int /\ P.localCount \in Int /\ P.stackSize \in Int
        /\ 0 <= P.localCount /\ Top.base \in Nat /\ Top.base >= 1
        /\ Floor = Top.base + P.localCount /\ Floor \in Nat
    BY <1>1, InsFacts
  <2>2. Floor >= 1
    BY <2>1
  <2> QED BY <2>1, <2>2 DEF WindowEnd
<1> DEFINE a == Ins.a
<1>4. a \in Nat
  <2>1. Ins.a \in 0..255
    BY <1>3 DEF Instr
  <2> QED BY <2>1
<1>5. \A k \in Nat : n >= k => Holds(k)
  BY <1>2, <1>3 DEF Holds
<1>6. n + 1 <= P.stackSize => CanPush
  BY <1>2, <1>3 DEF CanPush
<1>7. Ins.op # "UNIMPLEMENTED"
  BY <1>2 DEF OperandsOk
<1>8. Ins.op \in Singletons \cup {"LOAD_CONST", "LOAD_LOCAL", "LOAD_GLOBAL"} => CanPush
  <2> SUFFICES ASSUME Ins.op \in Singletons \cup {"LOAD_CONST", "LOAD_LOCAL", "LOAD_GLOBAL"}
               PROVE  n + 1 <= P.stackSize
    BY <1>6
  <2>1. Pops(Ins) = 0 /\ Pushes(Ins) = 1 /\ Ins.op # "RETURN"
    BY Effects DEF Singletons
  <2> QED BY <1>2, <2>1
<1>9. Ins.op \in {"LOAD_CONST", "LOAD_GLOBAL", "STORE_GLOBAL"} => ConstOk
  BY <1>2 DEF OperandsOk, ConstOk
<1>10. Ins.op \in {"LOAD_GLOBAL", "STORE_GLOBAL"} => Const.tag = "str"
  BY <1>2 DEF OperandsOk, Const
<1>11. Ins.op \in {"LOAD_LOCAL", "STORE_LOCAL", "MOVE"} => ~(a >= P.localCount)
  <2> SUFFICES ASSUME Ins.op \in {"LOAD_LOCAL", "STORE_LOCAL", "MOVE"} PROVE a < P.localCount
    BY <1>3, <1>4
  <2> QED BY <1>2 DEF OperandsOk
<1>12. Ins.op = "MOVE" => Ins.bx \in 0..P.localCount - 1
  BY <1>2 DEF OperandsOk
<1>13. Ins.op \in CondJumps \cup {"STORE_LOCAL", "STORE_GLOBAL", "UNARY", "UNPACK", "RETURN"}
         => Holds(1)
  <2> SUFFICES ASSUME Ins.op \in CondJumps \cup {"STORE_LOCAL", "STORE_GLOBAL", "UNARY", "UNPACK", "RETURN"}
               PROVE  Holds(1)
    OBVIOUS
  <2>1. Pops(Ins) = 1
    BY Effects
  <2> QED BY <1>2, <1>5, <2>1
<1>14. Ins.op \in {"BINARY", "COMPARE", "CMP_CHAIN"} => Holds(2)
  <2> SUFFICES ASSUME Ins.op \in {"BINARY", "COMPARE", "CMP_CHAIN"} PROVE Holds(2)
    OBVIOUS
  <2>1. Pops(Ins) = 2
    BY Effects
  <2> QED BY <1>2, <1>5, <2>1
<1>15. Ins.op \in Builds => Holds(BuildCount(Ins)) /\ (BuildCount(Ins) = 0 => CanPush)
  <2> SUFFICES ASSUME Ins.op \in Builds
               PROVE  Holds(BuildCount(Ins)) /\ (BuildCount(Ins) = 0 => CanPush)
    OBVIOUS
  <2>1. Pops(Ins) = BuildCount(Ins) /\ Pushes(Ins) = 1 /\ Ins.op # "RETURN"
    BY Effects DEF Builds
  <2>2. BuildCount(Ins) \in Nat
    BY <1>4 DEF BuildCount
  <2>3. BuildCount(Ins) = 0 => n + 1 <= P.stackSize
    BY <1>2, <2>1
  <2> QED BY <1>2, <1>5, <1>6, <2>1, <2>2, <2>3
<1>16. Ins.op = "UNPACK" =>
         /\ ~(a < 1) /\ (Ins.bx = NoStar \/ Ins.bx \in 0..a - 1)
         /\ ~(co.stackTop - 1 + a >= WindowEnd)
  <2> SUFFICES ASSUME Ins.op = "UNPACK"
               PROVE  /\ ~(a < 1) /\ (Ins.bx = NoStar \/ Ins.bx \in 0..a - 1)
                      /\ ~(co.stackTop - 1 + a >= WindowEnd)
    OBVIOUS
  <2>1. a >= 1 /\ (Ins.bx = NoStar \/ Ins.bx \in 0..a - 1) /\ n + a <= P.stackSize
    BY <1>2 DEF OperandsOk
  <2> DEFINE x == P.stackSize
             fl == Floor
             end == WindowEnd
             top == co.stackTop
  <2>2. x \in Int /\ fl \in Nat /\ end = fl + x /\ top = fl + n /\ n + a <= x
    BY <1>2, <1>3, <2>1
  <2> HIDE DEF a, x, fl, end, top
  <2>3. ~(top - 1 + a >= end) /\ ~(a < 1)
    BY <1>4, <2>1, <2>2
  <2> QED BY <2>1, <2>3 DEF end, top
<1>17. Ins.op = "CALL" => ~(co.stackTop - a < 1)
  <2> SUFFICES ASSUME Ins.op = "CALL" PROVE ~(co.stackTop - a < 1)
    OBVIOUS
  <2>1. n >= a + 1
    BY <1>2, Effects
  <2> HIDE DEF a
  <2> QED BY <1>2, <1>3, <1>4, <2>1
<1>18. Ins.op = "CMP_CHAIN" => Ins.a \in Comparisons
  BY <1>2 DEF OperandsOk
<1>19. ~Fault
  BY <1>7, <1>8, <1>9, <1>10, <1>11, <1>12, <1>13, <1>14, <1>15, <1>16, <1>17, <1>18, Zenon DEF Fault
<1> QED BY <1>1, <1>19

LEMMA DeepAlways ==
  ASSUME CodeOk
  PROVE  Spec => []DeepNow
<1>1. Init => DeepNow
  BY DeepInit
<1>2. Inv /\ DeepNow /\ [Next]_vars => DeepNow'
  BY DeepNext
<1> QED BY <1>1, <1>2, Invariance, PTL DEF Spec

\* Well-formed bytecode that msCallProto called passes every structural check of
\* the dispatch loop, at any depth of script calls, native functions and nested
\* calls, within any limits: no underflow, no overflow of its window, no bad
\* index and no jump out of the code (ms_vm.c:511-902).
THEOREM WellFormedNeverFaults ==
  ASSUME \A id \in DOMAIN Proto : WellFormed(Proto[id])
  PROVE  Spec => []NeverFaults
<1>1. CodeOk
  BY DEF CodeOk
<1>2. Inv /\ DeepNow => NeverFaults
  BY <1>1, NoFault DEF NeverFaults
<1>3. Spec => []DeepNow
  BY <1>1, DeepAlways
<1> QED BY <1>2, <1>3, Invariance, PTL

----------------------------------------------------------------------------
(* What follows: nobody writes to the slots of their callers.               *)

\* The slots that belong to the callers of whoever is in control are kept.
Kept == SameBelow(co, co', Reserved)

LEMMA ReservedNow ==
  ASSUME Inv
  PROVE  /\ co.stackCap \in Nat /\ co.stackTop \in Nat /\ co.stackTop <= co.stackCap
         /\ Reserved \in Nat /\ Reserved <= co.stackCap
         /\ InVm => Reserved = Top.base - 1 /\ Reserved < LocalsEnd(Top) /\ LocalsEnd(Top) \in Int
         /\ InNative => Reserved = Act.base - 1 /\ Reserved < co.stackTop
         /\ InHost => Reserved = co.stackTop
<1>1. co.stackCap \in Nat /\ co.stackTop \in Nat /\ co.stackTop <= co.stackCap
  BY CoElim DEF Inv
<1>2. CASE InVm
  <2>1. Top \in Frame /\ Window(co.stackCap, Top)
    BY <1>2, RunFacts
  <2>2. /\ LocalsEnd(Top) \in Int /\ Top.base \in Int /\ Top.base >= 1
        /\ Top.base <= LocalsEnd(Top) /\ LocalsEnd(Top) <= co.stackCap
    BY <1>1, <2>1, LocalsEndBound
  <2>3. Reserved = Top.base - 1 /\ ~InNative /\ ~InHost
    BY <1>2 DEF Reserved, InVm, InNative, InHost
  <2> QED BY <1>1, <2>2, <2>3
<1>3. CASE InNative
  <2>1. /\ Act.base \in Int /\ Act.argc \in Nat /\ Act.base >= 1
        /\ Act.base + Act.argc <= co.stackTop
    BY <1>3, NativeFacts
  <2>2. Reserved = Act.base - 1 /\ ~InVm /\ ~InHost
    BY <1>3 DEF Reserved, InVm, InNative, InHost
  <2> QED BY <1>1, <1>3, <2>1, <2>2
<1>4. CASE ~InVm /\ ~InNative
  <2>1. Reserved = co.stackTop
    BY <1>4 DEF Reserved
  <2> QED BY <1>1, <1>4, <2>1
<1> QED BY <1>2, <1>3, <1>4

LEMMA SameIfEqual ==
  ASSUME NEW c, CoOk(c), NEW d, d.stackCap = c.stackCap, d.stack = c.stack, NEW n
  PROVE  SameBelow(c, d, n)
<1>1. c.stackCap \in Nat
  BY CoElim
<1> QED BY <1>1 DEF SameBelow

\* A slot is written that is not below n.
LEMMA SameIfAbove ==
  ASSUME NEW c, CoOk(c), NEW d, d.stackCap = c.stackCap, NEW i \in Int, NEW v,
         d.stack = [c.stack EXCEPT ![i] = v], NEW n \in Int, n <= i
  PROVE  SameBelow(c, d, n)
<1>1. c.stackCap \in Nat /\ c.stack \in [0..c.stackCap - 1 -> Value \cup {Junk}]
  BY CoElim
<1> DEFINE s == c.stack
           m == c.stackCap
           t == d.stack
<1>2. s \in [0..m - 1 -> Value \cup {Junk}] /\ m \in Nat /\ t = [s EXCEPT ![i] = v]
      /\ d.stackCap = m
  BY <1>1
<1> HIDE DEF s, m, t
<1>3. \A j \in 0..m - 1 : j < n => t[j] = s[j]
  BY <1>2
<1>4. m <= d.stackCap
  BY <1>2
<1> QED BY <1>3, <1>4 DEF SameBelow, s, m, t

LEMMA SameFewer ==
  ASSUME NEW c, CoOk(c), NEW d, NEW m \in Int, SameBelow(c, d, m), NEW n \in Int, n <= m
  PROVE  SameBelow(c, d, n)
<1>1. c.stackCap \in Nat
  BY CoElim
<1> DEFINE k == c.stackCap
<1>2. /\ k \in Nat /\ k <= d.stackCap
      /\ \A i \in 0..k - 1 : i < m => d.stack[i] = c.stack[i]
  BY <1>1 DEF SameBelow
<1> HIDE DEF k
<1>3. \A i \in 0..k - 1 : i < n => d.stack[i] = c.stack[i]
  BY <1>2
<1> QED BY <1>2, <1>3 DEF SameBelow, k

LEMMA SlotFields ==
  ASSUME NEW c, CoOk(c), NEW i, NEW v
  PROVE  /\ [c EXCEPT !.stack[i] = v].stack = [c.stack EXCEPT ![i] = v]
         /\ [c EXCEPT !.stack[i] = v].stackCap = c.stackCap
<1> DEFINE fs == c.frames
           fc == c.framesCap
           t == c.stackTop
           m == c.stackCap
           s == [c.stack EXCEPT ![i] = v]
           d == [c EXCEPT !.stack[i] = v]
<1>1. d = Co(fs, fc, t, m, s)
  BY SetSlot
<1> HIDE DEF fs, fc, t, m, s, d
<1>2. d.stack = s /\ d.stackCap = m
  BY <1>1, CoFields
<1> QED BY <1>2 DEF d, s, m

\* An error in a state that kept the slots.
LEMMA KeptUnwind ==
  ASSUME NEW k, NEW c, CoOk(c), NEW r, Unwind(k, c, r), NEW n, SameBelow(co, c, n)
  PROVE  SameBelow(co, co', n)
<1> DEFINE l == acts[k].stopAt
           t == acts[k].top
<1>1. co' = Cut(c, l, t)
  BY DEF Unwind
<1> HIDE DEF l, t
<1>2. co'.stackCap = c.stackCap /\ co'.stack = c.stack
  BY <1>1, CutFields
<1> QED BY <1>2 DEF SameBelow

LEMMA KeptFail ==
  ASSUME Inv, Fail
  PROVE  Kept
<1>1. CoOk(co)
  BY DEF Inv
<1>2. PICK r : Unwind(Len(acts), co, r)
  BY DEF Fail
<1>3. SameBelow(co, co, Reserved)
  BY <1>1, SameIfEqual
<1> QED BY <1>1, <1>2, <1>3, KeptUnwind DEF Kept

\* The stack is not written.
LEMMA KeptSame ==
  ASSUME Inv, co'.stackCap = co.stackCap, co'.stack = co.stack
  PROVE  Kept
<1>1. CoOk(co)
  BY DEF Inv
<1> DEFINE d == co'
<1>2. d.stackCap = co.stackCap /\ d.stack = co.stack
  OBVIOUS
<1> HIDE DEF d
<1>3. SameBelow(co, d, Reserved)
  BY <1>1, <1>2, SameIfEqual
<1> QED BY <1>3 DEF Kept, d

\* A value goes where the operands end, which is above the locals.
LEMMA KeptPushed ==
  ASSUME Inv, InVm, NEW c, CoOk(c), c.stack = co.stack, c.stackCap = co.stackCap,
         LocalsEnd(Top) <= c.stackTop, NEW v, Continue(PushedOn(c, v))
  PROVE  Kept
<1> DEFINE d == PushedOn(c, v)
           i == c.stackTop
           n == Reserved
<1>1. CoOk(co) /\ n \in Int /\ n < LocalsEnd(Top) /\ LocalsEnd(Top) \in Int
  BY ReservedNow DEF Inv
<1>2. i \in Int /\ n <= i
  <2>1. i \in Nat
    BY CoElim
  <2> HIDE DEF n, i
  <2>2. LocalsEnd(Top) <= i
    BY DEF i
  <2> QED BY <1>1, <2>1, <2>2
<1>3. d.stackCap = co.stackCap /\ d.stack = [co.stack EXCEPT ![i] = v]
  BY PushedOnFields
<1>4. co' = d
  BY DEF Continue
<1> HIDE DEF d, i, n
<1>5. SameBelow(co, d, n)
  BY <1>1, <1>2, <1>3, SameIfAbove
<1> QED BY <1>4, <1>5 DEF Kept, n

LEMMA KeptProduced ==
  ASSUME Inv, InVm, NEW c, CoOk(c), c.stack = co.stack, c.stackCap = co.stackCap,
         LocalsEnd(Top) <= c.stackTop, NEW v, Produce(c, v)
  PROVE  Kept
<1>1. CASE Fail
  BY <1>1, KeptFail
<1>2. CASE Continue(PushedOn(c, v))
  BY <1>2, KeptPushed
<1> QED BY <1>1, <1>2 DEF Produce

\* The coroutine after the fetch and after n operands were taken off.
LEMMA FetchedSame ==
  ASSUME Inv, InVm, PcOk
  PROVE  /\ CoOk(Fetched) /\ Fetched.stack = co.stack /\ Fetched.stackCap = co.stackCap
         /\ Fetched.stackTop = co.stackTop /\ Floor = LocalsEnd(Top) /\ Floor \in Nat
         /\ Fetched.frames # <<>> /\ co.stackTop \in Nat
  BY FetchStep, InsFacts DEF Floor

LEMMA PoppedSame ==
  ASSUME Inv, InVm, PcOk, NEW n \in Nat, Holds(n)
  PROVE  /\ CoOk(Popped(Fetched, n)) /\ Popped(Fetched, n).stack = co.stack
         /\ Popped(Fetched, n).stackCap = co.stackCap
         /\ Popped(Fetched, n).stackTop = co.stackTop - n
         /\ LocalsEnd(Top) <= co.stackTop - n
         /\ Popped(Fetched, n).frames # <<>>
<1>1. /\ CoOk(Fetched) /\ Fetched.stack = co.stack /\ Fetched.stackTop = co.stackTop
      /\ Floor = LocalsEnd(Top) /\ Floor \in Nat /\ co.stackTop \in Nat
  BY FetchedSame
<1>2. co.stackTop >= Floor + n
  BY DEF Holds
<1>3. n <= co.stackTop /\ LocalsEnd(Top) <= co.stackTop - n
  <2> DEFINE fl == Floor
             t == co.stackTop
  <2>1. fl \in Nat /\ t \in Nat /\ t >= fl + n
    BY <1>1, <1>2
  <2> HIDE DEF fl, t
  <2>2. n <= t /\ fl <= t - n
    BY <2>1
  <2> QED BY <1>1, <2>2 DEF fl, t
<1>4. /\ CoOk(Popped(Fetched, n)) /\ Popped(Fetched, n).stackTop = co.stackTop - n
      /\ Popped(Fetched, n).stackCap = co.stackCap /\ Popped(Fetched, n).frames # <<>>
  BY <1>3, FetchPop
<1>5. Popped(Fetched, n).stack = co.stack
  BY <1>1, <1>3, PopStep
<1> QED BY <1>3, <1>4, <1>5

LEMMA JumpedSame ==
  ASSUME NEW c, CoOk(c), c.frames # <<>>, NEW off \in Int
  PROVE  /\ CoOk(Jumped(c, off)) /\ Jumped(c, off).stack = c.stack
         /\ Jumped(c, off).stackCap = c.stackCap /\ Jumped(c, off).stackTop = c.stackTop
<1> DEFINE top == c.frames[Len(c.frames)]
           pc == IF top.pc + off < 0 THEN -1 ELSE top.pc + off
<1>1. c.frames \in Seq(Frame)
  BY CoElim
<1>2. top.pc \in Int
  <2>1. Len(c.frames) \in 1..Len(c.frames)
    BY <1>1
  <2>2. c.frames[Len(c.frames)] \in Frame
    BY <1>1, <2>1
  <2> QED BY <2>2 DEF Frame
<1>3. pc \in Int
  BY <1>2
<1>4. Jumped(c, off) = [c EXCEPT !.frames[Len(c.frames)].pc = pc]
  BY DEF Jumped
<1> HIDE DEF pc
<1>5. Jumped(c, off).stack = c.stack
  BY <1>3, <1>4, PcStep
<1>6. SameShape(c, Jumped(c, off)) /\ Jumped(c, off).stackTop = c.stackTop
  BY JumpStep
<1> QED BY <1>5, <1>6 DEF SameShape

\* Instructions that push a value.
LEMMA KeptLoad ==
  ASSUME Inv, InVm, PcOk, CanPush, NEW v, Continue(PushedOn(Fetched, v))
  PROVE  Kept
<1>1. LocalsEnd(Top) <= Fetched.stackTop
  <2>1. Floor <= co.stackTop
    <3>1. co.stackTop >= Floor /\ Floor \in Nat /\ co.stackTop \in Nat
      BY FetchedSame DEF CanPush
    <3> QED BY <3>1
  <2> QED BY <2>1, FetchedSame
<1> QED BY <1>1, FetchedSame, KeptPushed

\* Instructions that replace n operands by a value.
LEMMA KeptOperate ==
  ASSUME Inv, InVm, PcOk, NEW n \in Nat, Holds(n), NEW v, Produce(Popped(Fetched, n), v)
  PROVE  Kept
<1> DEFINE c == Popped(Fetched, n)
<1>1. /\ CoOk(c) /\ c.stack = co.stack /\ c.stackCap = co.stackCap
      /\ LocalsEnd(Top) <= c.stackTop
  BY PoppedSame
<1>2. Produce(c, v)
  OBVIOUS
<1> HIDE DEF c
<1> QED BY <1>1, <1>2, KeptProduced

LEMMA KeptLoads ==
  ASSUME Inv, ExecLoadConst \/ ExecLoadSingleton \/ ExecLoadLocal \/ ExecLoadGlobal
  PROVE  Kept
<1>1. Fail \/ \E v : /\ Runs(Singletons \cup {"LOAD_CONST", "LOAD_LOCAL", "LOAD_GLOBAL"})
                     /\ Continue(PushedOn(Fetched, v))
  BY DEF ExecLoadConst, ExecLoadSingleton, ExecLoadLocal, ExecLoadGlobal, Runs, Executes
<1>2. ASSUME NEW v, Runs(Singletons \cup {"LOAD_CONST", "LOAD_LOCAL", "LOAD_GLOBAL"}),
             Continue(PushedOn(Fetched, v))
      PROVE  Kept
  <2>1. InVm /\ PcOk /\ ~Fault
        /\ Ins.op \in Singletons \cup {"LOAD_CONST", "LOAD_LOCAL", "LOAD_GLOBAL"}
    BY <1>2, RunsDef
  <2>2. CanPush
    BY <2>1 DEF Fault
  <2> QED BY <1>2, <2>1, <2>2, KeptLoad
<1> QED BY <1>1, <1>2, KeptFail

\* Locals are written at the frame's base or above.
LEMMA KeptLocal ==
  ASSUME Inv, InVm, PcOk, ~(Ins.a >= P.localCount), NEW c, CoOk(c), c.stack = co.stack,
         c.stackCap = co.stackCap, NEW v, Continue([c EXCEPT !.stack[Top.base + Ins.a] = v])
  PROVE  Kept
<1> DEFINE i == Top.base + Ins.a
           n == Reserved
           d == [c EXCEPT !.stack[i] = v]
<1>1. CoOk(co) /\ n \in Int /\ i \in Int /\ n <= i
  <2>1. /\ n = Top.base - 1 /\ Top.base \in Nat /\ CoOk(co) /\ Ins.a \in 0..255
    BY ReservedNow, InsFacts DEF Inv
  <2> HIDE DEF n
  <2> QED BY <2>1
<1>2. d.stackCap = co.stackCap /\ d.stack = [co.stack EXCEPT ![i] = v]
  <2> HIDE DEF i
  <2> QED BY SlotFields
<1>3. co' = d
  BY DEF Continue
<1> HIDE DEF d, i, n
<1>4. SameBelow(co, d, n)
  BY <1>1, <1>2, SameIfAbove
<1> QED BY <1>3, <1>4 DEF Kept, n

LEMMA KeptMove == Inv /\ ExecMove => Kept
<1> SUFFICES ASSUME Inv, ExecMove PROVE Kept
  OBVIOUS
<1>1. InVm /\ PcOk /\ Ins.op = "MOVE" /\ ~Fault
  BY RunsDef DEF ExecMove
<1>2. ~(Ins.a >= P.localCount)
  BY <1>1 DEF Fault
<1> DEFINE v == co.stack[Top.base + Ins.bx]
<1>3. Continue([Fetched EXCEPT !.stack[Top.base + Ins.a] = v])
  BY DEF ExecMove
<1> HIDE DEF v
<1> QED BY <1>1, <1>2, <1>3, FetchedSame, KeptLocal

LEMMA KeptStoreLocal == Inv /\ ExecStoreLocal => Kept
<1> SUFFICES ASSUME Inv, ExecStoreLocal PROVE Kept
  OBVIOUS
<1>1. InVm /\ PcOk /\ Ins.op = "STORE_LOCAL" /\ ~Fault
  BY RunsDef DEF ExecStoreLocal
<1>2. ~(Ins.a >= P.localCount) /\ Holds(1) /\ 1 \in Nat
  BY <1>1 DEF Fault
<1> DEFINE v == Peek(0)
           c == Popped(Fetched, 1)
<1>3. Continue([c EXCEPT !.stack[Top.base + Ins.a] = v])
  BY DEF ExecStoreLocal
<1>4. CoOk(c) /\ c.stack = co.stack /\ c.stackCap = co.stackCap
  BY <1>1, <1>2, PoppedSame
<1> HIDE DEF v, c
<1> QED BY <1>1, <1>2, <1>3, <1>4, KeptLocal

LEMMA KeptStoreGlobal == Inv /\ ExecStoreGlobal => Kept
<1> SUFFICES ASSUME Inv, ExecStoreGlobal PROVE Kept
  OBVIOUS
<1>1. InVm /\ PcOk /\ Ins.op = "STORE_GLOBAL" /\ ~Fault
  BY RunsDef DEF ExecStoreGlobal
<1>2. CASE Unwind(Len(acts), co, "oom")
  <2>1. SameBelow(co, co, Reserved) /\ CoOk(co)
    BY SameIfEqual DEF Inv
  <2> QED BY <1>2, <2>1, KeptUnwind DEF Kept
<1>3. CASE co' = Popped(Fetched, 1)
  <2>1. Holds(1) /\ 1 \in Nat
    BY <1>1 DEF Fault
  <2> DEFINE c == Popped(Fetched, 1)
  <2>2. c.stack = co.stack /\ c.stackCap = co.stackCap
    BY <1>1, <2>1, PoppedSame
  <2> HIDE DEF c
  <2>3. co' = c
    BY <1>3 DEF c
  <2> QED BY <2>2, <2>3, KeptSame
<1> QED BY <1>2, <1>3 DEF ExecStoreGlobal

LEMMA KeptOperator == Inv /\ ExecOperator => Kept
<1> SUFFICES ASSUME Inv, ExecOperator PROVE Kept
  OBVIOUS
<1>1. InVm /\ PcOk /\ Ins.op \in {"BINARY", "UNARY"} /\ ~Fault
  BY RunsDef DEF ExecOperator
<1> DEFINE n == Pops(Ins)
<1>2. n \in Nat /\ Holds(n)
  <2>1. CASE Ins.op = "BINARY"
    <3>1. n = 2 /\ Holds(2)
      BY <1>1, <2>1, Effects DEF Fault
    <3> HIDE DEF n
    <3> QED BY <3>1
  <2>2. CASE Ins.op = "UNARY"
    <3>1. n = 1 /\ Holds(1)
      BY <1>1, <2>2, Effects DEF Fault
    <3> HIDE DEF n
    <3> QED BY <3>1
  <2> QED BY <1>1, <2>1, <2>2
<1>3. PICK v \in Results : Produce(Popped(Fetched, n), v)
  BY DEF ExecOperator
<1> HIDE DEF n
<1> QED BY <1>1, <1>2, <1>3, KeptOperate

LEMMA KeptCompare == Inv /\ ExecCompare => Kept
<1> SUFFICES ASSUME Inv, ExecCompare PROVE Kept
  OBVIOUS
<1>1. InVm /\ PcOk /\ Ins.op = "COMPARE" /\ ~Fault
  BY RunsDef DEF ExecCompare
<1>2. Holds(2) /\ 2 \in Nat
  BY <1>1 DEF Fault
<1>3. \E v : Produce(Popped(Fetched, 2), v)
  BY DEF ExecCompare
<1> QED BY <1>1, <1>2, <1>3, KeptOperate

LEMMA KeptCmpChain == Inv /\ ExecCmpChain => Kept
<1> SUFFICES ASSUME Inv, ExecCmpChain PROVE Kept
  OBVIOUS
<1>1. InVm /\ PcOk /\ Ins.op = "CMP_CHAIN" /\ ~Fault /\ Ins.bx \in Int
  BY RunsDef, InsFacts DEF ExecCmpChain
<1>2. Holds(2) /\ 2 \in Nat
  BY <1>1 DEF Fault
<1> DEFINE b == Popped(Fetched, 2)
           off == Ins.bx
           c == Jumped(b, off)
           w == Bool(FALSE)
<1>3. (\E v : Produce(b, v)) \/ Produce(c, w)
  BY DEF ExecCmpChain
<1>4. CASE \E v : Produce(b, v)
  BY <1>1, <1>2, <1>4, KeptOperate
<1>5. CASE Produce(c, w)
  <2>1. /\ CoOk(b) /\ b.stack = co.stack /\ b.stackCap = co.stackCap /\ b.frames # <<>>
        /\ LocalsEnd(Top) <= b.stackTop
    BY <1>1, <1>2, PoppedSame
  <2>2. off \in Int
    BY <1>1
  <2> HIDE DEF b, off
  <2>3. CoOk(c) /\ c.stack = b.stack /\ c.stackCap = b.stackCap /\ c.stackTop = b.stackTop
    BY <2>1, <2>2, JumpedSame
  <2> HIDE DEF c, w
  <2> QED BY <1>1, <1>5, <2>1, <2>3, KeptProduced
<1> QED BY <1>3, <1>4, <1>5

LEMMA KeptJumps ==
  ASSUME Inv, ExecNop \/ ExecJump \/ ExecCondJump
  PROVE  Kept
<1> DEFINE b == Popped(Fetched, 1)
           off == Ins.bx
<1>1. InVm /\ PcOk /\ ~Fault /\ off \in Int
      /\ (Ins.op = "NOP" \/ Ins.op = "JUMP" \/ Ins.op \in CondJumps)
  <2>1. InVm /\ PcOk /\ ~Fault /\ (Ins.op = "NOP" \/ Ins.op = "JUMP" \/ Ins.op \in CondJumps)
    BY RunsDef DEF ExecNop, ExecJump, ExecCondJump
  <2> QED BY <2>1, InsFacts
<1>2. \/ co' = Fetched \/ co' = Jumped(Fetched, off)
      \/ Ins.op \in CondJumps /\ (co' = b \/ co' = Jumped(b, off))
  <2>1. ExecCondJump => Ins.op \in CondJumps
    BY RunsDef DEF ExecCondJump
  <2> QED BY <2>1 DEF ExecNop, ExecJump, ExecCondJump, Continue
<1>3. /\ CoOk(Fetched) /\ Fetched.stack = co.stack /\ Fetched.stackCap = co.stackCap
      /\ Fetched.frames # <<>>
  BY <1>1, FetchedSame
<1>4. Ins.op \in CondJumps => /\ CoOk(b) /\ b.stack = co.stack /\ b.stackCap = co.stackCap
                              /\ b.frames # <<>>
  <2> SUFFICES ASSUME Ins.op \in CondJumps
               PROVE  /\ CoOk(b) /\ b.stack = co.stack /\ b.stackCap = co.stackCap /\ b.frames # <<>>
    OBVIOUS
  <2>1. Holds(1) /\ 1 \in Nat
    BY <1>1 DEF Fault
  <2> QED BY <1>1, <2>1, PoppedSame
<1> HIDE DEF b, off
<1>5. co'.stack = co.stack /\ co'.stackCap = co.stackCap
  <2>1. /\ Jumped(Fetched, off).stack = Fetched.stack
        /\ Jumped(Fetched, off).stackCap = Fetched.stackCap
    BY <1>1, <1>3, JumpedSame
  <2>2. Ins.op \in CondJumps => Jumped(b, off).stack = b.stack /\ Jumped(b, off).stackCap = b.stackCap
    BY <1>1, <1>4, JumpedSame
  <2> QED BY <1>2, <1>3, <1>4, <2>1, <2>2
<1> QED BY <1>5, KeptSame

LEMMA KeptBuild == Inv /\ ExecBuild => Kept
<1> SUFFICES ASSUME Inv, ExecBuild PROVE Kept
  OBVIOUS
<1>1. InVm /\ PcOk /\ Ins.op \in Builds /\ ~Fault
  BY RunsDef DEF ExecBuild
<1> DEFINE n == BuildCount(Ins)
<1>2. n \in Nat /\ Holds(n)
  <2>1. Ins.a \in 0..255
    BY <1>1, InsFacts
  <2>2. n \in Nat
    BY <2>1 DEF BuildCount
  <2> QED BY <1>1, <2>2 DEF Fault
<1>3. \E v : Produce(Popped(Fetched, n), v)
  BY DEF ExecBuild
<1> HIDE DEF n
<1> QED BY <1>1, <1>2, <1>3, KeptOperate

LEMMA KeptUnpack == Inv /\ ExecUnpack => Kept
<1> SUFFICES ASSUME Inv, ExecUnpack PROVE Kept
  OBVIOUS
<1>1. InVm /\ PcOk /\ Ins.op = "UNPACK" /\ ~Fault
  <2>1. Runs({"UNPACK"})
    BY DEF ExecUnpack
  <2> QED BY <2>1, RunsDef
<1>2. Fail \/ \E target : Continue(Unpacked(Fetched, target, Ins.a))
  BY DEF ExecUnpack
<1>3. ASSUME NEW target, Continue(Unpacked(Fetched, target, Ins.a))
      PROVE  Kept
  <2> DEFINE c == Fetched
             a == Ins.a
             fs == c.frames
             fc == c.framesCap
             t == c.stackTop - 1 + a
             m == c.stackCap
             at == c.stackTop - 1
             s == [i \in 0..m - 1 |->
                     IF i \in at..at + a - 1 THEN target[i - at]
                     ELSE IF i = at + a THEN target[a - 1] ELSE c.stack[i]]
             d == Unpacked(c, target, a)
             n == Reserved
  <2>1. /\ CoOk(c) /\ c.stack = co.stack /\ c.stackCap = co.stackCap
        /\ c.stackTop = co.stackTop /\ co.stackTop \in Nat /\ co.stackCap \in Nat
        /\ Floor = LocalsEnd(Top) /\ Floor \in Nat
    BY <1>1, FetchedSame, ReservedNow
  <2>2. d = Co(fs, fc, t, m, s)
    BY <2>1, UnpackedForm
  <2>3. d.stack = s /\ d.stackCap = m
    <3> HIDE DEF fs, fc, t, m, s, d
    <3> QED BY <2>2, CoFields
  <2>4. n \in Int /\ n <= at /\ at \in Int /\ a \in Nat /\ m = co.stackCap /\ m \in Nat
    <3>1. Holds(1)
      BY <1>1 DEF Fault
    <3>2. co.stackTop >= Floor + 1
      BY <3>1 DEF Holds
    <3>3. n \in Nat /\ n < Floor
      BY <1>1, <2>1, ReservedNow
    <3>4. Ins.a \in 0..255
      BY <1>1, InsFacts
    <3> HIDE DEF n
    <3> QED BY <2>1, <3>2, <3>3, <3>4
  <2>5. \A i \in 0..m - 1 : i < n => s[i] = co.stack[i]
    <3> HIDE DEF n, at, a, m
    <3>1. ASSUME NEW i \in 0..m - 1, i < n PROVE i \notin at..at + a - 1 /\ i # at + a
      BY <2>4, <3>1
    <3>2. ASSUME NEW i \in 0..m - 1, i < n PROVE s[i] = c.stack[i]
      BY <3>1, <3>2
    <3> HIDE DEF s, c
    <3> QED BY <2>1, <3>2
  <2>6. co' = d
    BY <1>3 DEF Continue
  <2> HIDE DEF c, a, m, s, d, n, at, t
  <2>7. co'.stackCap = m /\ co'.stack = s
    BY <2>3, <2>6
  <2>8. co.stackCap = m /\ co.stackCap <= co'.stackCap
    BY <2>4, <2>7
  <2> QED BY <2>5, <2>7, <2>8 DEF Kept, SameBelow, n
<1> QED BY <1>2, <1>3, KeptFail

\* A call leaves everything below the arguments, which are above the locals of
\* the caller: its own caller's slots are below those.
LEMMA BaseAbove ==
  ASSUME CodeOk, Inv, DeepNow, InVm, PcOk, Ins.op = "CALL", ~Fault
  PROVE  Base \in Int /\ Reserved <= Base /\ Reserved \in Int
<1> DEFINE F == Fetched.frames
           t == Base
           n == Len(F)
<1>1. Deep(F, t, acts) /\ Nested(F, acts) /\ n = Len(co.frames)
  BY DeepAtCall
<1>2. t \in Int
  BY CallFacts
<1>3. /\ RunsNow(acts) /\ Len(co.frames) \in 1..Len(co.frames) /\ Len(co.frames) \in Nat
      /\ Top.base \in Int
  BY RunNow DEF FrameOk
<1>4. F[n].base = Top.base
  <2>1. /\ Fetched.frames[Len(co.frames)].base = Top.base
    BY FetchMoved, MovedFrames
  <2> QED BY <1>1, <2>1
<1>5. Reserved = Top.base - 1
  BY ReservedNow
<1>8. n \in 1..n
  BY <1>1, <1>3
<1> HIDE DEF F, t, n
<1>6. AtLeast(F[n], t) /\ FrameOk(F[n])
  BY <1>1, <1>2, <1>3, <1>8, AllBelow DEF Nested, n
<1> DEFINE f == F[n]
<1>9. AtLeast(f, t) /\ FrameOk(f) /\ f.base = Top.base
  BY <1>4, <1>6
<1> HIDE DEF f
<1>7. f.base <= t
  BY <1>2, <1>9, AtLeastFacts
<1>10. Top.base <= t
  BY <1>7, <1>9
<1> DEFINE b == Top.base
           r == Reserved
<1>11. b \in Int /\ r = b - 1 /\ b <= t
  BY <1>3, <1>5, <1>10
<1> HIDE DEF b, r
<1>12. r \in Int /\ r <= t
  BY <1>2, <1>11
<1> QED BY <1>2, <1>12 DEF t, r

LEMMA KeptCallScript == CodeOk /\ Inv /\ DeepNow /\ ExecCallScript => Kept
<1> SUFFICES ASSUME CodeOk, Inv, DeepNow, ExecCallScript PROVE Kept
  OBVIOUS
<1>1. InVm /\ PcOk /\ Ins.op = "CALL" /\ ~Fault /\ Callee.tag = "fn"
  BY RunsDef DEF ExecCallScript
<1>2. PICK o \in PushFrameAt(Fetched, Callee.n, Ins.a, TRUE, Base, HeapArgs(<<>>)) :
        IF o.res = "ok" THEN Continue(o.co)
        ELSE \E r \in Raised(o.res) : Unwind(Len(acts), o.co, r)
  BY DEF ExecCallScript
<1>3. Callee.n \in DOMAIN Proto
  <2>1. Callee \in Value
    BY <1>1, CallFacts
  <2> QED BY <1>1, <2>1 DEF Value
<1>4. Ins.a \in Nat /\ Base \in Int /\ Reserved <= Base /\ Reserved \in Int
  BY <1>1, CallFacts, BaseAbove
<1>5. /\ CoOk(Fetched) /\ Fetched.stack = co.stack /\ Fetched.stackCap = co.stackCap
  BY <1>1, FetchedSame
<1> DEFINE args == HeapArgs(<<>>)
           base == Base
           id == Callee.n
           argc == Ins.a
           c == Fetched
           n == Reserved
<1>6. /\ o \in PushFrameAt(c, id, argc, TRUE, base, args)
      /\ CoOk(c) /\ id \in DOMAIN Proto /\ argc \in Nat /\ base \in Int /\ n <= base /\ n \in Int
  BY <1>2, <1>3, <1>4, <1>5
<1> HIDE DEF args, base, id, argc, c, n
<1>7. /\ CoOk(o.co) /\ SameBelow(c, o.co, base)
      /\ o.res = "ok" => /\ o.co.frames = Append(c.frames, NewFrame(id, base))
                         /\ o.co.stackTop = base + Proto[id].localCount
      /\ o.res # "ok" => o.co.frames = c.frames /\ SameBelow(c, o.co, c.stackCap)
  BY <1>6, PushFrameInPlace
<1>8. SameBelow(c, o.co, n)
  BY <1>6, <1>7, SameFewer
<1>9. SameBelow(co, o.co, n)
  BY <1>5, <1>8 DEF SameBelow, c
<1>10. CASE o.res = "ok"
  BY <1>2, <1>9, <1>10 DEF Continue, Kept, n
<1>11. CASE o.res # "ok"
  <2>1. PICK r \in Raised(o.res) : Unwind(Len(acts), o.co, r)
    BY <1>2, <1>11
  <2> QED BY <1>7, <1>9, <2>1, KeptUnwind DEF Kept, n
<1> QED BY <1>10, <1>11

LEMMA KeptCallNative == Inv /\ ExecCallNative => Kept
<1> SUFFICES ASSUME Inv, ExecCallNative PROVE Kept
  OBVIOUS
<1>1. InVm /\ PcOk /\ co' = Fetched
  BY RunsDef DEF ExecCallNative
<1>2. co'.stack = co.stack /\ co'.stackCap = co.stackCap
  BY <1>1, FetchedSame
<1> QED BY <1>2, KeptSame

\* A return writes the callee slot, the one below the frame.
LEMMA KeptReturn == Inv /\ ExecReturn => Kept
<1> SUFFICES ASSUME Inv, ExecReturn PROVE Kept
  OBVIOUS
<1> DEFINE left == Len(co.frames) - 1
           low == Top.base - 1
           v == Peek(0)
           b == Cut(co, left, low)
           c == PushedOn(b, v)
           n == Reserved
<1>1. InVm /\ PcOk /\ Ins.op = "RETURN" /\ ~Fault
  BY RunsDef DEF ExecReturn
<1>2. co' = c
  BY DEF ExecReturn, Continue
<1>3. Holds(1)
  BY <1>1 DEF Fault
<1>4. CoOk(co) /\ CoOk(c) /\ c.stack = [co.stack EXCEPT ![low] = v]
  BY <1>1, <1>3, ReturnFacts DEF Inv
<1>5. c.stackCap = co.stackCap
  <2>1. left \in 0..Len(co.frames) /\ low \in Nat /\ low <= co.stackCap
    <3>1. Len(co.frames) \in 1..Len(co.frames) /\ Len(co.frames) \in Nat
      BY <1>1, RunNow
    <3>2. Top.base \in Nat /\ Top.base >= 1 /\ Top.base <= co.stackCap /\ co.stackCap \in Nat
      BY <1>1, InsFacts, ReturnRoom
    <3> QED BY <3>1, <3>2
  <2>2. LiveBelow(co, low)
    <3>1. \A i \in 0..co.stackTop - 1 : co.stack[i] # Junk
      BY <1>4, CoElim
    <3>2. low <= co.stackTop /\ co.stackTop \in Nat
      <4>1. Reserved = low /\ Reserved \in Nat /\ Reserved < Floor /\ Floor \in Nat /\ co.stackTop \in Nat
        BY <1>1, ReservedNow, FetchedSame
      <4>2. co.stackTop >= Floor + 1
        BY <1>3 DEF Holds
      <4> HIDE DEF low
      <4> QED BY <4>1, <4>2
    <3> HIDE DEF low
    <3> QED BY <2>1, <3>1, <3>2 DEF LiveBelow
  <2> HIDE DEF left, low, v
  <2>3. CoOk(b) /\ b.stackCap = co.stackCap
    BY <1>4, <2>1, <2>2, CutSafe
  <2> HIDE DEF b
  <2>4. c.stackCap = b.stackCap
    BY <2>3, PushedOnFields
  <2> QED BY <2>3, <2>4
<1>6. n = low /\ n \in Int
  BY <1>1, ReservedNow
<1> HIDE DEF c, n, low, v
<1>7. n <= low /\ low \in Int
  BY <1>6
<1>8. SameBelow(co, c, n)
  BY <1>4, <1>5, <1>6, <1>7, SameIfAbove
<1> QED BY <1>2, <1>8 DEF Kept, n

LEMMA KeptNativeReturn == Inv /\ NativeReturn => Kept
<1> SUFFICES ASSUME Inv, NativeReturn PROVE Kept
  OBVIOUS
<1> DEFINE top == Act.base - 1
           c == [co EXCEPT !.stackTop = top]
           m == co.stackTop - top
           n == Reserved
<1>1. InNative /\ CoOk(co)
  BY DEF NativeReturn, Inv
<1>2. PICK v \in Results : co' = PushedOn(c, v)
  BY DEF NativeReturn
<1>3. n = top /\ n \in Int /\ n < co.stackTop /\ n \in Nat /\ co.stackTop \in Nat
  BY <1>1, ReservedNow
<1>4. m \in Nat /\ m <= co.stackTop /\ co.stackTop - m = top
  <2> HIDE DEF top, n
  <2> QED BY <1>3
<1>5. c = Popped(co, m)
  <2> HIDE DEF top, m
  <2>1. Popped(co, m) = Co(co.frames, co.framesCap, co.stackTop - m, co.stackCap, co.stack)
    BY <1>1, SetTop, Zenon DEF Popped
  <2>2. c = Co(co.frames, co.framesCap, top, co.stackCap, co.stack)
    BY <1>1, SetTop
  <2> QED BY <1>4, <2>1, <2>2
<1> HIDE DEF c, m, n
<1>6. SameShape(co, c) /\ c.stackTop = top /\ c.stack = co.stack
  BY <1>1, <1>4, <1>5, PopStep
<1>7. CoOk(c) /\ c.stackCap = co.stackCap
  BY <1>6 DEF SameShape
<1> DEFINE d == PushedOn(c, v)
<1>8. d.stackCap = co.stackCap /\ d.stack = [co.stack EXCEPT ![top] = v]
  BY <1>6, <1>7, PushedOnFields
<1> HIDE DEF d, top
<1>9. n <= top /\ top \in Int
  BY <1>3
<1>10. SameBelow(co, d, n)
  BY <1>1, <1>3, <1>8, <1>9, SameIfAbove
<1> QED BY <1>2, <1>10 DEF Kept, n, d

LEMMA KeptNativeFail == Inv /\ NativeFail => Kept
<1> SUFFICES ASSUME Inv, NativeFail PROVE Kept
  OBVIOUS
<1>1. PICK r : Unwind(Len(acts) - 1, co, r)
  BY DEF NativeFail
<1>2. CoOk(co) /\ SameBelow(co, co, Reserved)
  BY SameIfEqual DEF Inv
<1> QED BY <1>1, <1>2, KeptUnwind DEF Kept

\* A frame pushed above the top of the stack leaves all that is below the top.
LEMMA KeptAbove ==
  ASSUME Inv, ~InVm, NEW id \in DOMAIN Proto, NEW argc \in Nat, NEW argv,
         NEW o \in PushFrameAt(co, id, argc, FALSE, co.stackTop + 1, argv)
  PROVE  SameBelow(co, o.co, Reserved)
<1>1. CoOk(co)
  BY DEF Inv
<1>2. SameBelow(co, o.co, co.stackTop)
  BY <1>1, PushFrameOver
<1>3. Reserved \in Int /\ Reserved <= co.stackTop /\ co.stackTop \in Int
  <2>1. InNative \/ InHost
    BY <1>1, ActsTyped, ActFields DEF InVm, InNative, InHost, Act, Inv
  <2>2. /\ Reserved \in Nat /\ co.stackTop \in Nat
        /\ InNative => Reserved < co.stackTop
        /\ InHost => Reserved = co.stackTop
    BY ReservedNow
  <2> DEFINE r == Reserved
             t == co.stackTop
  <2>3. r \in Nat /\ t \in Nat /\ (r < t \/ r = t)
    BY <2>1, <2>2
  <2> HIDE DEF r, t
  <2>4. r \in Int /\ r <= t /\ t \in Int
    BY <2>3
  <2> QED BY <2>4 DEF r, t
<1> QED BY <1>1, <1>2, <1>3, SameFewer

LEMMA KeptCallProto ==
  ASSUME Inv, ~InVm, NEW e, NEW id \in DOMAIN Proto,
         NEW argc \in Nat, NEW argv, ArgsOk(co, argc, argv), CallProto(e, id, argc, argv)
  PROVE  Kept
<1>1. CoOk(co)
  BY DEF Inv
<1>2. PICK o \in PushFrameAt(co, id, argc, FALSE, co.stackTop + 1, argv) :
        co' = o.co \/ co' = Cut(o.co, Len(co.frames), co.stackTop)
  BY DEF CallProto
<1>3. o \in PushFrameAt(co, id, argc, FALSE, co.stackTop + 1, argv)
  BY <1>2
<1>4. SameBelow(co, o.co, Reserved) /\ CoOk(o.co)
  BY <1>1, <1>3, KeptAbove, PushFrameAbove
<1>5. CASE co' = o.co
  BY <1>4, <1>5 DEF Kept
<1>6. CASE co' = Cut(o.co, Len(co.frames), co.stackTop)
  <2> DEFINE l == Len(co.frames)
             t == co.stackTop
  <2>1. co' = Cut(o.co, l, t)
    BY <1>6
  <2> HIDE DEF l, t
  <2>2. co'.stackCap = o.co.stackCap /\ co'.stack = o.co.stack
    BY <1>4, <2>1, CutFields
  <2> QED BY <1>4, <2>2 DEF Kept, SameBelow
<1> QED BY <1>2, <1>5, <1>6

LEMMA KeptHostCall == Inv /\ HostCall => Kept
<1> SUFFICES ASSUME Inv, HostCall PROVE Kept
  OBVIOUS
<1>1. PICK id \in EntryProtos, args \in MadeArgs : CallProto("none", id, Len(args), HeapArgs(args))
  BY DEF HostCall
<1>2. ~InVm
  BY DEF HostCall, InHost, InVm
<1>3. id \in DOMAIN Proto
  BY ProtoAssumption
<1>4. Len(args) \in Nat /\ ArgsOk(co, Len(args), HeapArgs(args))
  BY MadeArgsOk
<1> QED BY <1>1, <1>2, <1>3, <1>4, KeptCallProto

LEMMA KeptNativeCall == Inv /\ NativeCall => Kept
<1> SUFFICES ASSUME Inv, NativeCall PROVE Kept
  OBVIOUS
<1>1. InNative /\ ~InVm
  BY DEF NativeCall, InNative, InVm
<1>2. PICK id \in NativeProtos :
        \/ \E args \in MadeArgs : CallProto(err, id, Len(args), HeapArgs(args))
        \/ \E first \in 0..Act.argc : \E argc \in 1..Act.argc - first :
             CallProto(err, id, argc, StackArgs(Act.base + first))
  BY DEF NativeCall
<1>3. id \in DOMAIN Proto
  BY ProtoAssumption
<1>4. CASE \E args \in MadeArgs : CallProto(err, id, Len(args), HeapArgs(args))
  <2>1. PICK args \in MadeArgs : CallProto(err, id, Len(args), HeapArgs(args))
    BY <1>4
  <2>2. Len(args) \in Nat /\ ArgsOk(co, Len(args), HeapArgs(args))
    BY MadeArgsOk
  <2> QED BY <1>1, <1>3, <2>1, <2>2, KeptCallProto
<1>5. CASE \E first \in 0..Act.argc : \E argc \in 1..Act.argc - first :
             CallProto(err, id, argc, StackArgs(Act.base + first))
  <2>1. PICK first \in 0..Act.argc : \E argc \in 1..Act.argc - first :
          CallProto(err, id, argc, StackArgs(Act.base + first))
    BY <1>5
  <2>2. PICK argc \in 1..Act.argc - first : CallProto(err, id, argc, StackArgs(Act.base + first))
    BY <2>1
  <2>3. /\ Act.base \in Int /\ Act.argc \in Nat /\ Act.base >= 1
        /\ Act.base + Act.argc <= co.stackTop /\ co.stackTop \in Nat
    BY <1>1, NativeFacts, CoElim DEF Inv
  <2> DEFINE index == Act.base + first
  <2>4. argc \in Nat /\ index \in Nat /\ index + argc <= co.stackTop
    BY <2>3
  <2>5. ArgsOk(co, argc, StackArgs(index))
    BY <2>4, StackArgsOk
  <2>6. CallProto(err, id, argc, StackArgs(index))
    BY <2>2
  <2> HIDE DEF index
  <2> QED BY <1>1, <1>3, <2>4, <2>5, <2>6, KeptCallProto
<1> QED BY <1>2, <1>4, <1>5

LEMMA KeptHostPushFrame == Inv /\ HostPushFrame => Kept
<1> SUFFICES ASSUME Inv, HostPushFrame PROVE Kept
  OBVIOUS
<1>1. PICK id \in EntryProtos, argc \in 0..2 :
      \E argv : \E o \in PushFrameAt(co, id, argc, FALSE, co.stackTop + 1, argv) : co' = o.co
  BY DEF HostPushFrame
<1>2. PICK argv : \E o \in PushFrameAt(co, id, argc, FALSE, co.stackTop + 1, argv) : co' = o.co
  BY <1>1
<1>3. PICK o \in PushFrameAt(co, id, argc, FALSE, co.stackTop + 1, argv) : co' = o.co
  BY <1>2
<1>4. ~InVm /\ id \in DOMAIN Proto /\ argc \in Nat
  BY ProtoAssumption DEF HostPushFrame, InHost, InVm
<1> QED BY <1>3, <1>4, KeptAbove DEF Kept

\* What a kept stack says of the slots, as the property has it.
Frozen == \A i \in 0..Reserved - 1 : i < co'.stackCap => co'.stack[i] = co.stack[i]

LEMMA KeptFreezes == Inv /\ Kept => Frozen
<1> SUFFICES ASSUME Inv, Kept PROVE Frozen
  OBVIOUS
<1> DEFINE n == Reserved
           m == co.stackCap
<1>1. n \in Nat /\ m \in Nat /\ n <= m
  BY ReservedNow
<1>2. \A i \in 0..m - 1 : i < n => co'.stack[i] = co.stack[i]
  BY DEF Kept, SameBelow
<1> HIDE DEF n, m
<1>3. \A i \in 0..n - 1 : i \in 0..m - 1 /\ i < n
  BY <1>1
<1>4. \A i \in 0..n - 1 : co'.stack[i] = co.stack[i]
  BY <1>2, <1>3
<1> QED BY <1>4 DEF Frozen, n

LEMMA FrozenReopen == Inv /\ HostReopen => Frozen
<1> SUFFICES ASSUME Inv, HostReopen PROVE Frozen
  OBVIOUS
<1>1. co'.stackCap = 0
  BY DEF HostReopen, NewCo
<1>2. Reserved \in Nat
  BY ReservedNow
<1> DEFINE n == Reserved
<1> HIDE DEF n
<1>3. \A i \in 0..n - 1 : ~(i < 0)
  BY <1>2 DEF n
<1> QED BY <1>1, <1>3 DEF Frozen, n

LEMMA KeptVmStep == CodeOk /\ Inv /\ DeepNow /\ VmStep => Kept
<1> SUFFICES ASSUME CodeOk, Inv, DeepNow, VmStep PROVE Kept
  OBVIOUS
<1>1. ExecPcOutside \/ ExecFault \/ ExecCallRefused => Kept
  BY KeptFail DEF ExecPcOutside, ExecFault, ExecCallRefused
<1> QED BY <1>1, KeptLoads, KeptMove, KeptStoreLocal, KeptStoreGlobal, KeptOperator, KeptCompare,
           KeptCmpChain, KeptJumps, KeptBuild, KeptUnpack, KeptCallScript, KeptCallNative,
           KeptReturn DEF VmStep

LEMMA FrozenNext == CodeOk /\ Inv /\ DeepNow /\ [Next]_vars => [Frozen]_vars
<1> SUFFICES ASSUME CodeOk, Inv, DeepNow, Next PROVE Frozen
  OBVIOUS
<1>1. CASE VmStep
  BY <1>1, KeptVmStep, KeptFreezes
<1>2. CASE NativeStep
  BY <1>2, KeptNativeReturn, KeptNativeFail, KeptNativeCall, KeptFreezes DEF NativeStep
<1>3. CASE HostStep
  <2>1. HostClearError \/ HostRun => Kept
    BY KeptSame DEF HostClearError, HostRun
  <2> QED BY <1>3, <2>1, KeptHostCall, KeptHostPushFrame, FrozenReopen, KeptFreezes DEF HostStep
<1> QED BY <1>1, <1>2, <1>3 DEF Next

\* When all code is well formed, no step of whoever is in control changes a local
\* or an operand of its callers, whether it calls, returns, fails or makes the
\* stack array move: all it replaces is its own callee slot (ms_vm.c:846-898).
THEOREM WellFormedFreezesCallers ==
  ASSUME \A id \in DOMAIN Proto : WellFormed(Proto[id])
  PROVE  Spec => SlotsFrozen
<1>1. CodeOk
  BY DEF CodeOk
<1>2. Inv /\ DeepNow /\ [Next]_vars => [Frozen]_vars
  BY <1>1, FrozenNext
<1>3. Spec => []DeepNow
  BY <1>1, DeepAlways
<1> QED BY <1>2, <1>3, Invariance, PTL DEF Spec, SlotsFrozen, Frozen
=============================================================================
