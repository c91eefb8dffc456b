------------------------------ MODULE MsScope -------------------------------
(* The compiler's table of local slots of one function: named locals and   *)
(* hidden temporaries stacked block by block, and the names a `global`     *)
(* statement marked.  Slot n of the C array locals[] is element n + 1 of   *)
(* the sequence, localCount is its length, scopeDepth is the index of the  *)
(* innermost block.                                                        *)
EXTENDS Integers, Sequences

CONSTANTS MaxLocals, MaxBlocks

ASSUME ScopeAssumption == MaxLocals \in Nat \ {0} /\ MaxBlocks \in Nat \ {0}

\* The name of a temporary, and the slot of a block that discards nothing.
Hidden == ""
NoSlot == -1

NewBlock(base) == [localBase |-> base, discardSlot |-> NoSlot]

ScopeCtxInit == [locals |-> <<>>, localMax |-> 0, blocks |-> <<NewBlock(0)>>, globals |-> {}]

LocalCount(s) == Len(s.locals)
ScopeDepth(s) == Len(s.blocks) - 1
CanAlloc(s) == LocalCount(s) < MaxLocals
CanNest(s) == ScopeDepth(s) + 1 < MaxBlocks

BeginBlock(s) == [s EXCEPT !.blocks = Append(@, NewBlock(LocalCount(s)))]

EndBlock(s) ==
  [s EXCEPT !.blocks = SubSeq(@, 1, Len(@) - 1),
            !.locals = SubSeq(@, 1, s.blocks[Len(s.blocks)].localBase)]

\* Mutant: localMax misses the slot that was just taken.
AllocLocalMaxShort(s, name) ==
  [s EXCEPT !.locals = Append(@, [name |-> name, depth |-> ScopeDepth(s)]),
            !.localMax = IF LocalCount(s) > @ THEN LocalCount(s) ELSE @]

AllocLocal(s, name) ==
  [s EXCEPT !.locals = Append(@, [name |-> name, depth |-> ScopeDepth(s)]),
            !.localMax = IF LocalCount(s) + 1 > @ THEN LocalCount(s) + 1 ELSE @]

\* The caller puts localCount back to n once a temporary is no longer needed.
Released(s, n) == [s EXCEPT !.locals = SubSeq(@, 1, n)]

Holding(s, name) == {i \in DOMAIN s.locals : s.locals[i].name = name}

\* The innermost local of that name, as a slot.
ResolveLocal(s, name) ==
  IF Holding(s, name) = {} THEN NoSlot
  ELSE (CHOOSE i \in Holding(s, name) : \A j \in Holding(s, name) : j <= i) - 1

HasLocalAtDepth(s, name) == \E i \in Holding(s, name) : s.locals[i].depth = ScopeDepth(s)

IsMarkedGlobal(s, name) == name \in s.globals

MarkGlobal(s, name) == [s EXCEPT !.globals = @ \cup {name}]
============================================================================
