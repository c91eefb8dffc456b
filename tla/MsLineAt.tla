------------------------------ MODULE MsLineAt ------------------------------
(* msProtoLineAt (src/vm/ms_proto.c): the binary search of the line table of *)
(* a built prototype, on every table the builder makes.                      *)
EXTENDS MsProtoBuilder

CONSTANT AskedPcs   \* the program counters asked for; the machine asks for pc - 1

ASSUME AskedAssumption == AskedPcs \subseteq Int

VARIABLES search,   \* "no", "yes" or "done"
          pc, lo, hi,
          answer
searchVars == <<search, pc, lo, hi, answer>>

LineAtInit == Init /\ search = "no" /\ pc = 0 /\ lo = 0 /\ hi = 0 /\ answer = 0

Table == out.lines

\* Entries are counted from 0.
EntryAt(i) == Table[i + 1]

Begin(p) ==
  /\ search = "no" /\ out.built /\ pc' = p
  /\ CASE Table = <<>> -> search' = "done" /\ answer' = NoLine /\ UNCHANGED <<lo, hi>>
       [] Table # <<>> /\ p < EntryAt(0).pc -> search' = "done" /\ answer' = EntryAt(0).line /\ UNCHANGED <<lo, hi>>
       [] OTHER -> search' = "yes" /\ lo' = 0 /\ hi' = Len(Table) - 1 /\ UNCHANGED answer
  /\ UNCHANGED builderVars

Mid == (lo + hi + 1) \div 2

Halve ==
  /\ search = "yes" /\ lo < hi
  /\ IF EntryAt(Mid).pc <= pc THEN lo' = Mid /\ UNCHANGED hi ELSE hi' = Mid - 1 /\ UNCHANGED lo
  /\ UNCHANGED <<search, pc, answer, builderVars>>

\* The search stops one step too early.
FoundEarly ==
  /\ search = "yes" /\ lo + 1 >= hi
  /\ search' = "done" /\ answer' = EntryAt(lo).line
  /\ UNCHANGED <<pc, lo, hi, builderVars>>

Found ==
  /\ search = "yes" /\ lo >= hi
  /\ search' = "done" /\ answer' = EntryAt(lo).line
  /\ UNCHANGED <<pc, lo, hi, builderVars>>

Finish == /\ search = "done" /\ search' = "no"
          /\ pc' = 0 /\ lo' = 0 /\ hi' = 0 /\ answer' = 0
          /\ UNCHANGED builderVars

LineAtNext == \/ search = "no" /\ Next /\ UNCHANGED searchVars
              \/ (\E p \in AskedPcs : Begin(p)) \/ Halve \/ Found \/ Finish

LineAtSpec == LineAtInit /\ [][LineAtNext]_<<builderVars, searchVars>>

----------------------------------------------------------------------------
(* Properties.                                                               *)

\* What the search must answer for p: the line the instruction was emitted
\* for; before the first line, the first line; past the end, the last.
LineOf(p) ==
  IF Table = <<>> THEN NoLine
  ELSE IF p \in 0..Len(out.written) - 1 /\ out.written[p + 1] # NoLine THEN out.written[p + 1]
  ELSE IF p < EntryAt(0).pc THEN EntryAt(0).line
  ELSE EntryAt(Len(Table) - 1).line

\* Every error message and every traceback names the line the failing
\* instruction was emitted for, wherever in its run the instruction is.
LineAtExact == search = "done" => answer = LineOf(pc)

\* The search stays inside the table, and the entry it looks for stays inside
\* the search: lo begins at or before pc and hi + 1 after it (ms_proto.c:274-284).
SearchInside ==
  search = "yes" => /\ 0 <= lo /\ lo <= hi /\ hi < Len(Table)
                    /\ EntryAt(lo).pc <= pc
                    /\ hi + 1 < Len(Table) => pc < EntryAt(hi + 1).pc
============================================================================
