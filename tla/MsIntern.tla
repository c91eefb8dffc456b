------------------------------ MODULE MsIntern ------------------------------
(* The intern table of a heap: src/object/ms_string.c, and the object    *)
(* life cycle of src/object/ms_object.c around it.  An open-addressed    *)
(* table with linear probing, doubled at three quarters full, from which     *)
(* msObjectFree deletes by shifting entries backwards.                       *)
EXTENDS Integers, Sequences, FiniteSets, SequencesExt, FiniteSetsExt

CONSTANTS Short, Long,      \* contents of at most, and of more than, MS_STRING_SHORT_MAX_LEN bytes
          TypeNames,        \* the names of the type objects, interned by msHeapInit
          HashFns,          \* the hash functions tried, [Short \cup Long -> Nat]
          InitialCap,       \* MS_STRING_INTERN_INITIAL_CAP
          MaxObjects        \* bound: objects alive at once

Texts == Short \cup Long
Objects == 1..MaxObjects
NULL == 0

ASSUME ContentsAssumption ==
  /\ Short \cap Long = {}
  /\ TypeNames \in Seq(Short)
  /\ \A h \in HashFns : h \in [Texts -> Nat]
\* The mask internCap - 1 is a remainder only for a power of two.
ASSUME CapAssumption == /\ InitialCap \in Nat \ {0, 1} /\ MaxObjects \in Nat
                        /\ \E k \in 1..InitialCap : InitialCap = 2^k

VARIABLES phase,            \* "down", "naming" (inside msHeapInit) or "up"
          named,            \* the type names interned so far
          internSlots,      \* bucket |-> object or NULL
          internCap, internLen,
          text,             \* live string object |-> its content
          blocks,           \* blocks held from ms_memory.c
          asked,            \* the content of the last call of msStringNew
          answer,           \* what it returned
          hash              \* the hash of each content

vars == <<phase, named, internSlots, internCap, internLen, text, blocks, asked, answer, hash>>

Live == DOMAIN text
HashOf(o) == hash[text[o]]
Empty(cap) == [i \in 0..cap - 1 |-> NULL]

Init == /\ phase = "down" /\ named = 0
        /\ internSlots = <<>> /\ internCap = 0 /\ internLen = 0
        /\ text = <<>> /\ blocks = 0 /\ asked = NULL /\ answer = NULL
        /\ hash \in HashFns

----------------------------------------------------------------------------
(* Probing.                                                                  *)

\* The first bucket of the probe path of h that is empty or holds one of stops.
Probe(slots, cap, h, stops) ==
  (h + Min({d \in 0..cap - 1 : slots[(h + d) % cap] \in stops \cup {NULL}})) % cap

\* Without memcmp: a content is found under another of the same hash.
InternFindByHash(t) ==
  internSlots[Probe(internSlots, internCap, hash[t], {o \in Live : HashOf(o) = hash[t]})]

InternFind(t) ==
  internSlots[Probe(internSlots, internCap, hash[t], {o \in Live : text[o] = t})]

InternInsert(slots, cap, h, o) ==
  [slots EXCEPT ![Probe(slots, cap, h, {})] = o]

\* Every entry of the old table goes, in bucket order, into one twice as large.
Moved[n \in 0..internCap] ==
  IF n = 0 THEN Empty(2 * internCap)
  ELSE IF internSlots[n - 1] = NULL THEN Moved[n - 1]
  ELSE InternInsert(Moved[n - 1], 2 * internCap, HashOf(internSlots[n - 1]), internSlots[n - 1])
Rehashed == Moved[internCap]

\* The load is tested before the new entry is counted.
TooFullLate == internLen * 4 > internCap * 3

TooFull == (internLen + 1) * 4 > internCap * 3

\* The entry i buckets past a hole moves into it when the hole lies on its
\* probe path; the scan stops at the first empty bucket.
Shift(start, acc, d) ==
  LET i == (start + d) % internCap
      home == HashOf(acc.slots[i]) % internCap
  IN  IF acc.done \/ acc.slots[i] = NULL THEN [acc EXCEPT !.done = TRUE]
      ELSE IF (acc.hole - home) % internCap < (i - home) % internCap
      THEN [acc EXCEPT !.slots[acc.hole] = acc.slots[i], !.hole = i]
      ELSE acc

\* The bucket is cleared and the entries behind it stay where they are.
BackShiftNone(slots, idx) == [slots EXCEPT ![idx] = NULL]

BackShift(slots, idx) ==
  LET scan[d \in 0..internCap - 1] ==
        IF d = 0 THEN [slots |-> slots, hole |-> idx, done |-> FALSE]
        ELSE Shift(idx, scan[d - 1], d)
      end == scan[internCap - 1]
  IN  [end.slots EXCEPT ![end.hole] = NULL]

----------------------------------------------------------------------------
(* msStringNew.                                                              *)

\* The table takes its final form and the object, if one is made, its address.
Table(slots, cap, len) == internSlots' = slots /\ internCap' = cap /\ internLen' = len
KeepTable == UNCHANGED <<internSlots, internCap, internLen>>

NewObject(t, o) ==
  /\ o = Min(Objects \ Live)
  /\ text' = [p \in Live \cup {o} |-> IF p = o THEN t ELSE text[p]]
  /\ answer' = o

Hit(t) == /\ t \in Short /\ InternFind(t) # NULL
          /\ answer' = InternFind(t)
          /\ KeepTable /\ UNCHANGED <<text, blocks>>

Misses(t) == t \in Long \/ InternFind(t) = NULL

\* A refused allocation: of the larger table, or of the object, after the
\* table was replaced or without any need to replace it.
Refused(t) ==
  /\ Misses(t)
  /\ answer' = NULL /\ UNCHANGED <<text, blocks>>
  /\ \/ KeepTable
     \/ t \in Short /\ TooFull /\ Table(Rehashed, 2 * internCap, internLen)

\* msStringInternGrow allocates the new table and frees the old one.
GrowBlocksLeak == blocks + 1

GrowBlocks == blocks + 1 - 1

MadeShort(t) ==
  /\ t \in Short /\ Misses(t) /\ Live # Objects
  /\ \E o \in Objects :
       /\ NewObject(t, o)
       /\ IF TooFull
          THEN /\ Table(InternInsert(Rehashed, 2 * internCap, hash[t], o), 2 * internCap, internLen + 1)
               /\ blocks' = GrowBlocks + 1
          ELSE /\ Table(InternInsert(internSlots, internCap, hash[t], o), internCap, internLen + 1)
               /\ blocks' = blocks + 1

MadeLong(t) ==
  /\ t \in Long /\ Live # Objects
  /\ \E o \in Objects : NewObject(t, o)
  /\ blocks' = blocks + 1 /\ KeepTable

StringNew(t) == /\ phase = "up" /\ UNCHANGED <<phase, named, hash>>
                /\ asked' = t
                /\ Hit(t) \/ MadeShort(t) \/ MadeLong(t) \/ Refused(t)

----------------------------------------------------------------------------
(* Objects and heaps.                                                        *)

\* msStringInternRemove: probes for the object itself; a string that is not
\* in the table ends the probe at an empty bucket.
InternRemove(o) ==
  LET idx == Probe(internSlots, internCap, HashOf(o), {o})
  IN  IF internSlots[idx] = NULL THEN KeepTable
      ELSE Table(BackShift(internSlots, idx), internCap, internLen - 1)

\* Any string but the names the type objects point to.
ObjectFree(o) ==
  /\ phase = "up" /\ text[o] \notin ToSet(TypeNames)
  /\ InternRemove(o)
  /\ text' = [p \in Live \ {o} |-> text[p]]
  /\ blocks' = blocks - 1 /\ asked' = NULL /\ answer' = NULL
  /\ UNCHANGED <<phase, named, hash>>

\* msHeapDestroy frees every linked object and then the table.
HeapDestroy ==
  /\ phase' = "down" /\ named' = 0
  /\ text' = <<>> /\ blocks' = blocks - Cardinality(Live) - 1
  /\ Table(<<>>, 0, 0) /\ asked' = NULL /\ answer' = NULL
  /\ UNCHANGED hash

Close == phase = "up" /\ HeapDestroy

HeapInit ==
  /\ phase = "down" /\ phase' = "naming"
  /\ Table(Empty(InitialCap), InitialCap, 0) /\ blocks' = blocks + 1
  /\ UNCHANGED <<named, text, asked, answer, hash>>

\* One more type name; a refusal destroys the heap made so far.
NameType ==
  /\ phase = "naming" /\ named < Len(TypeNames)
  /\ \/ /\ Hit(TypeNames[named + 1]) \/ MadeShort(TypeNames[named + 1])
        /\ asked' = TypeNames[named + 1]
        /\ named' = named + 1 /\ UNCHANGED <<phase, hash>>
     \/ HeapDestroy

HeapReady == /\ phase = "naming" /\ named = Len(TypeNames) /\ phase' = "up"
             /\ UNCHANGED <<named, internSlots, internCap, internLen, text, blocks, asked, answer, hash>>

Next == \/ HeapInit \/ NameType \/ HeapReady \/ Close
        \/ \E t \in Texts : StringNew(t)
        \/ \E o \in Live : ObjectFree(o)

Spec == Init /\ [][Next]_vars

----------------------------------------------------------------------------
(* Properties.                                                               *)

Occupied == {i \in DOMAIN internSlots : internSlots[i] # NULL}

\* Exactly the live short strings are in the table, each reachable by the
\* probe that starts at its own hash: no deletion and no rehash cuts a chain.
\* internLen counts them and stays within three quarters, which keeps the empty
\* buckets that the probe for an absent content stops at.
Findable ==
  phase # "down" =>
    /\ {internSlots[i] : i \in Occupied} = {o \in Live : text[o] \in Short}
    /\ \A o \in Live : text[o] \in Short => InternFind(text[o]) = o
    /\ internLen = Cardinality(Occupied) /\ internLen * 4 <= internCap * 3

\* ms_memory.c counts one block for the table and one for each object that is
\* alive, and none once the heap is destroyed or msHeapInit rolled back.
Balanced == blocks = Cardinality(Live) + (IF phase = "down" THEN 0 ELSE 1)

\* The table implements what ms_string.h promises: equal short contents are
\* one object, and nothing is allocated for a content that is already there.
Pool == INSTANCE MsStringPool WITH text <- text, asked <- asked, answer <- answer
IsPool == Pool!Spec
============================================================================
