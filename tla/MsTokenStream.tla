---------------------------- MODULE MsTokenStream ----------------------------
(* What the lexer promises its caller: the tokens of a text of `limit` - 1     *)
(* bytes, handed out one after the other (msLexerNext, src/lexer/ms_lexer.h).  *)
EXTENDS Integers, Sequences

CONSTANT MaxEmpty        \* how many tokens in a row may have no bytes
VARIABLES limit,         \* one past the last byte
          given          \* [start, end, last] of every token handed out

streamVars == <<limit, given>>

Over == given # <<>> /\ given[Len(given)].last
Reached == IF given = <<>> THEN 1 ELSE given[Len(given)].end
IsEmpty(t) == t.start = t.end

Init == given = <<>> /\ limit \in Nat \ {0}
\* The next token begins no earlier than the last one ended.
Give ==
  /\ ~Over
  /\ \E start \in Reached..limit : \E end \in start..limit : \E last \in BOOLEAN :
       /\ given' = Append(given, [start |-> start, end |-> end, last |-> last])
       /\ last => start = end
  \* of MaxEmpty + 1 tokens in a row one has bytes, or it is the last
  /\ Len(given) >= MaxEmpty =>
       \/ given'[Len(given')].last
       \/ \E i \in (Len(given') - MaxEmpty)..Len(given') : ~IsEmpty(given'[i])
  /\ UNCHANGED limit

Safe    == Init /\ [][Give]_streamVars
Ends    == <>Over
Promise == Safe /\ Ends
=============================================================================
