---------------------------- MODULE MsStringPool ----------------------------
(* What msStringNew promises its callers (ms_string.h): equal short contents *)
(* are the same object, longer ones are always fresh, a refused allocation   *)
(* yields NULL and is only possible when there is nothing to share.          *)
EXTENDS Integers

CONSTANTS Short, Long,      \* the contents that are interned, and those that are not
          Objects,          \* addresses
          NULL

VARIABLES text,             \* live string object |-> its content
          asked,            \* the content of the last call of msStringNew
          answer            \* what it returned

Texts == Short \cup Long
Live == DOMAIN text
Holders(t) == {o \in Live : text[o] = t}
Sharable(t) == t \in Short /\ Holders(t) # {}

Init == text = <<>> /\ asked = NULL /\ answer = NULL

Shared(t) == /\ Sharable(t)
             /\ answer' \in Holders(t)
             /\ UNCHANGED text

Fresh(t) == /\ ~Sharable(t)
            /\ \E o \in Objects \ Live :
                 /\ text' = [p \in Live \cup {o} |-> IF p = o THEN t ELSE text[p]]
                 /\ answer' = o

Refused(t) == ~Sharable(t) /\ answer' = NULL /\ UNCHANGED text

Free(o) == text' = [p \in Live \ {o} |-> text[p]]

Destroy == text' = <<>>

Next == \/ \E t \in Texts : asked' = t /\ (Shared(t) \/ Fresh(t) \/ Refused(t))
        \/ /\ asked' = NULL /\ answer' = NULL
           /\ Destroy \/ \E o \in Live : Free(o)

Spec == Init /\ [][Next]_<<text, asked, answer>>
============================================================================
