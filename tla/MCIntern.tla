------------------------------ MODULE MCIntern ------------------------------
(* A table that starts with two buckets and grows to four and eight, six     *)
(* contents, and every way to hash four of them to three values that wrap    *)
(* and collide in tables of those sizes, with the hash of a fifth fixed.     *)
EXTENDS MsIntern, TLC

CONSTANTS a, b, c, d, e, long

MCShort == {a, b, c, d, e}
MCLong == {long}
MCTypeNames == <<a, b>>
MCHashFns == {h @@ (a :> 3) @@ (long :> 3) : h \in [{b, c, d, e} -> {2, 3, 7}]}
============================================================================
