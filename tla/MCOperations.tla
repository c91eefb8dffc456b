---------------------------- MODULE MCOperations ----------------------------
(* Words of four bits and floats of two: 5 lies between the floats 4 and 6,   *)
(* and 7 rounds to 8, which is no word, as 2^53 + 1 and 2^63 - 1 do in the    *)
(* code.                                                                       *)
EXTENDS MsOperations

\* Equal keys of different types, both zeros, a word that no float equals and
\* the float it rounds to, NaN, and truth values next to 1.
MCKeys == {IntOf(0), FloatOf(0, TRUE), IntOf(1), FloatOf(One, FALSE), BoolOf(TRUE),
           IntOf(5), FloatOf(4 * One, FALSE), NaN}
=============================================================================
