------------------------------- MODULE MCLexer -------------------------------
(* Texts of a few pieces, drawn from one small set of pieces at a time and     *)
(* begun in the ways that bring the interesting cases within reach.           *)
EXTENDS MsLexer, SequencesExt

CONSTANT Size    \* bound on the pieces that follow the beginning of a text

Fq == <<"f", "\"">>
Bq == <<"BACKQUOTE">>
Texts(begins, pieces, n) == {b \o FlattenSeq(s) : b \in begins, s \in BoundedSeq(pieces, n)}
MCSources ==
  UNION {
    Texts({<<>>, Fq \o <<"{">>}, {Fq, <<"\"">>, <<"{">>, <<"}">>, <<":">>, <<"a">>, <<"\n">>}, Size),
    Texts({Fq \o <<"{", "a">>}, {<<"{">>, <<"(">>, <<"]">>, <<":">>, <<"}">>}, Size),
    Texts({Fq}, {<<"\"">>, <<"\\">>, <<"{">>, <<"}">>, <<"n">>}, Size),
    Texts({<<>>}, {<<"\"">>, <<"b", "\"">>, <<"\\">>, <<"n">>, <<"\n">>}, Size),
    Texts({<<"\"", "\\", "u">>, <<"\"", "\\", "U">>, <<"\"", "\\", "x">>},
          {<<"D", "8">>, <<"0", "0">>, <<"1", "0">>, <<"\"">>}, Size + 1),
    Texts({<<>>}, {<<"a">>, <<"/">>, <<"*">>, <<"\n">>, <<"\r">>, <<" ">>}, Size),
    Texts({<<>>, Fq, Fq \o <<"{", "a">>},
          {<<"/", "*">>, <<"*", "/">>, <<"/", "/">>, <<"*">>, <<":">>, <<"\n">>, <<"a">>}, Size - 1),
    Texts({Bq}, {Bq, <<"\r">>, <<"\n">>, <<"a">>}, Size - 1),
    Texts({<<>>}, {<<"EF">>, <<"BB">>, <<"BF">>, <<"C3">>, <<"a">>}, Size),
    Texts({<<>>, <<"1">>, <<"0", "x">>, <<"1", ".">>},
          {<<"0">>, <<"1">>, <<"_">>, <<".">>, <<"e">>, <<"x">>, <<"+">>}, Size - 1),
    Texts({<<>>}, {<<"+">>, <<"*">>, <<"=">>, <<".">>, <<":">>, <<"!">>}, Size - 1),
    Texts({<<>>}, {<<"n", "i", "l">>, <<"i", "f">>, <<")">>, <<"}">>, <<"{">>, <<"\n">>, <<";">>}, Size - 1)}
=============================================================================
