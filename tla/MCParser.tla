------------------------------ MODULE MCParser ------------------------------
(* Texts over a few tokens at a time, begun where the constructs are that     *)
(* these tokens belong to.                                                    *)
EXTENDS MsParser

CONSTANT Size      \* bound on the tokens that follow the beginning of a text

D(begin, tokens, size) ==
  [begin |-> begin, tokens |-> tokens, size |-> size, broken |-> FALSE, scarce |-> FALSE]
InMethod == <<"class", "x", "{", "func", "x", "(", ")", "{">>
MCDialects == {
  D(<<>>, {"x", "-", "**", "*", "(", ")", "not"}, Size),
  D(<<>>, {"x", "in", "not", "is", "<", "and", "or"}, Size),
  D(<<"x">>, {"x", "if", "else", "or", "lambda", ":", "+"}, Size),
  D(<<"x">>, {"x", "|", "^", "&", "<<", "~"}, Size - 1),
  D(<<"x">>, {"(", ")", "x", "=", ",", "int"}, Size),
  D(<<"x">>, {"[", "]", ":", "x", "."}, Size),
  D(<<"[">>, {"for", "x", "in", "if", ":", ",", "]"}, Size),
  D(<<"x", "=", "{">>, {"x", ":", ",", "}", "for", "in"}, Size),
  D(<<>>, {"lambda", "x", ",", ":", "await", "(", ")"}, Size),
  D(<<"fstart">>, {"string", "{", "x", "}", "format", "fend", "fstart", "("}, Size),
  D(<<>>, {"*", "x", ",", ":=", "=", "+=", "++", ";"}, Size - 1),
  D(<<"for">>, {"x", "in", ";", "++", "{", "}", "*"}, Size),
  D(<<"for", "x", ";", "x", ";">>, {"x", "++", "{", "}", "[", ","}, Size),
  D(<<>>, {"if", "else", "while", "x", "{", "}", ";", "break"}, Size),
  D(<<"func", "x", "(">>, {"x", "self", "*", "**", "=", ",", ")", "{"}, Size),
  D(<<"while", "x", "{", "func", "x", "(", ")", "{">>, {"break", "return", "self", "}", ";", "x"}, Size),
  D(<<"async", "func", "x", "(", ")", "{">>, {"await", "lambda", ":", "x", "}", "async", "func"}, Size),
  D(<<"class", "x">>, {"<", "x", "{", "static", "async", "func", "}", ";"}, Size),
  D(InMethod, {"self", "lambda", ":", "}", "static", "func", ";"}, Size),
  D(<<"class", "x", "{", "static", "func", "x", "(", ")", "{">>, {"self", "class", "}", ";", "x", "{"}, Size),
  D(<<"try", "{", "}">>, {"except", "finally", "as", "x", "{", "}"}, Size),
  D(<<"with">>, {"x", "as", "{", "}", "select", "case", ")"}, Size - 1),
  D(<<"select", "{">>, {"case", "default", "x", ":", "=", ",", "}"}, Size),
  D(<<"select", "{", "case">>, {"x", "=", ".", "recv", "send", "(", ")", ":"}, Size),
  D(<<"select", "{", "case", "x", ".", "send", "(", "x", ")", ":">>, {"x", "case", ")", "}", ";", "default"}, Size - 1),
  D(<<"import">>, {"string", "as", "x", ";", "import"}, Size),
  D(<<"from">>, {"string", "import", "x", "(", ")", ","}, Size),
  D(<<>>, {"return", "raise", "from", "del", "global", "pass", "x", ","}, Size - 1),
  D(<<"if">>, {"x", ".", "{", ")", "}", "("}, Size),
  [D(<<>>, {"x", "-", ";", "{", "}", "not", "in"}, Size - 1) EXCEPT !.broken = TRUE, !.scarce = TRUE]}
\* A condition with a mistake in it, and then a block.
MCBroken == {D(<<"if">>, {"x", ".", "{", ")", "}"}, Size)}
=============================================================================
