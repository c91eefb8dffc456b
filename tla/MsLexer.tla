------------------------------- MODULE MsLexer -------------------------------
(* The lexer (src/lexer/ms_lexer.c): the scans that find the next token, one  *)
(* operator per scanning function, and the steps they make on the cursor, the *)
(* stack of open f-strings and the diagnostics shared with the parser.        *)
EXTENDS Integers, Sequences, FiniteSets

CONSTANTS Sources,     \* the texts: sequences of characters, a byte of a UTF-8 sequence is one
          SharedLength,   \* the parser's own reports are followed for texts of at most this length
          MaxFrames,   \* MS_LEXER_MAX_FSTRING_DEPTH, 8
          MaxDiags     \* MS_DIAG_MAX_COUNT, 20

ASSUME LexerAssumption == /\ \A s \in Sources : s \in Seq(STRING) /\ \A i \in 1..Len(s) : s[i] # "EOF"
                          /\ MaxFrames \in Nat \ {0} /\ MaxDiags \in Nat \ {0}
                          /\ SharedLength \in Nat

VARIABLES source,
          cursor,            \* [pos, line, col]
          canEndStatement,
          mode,              \* "NORMAL" | "TEXT"; FSTRING_FORMAT never outlives the scan that sets it
          frames,            \* [brace, bracket] of each f-string open
          blockBraceDepth,
          diags,             \* how many are recorded
          theirs,            \* how many of them the parser recorded
          hitDiagCap,
          peeked,            \* the token msLexerPeek read ahead
          handed             \* the tokens msLexerNext returned

vars == <<source, cursor, canEndStatement, mode, frames, blockBraceDepth, diags, theirs,
          hitDiagCap, peeked, handed>>

(********************************* characters *********************************)

Digit    == {"0", "1", "2", "3", "4", "5", "6", "7", "8", "9"}
HexDigit == Digit \cup {"a", "b", "c", "d", "e", "f", "A", "B", "C", "D", "E", "F"}
Letter   == {"a", "b", "c", "d", "e", "f", "g", "h", "i", "j", "k", "l", "m", "n", "o", "p", "q",
             "r", "s", "t", "u", "v", "w", "x", "y", "z", "A", "B", "C", "D", "E", "F", "G", "H",
             "I", "J", "K", "L", "M", "N", "O", "P", "Q", "R", "S", "T", "U", "V", "W", "X", "Y", "Z"}
IdentStart    == Letter \cup {"_"}
IdentContinue == IdentStart \cup Digit
NewlineChar   == {"\n", "\r"}
Quote         == "\""
Backslash     == "\\"
SimpleEscape  == {"n", "t", "r", Backslash, Quote, "'", "0"}
Blank         == {" ", "\t"} \cup NewlineChar

\* One byte of each range stands for it: C2-DF, E0-EF, F0-F4, 80-BF, and FF for the rest.
Lead     == [b \in {"C3", "E2", "EF", "F0"} |-> CASE b = "C3" -> 2 [] b = "F0" -> 4 [] OTHER -> 3]
Trail    == {"A9", "BB", "BF"}
HighByte == DOMAIN Lead \cup Trail \cup {"FF"}

At(p) == IF p <= Len(source) THEN source[p] ELSE "EOF"
Past == Len(source) + 1
\* The first place from p on that holds one of `stops`, or the end; and that holds none of `set`.
Until(p, stops) == CHOOSE q \in p..Past : /\ q = Past \/ At(q) \in stops
                                          /\ \A r \in p..(q - 1) : At(r) \notin stops
Run(p, set)     == CHOOSE q \in p..Past : /\ At(q) \notin set
                                          /\ \A r \in p..(q - 1) : At(r) \in set

Utf8Length(p) == IF At(p) \in DOMAIN Lead /\ \A i \in 1..(Lead[At(p)] - 1) : At(p + i) \in Trail
                 THEN Lead[At(p)] ELSE 0

(********************************* the cursor *********************************)

Advance(c, n) == [pos |-> c.pos + n, line |-> c.line, col |-> c.col + n]
BareReturn(p) == At(p) = "\r" /\ At(p + 1) # "\n"
\* A CRLF ends two lines.
ConsumeNewlineByByte(c) == [pos |-> c.pos + 1, line |-> c.line + 1, col |-> 1]
ConsumeNewline(c) == [pos  |-> IF At(c.pos) = "\r" /\ At(c.pos + 1) = "\n" THEN c.pos + 2 ELSE c.pos + 1,
                      line |-> c.line + 1, col |-> 1]
Cursor == [pos : Nat, line : Nat, col : Nat]
\* The cursor moved byte by byte to position `to`, newlines counted.
Walk(c, to) ==
  LET walk[d \in Cursor] == IF d.pos >= to THEN d
                            ELSE IF At(d.pos) \in NewlineChar THEN walk[ConsumeNewline(d)]
                            ELSE walk[Advance(d, 1)]
  IN  walk[c]

(***************************** spaces and comments ****************************)

\* Past the "*/" that ends a block comment whose text begins at p, or the end of the input.
Closes(r) == At(r) = "*" /\ At(r + 1) = "/"
\* The star that opens the comment may close it.
SkipBlockCommentOverlap(p) ==
  IF \E r \in (p - 1)..Past : Closes(r)
  THEN 2 + (CHOOSE r \in (p - 1)..Past : Closes(r) /\ \A i \in (p - 1)..(r - 1) : ~Closes(i))
  ELSE Past + 1
SkipBlockComment(p) ==
  IF \E r \in p..Past : Closes(r)
  THEN 2 + (CHOOSE r \in p..Past : Closes(r) /\ \A i \in p..(r - 1) : ~Closes(i))
  ELSE Past + 1   \* E105
SkipTrivia[p \in Nat] ==
  CASE At(p) \in Blank -> SkipTrivia[p + 1]
    [] At(p) = "/" /\ At(p + 1) = "/" -> SkipTrivia[Until(p, NewlineChar)]
    [] At(p) = "/" /\ At(p + 1) = "*" -> SkipTrivia[SkipBlockComment(p + 2)]
    [] OTHER -> p
TriviaEnd == IF SkipTrivia[cursor.pos] > Past THEN Past ELSE SkipTrivia[cursor.pos]
NewlineSeen == \E i \in cursor.pos..(TriviaEnd - 1) : At(i) \in NewlineChar

Kth(places, k) == CHOOSE a \in places : Cardinality({b \in places : b < a}) = k - 1
\* Where the scan stands after each E112 of a stretch, in order.
ReturnReports(p, q) ==
  LET after == {i + 1 : i \in {j \in p..(q - 1) : BareReturn(j)}}
  IN  [k \in 1..Cardinality(after) |-> Kth(after, k)]
TriviaReports == ReturnReports(cursor.pos, TriviaEnd)
                   \o (IF SkipTrivia[cursor.pos] > Past THEN <<Past>> ELSE <<>>)

(******************************* scans of literals *****************************)

\* What a scan finds: a token of `type` from one cursor to another, the places where it
\* reports, and what it does to the open f-strings and blocks.
Found(type, from, to, errs, does) ==
  [type |-> type, from |-> from, to |-> to, end |-> to.pos, errs |-> errs, does |-> does]
Good(type, c, q) == Found(type, c, Advance(c, q - c.pos), <<>>, "none")
Bad(c, q)        == Found("INVALID", c, Advance(c, q - c.pos), <<q>>, "none")

\* A run of digits from p on, its underscores single and between digits; `exp`: it may end at an e.
BaseDigits(base) == CASE base = 16 -> HexDigit [] base = 2 -> {"0", "1"} [] base = 10 -> Digit
                      [] OTHER -> Digit \ {"8", "9"}
DigitsEnd(p, base) == Run(p, BaseDigits(base) \cup {"_"})
ScanDigits(p, base, exp) ==
  LET r == DigitsEnd(p, base)
  IN  /\ \A i \in p..(r - 1) : At(i) = "_" => i > p /\ At(i - 1) # "_" /\ i < r - 1
      /\ At(r) \in IdentContinue => exp /\ At(r) \in {"e", "E"}

\* The part after the digits of a decimal that end at r: an exponent, or nothing.
ScanExponent(c, r, type) ==
  LET s == IF At(r + 1) \in {"+", "-"} THEN r + 2 ELSE r + 1
  IN  IF At(r) \notin {"e", "E"} THEN Good(type, c, r)
      ELSE IF ScanDigits(s, 10, FALSE) /\ DigitsEnd(s, 10) > s THEN Good("FLOAT", c, DigitsEnd(s, 10))
      ELSE Bad(c, Run(s, IdentContinue))   \* E107
ScanFraction(c, p) ==
  IF ScanDigits(p, 10, TRUE) THEN ScanExponent(c, DigitsEnd(p, 10), "FLOAT")
  ELSE Bad(c, Run(p, IdentContinue))

Base(p) == IF At(p) # "0" THEN 10
           ELSE CASE At(p + 1) \in {"x", "X"} -> 16 [] At(p + 1) \in {"o", "O"} -> 8
                  [] At(p + 1) \in {"b", "B"} -> 2 [] OTHER -> 10
ScanNumber(c) ==
  LET p == c.pos
      b == Base(p)
      q == IF b = 10 THEN p ELSE IF At(p + 2) = "_" THEN p + 3 ELSE p + 2
      r == DigitsEnd(q, b)
  IN  IF At(p) = "." THEN ScanFraction(c, p + 1)
      ELSE IF ~ScanDigits(q, b, b = 10) \/ r = q THEN Bad(c, Run(q, IdentContinue))
      ELSE IF b # 10 THEN Good("INT", c, r)
      ELSE IF At(r) # "." THEN ScanExponent(c, r, "INT")
      ELSE IF At(r + 1) \in Digit THEN ScanFraction(c, r + 1)
      ELSE Bad(c, r + 1)                   \* E108

HexDigits(p, k) == \A i \in p..(p + k - 1) : At(i) \in HexDigit
Surrogate(p)    == At(p) \in {"d", "D"} /\ At(p + 1) \notin Digit \ {"8", "9"}
\* The range of a \U is not checked.
ScanEscapeLongUnchecked(p) ==
  CASE At(p + 1) \in SimpleEscape -> 2
    [] At(p + 1) = "x" /\ HexDigits(p + 2, 2) -> 4
    [] At(p + 1) = "u" /\ HexDigits(p + 2, 4) /\ ~Surrogate(p + 2) -> 6
    [] At(p + 1) = "U" /\ HexDigits(p + 2, 8) -> 10
    [] OTHER -> 0
\* The length of the escape at p, 0 when it is malformed. \u and \U exclude the
\* surrogates and what lies past 10FFFF.
ScanEscape(p) ==
  CASE At(p + 1) \in SimpleEscape -> 2
    [] At(p + 1) = "x" /\ HexDigits(p + 2, 2) -> 4
    [] At(p + 1) = "u" /\ HexDigits(p + 2, 4) /\ ~Surrogate(p + 2) -> 6
    [] /\ At(p + 1) = "U" /\ HexDigits(p + 2, 8) /\ At(p + 2) = "0" /\ At(p + 3) = "0"
       /\ \/ At(p + 4) = "0" /\ ~(At(p + 5) = "0" /\ Surrogate(p + 6))
          \/ At(p + 4) = "1" /\ At(p + 5) = "0" -> 10
    [] OTHER -> 0

\* Where the body of a string that begins at `from` stops: at its quote, at a newline or the end,
\* at a malformed escape while they are checked, and in an f-string at a single brace.
Body(from, check, text) ==
  LET body[p \in Nat] ==
        CASE At(p) \in NewlineChar \cup {"EOF", Quote} -> p
          [] text /\ At(p) \in {"{", "}"} -> IF At(p + 1) = At(p) THEN body[p + 2] ELSE p
          [] check /\ At(p) = Backslash -> IF ScanEscape(p) > 0 THEN body[p + ScanEscape(p)] ELSE p
          [] OTHER -> body[p + 1]
  IN  body[from]

\* A second mistake in the same string is not reported, and no escape after the first is checked.
ScanString(c, type) ==
  LET b   == c.pos + (IF type = "BYTES" THEN 2 ELSE 1)
      s   == Body(b, TRUE, FALSE)
      e   == IF At(s) = Backslash THEN Body(s + 1, FALSE, FALSE) ELSE s
      end == IF At(e) = Quote THEN e + 1 ELSE e
  IN  IF s = e /\ At(e) = Quote THEN Good(type, c, end) ELSE Bad(c, end)   \* E106, E103

\* The newlines of a raw string are its own.
ScanRawStringQuiet(c) ==
  LET e == Until(c.pos + 1, {"BACKQUOTE"})
  IN  IF At(e) = "BACKQUOTE" THEN Found("RAW_STRING", c, Walk(c, e + 1), <<>>, "none")
      ELSE Found("INVALID", c, Walk(c, e), <<e>>, "none")
ScanRawString(c) ==
  LET e == Until(c.pos + 1, {"BACKQUOTE"})
      r == ReturnReports(c.pos, e)
  IN  IF At(e) = "BACKQUOTE" THEN Found("RAW_STRING", c, Walk(c, e + 1), r, "none")
      ELSE Found("INVALID", c, Walk(c, e), r \o <<e>>, "none")            \* E104

(******************************** scans of f-strings ***************************)

TooDeepEnd[p \in Nat] ==
  CASE At(p) \in NewlineChar \cup {"EOF"} -> p
    [] At(p) = Backslash /\ At(p + 1) \notin NewlineChar \cup {"EOF"} -> TooDeepEnd[p + 2]
    [] At(p) = Quote -> p + 1
    [] OTHER -> TooDeepEnd[p + 1]
ScanFstringStart(c) ==
  IF Len(frames) >= MaxFrames THEN Bad(c, TooDeepEnd[c.pos + 2])          \* E109
  ELSE Found("FSTRING_START", c, Advance(c, 2), <<>>, "push")

\* The format after the ':' at c: up to the brace that closes the interpolation.
Depth(b, e) == Cardinality({i \in b..(e - 1) : At(i) = "{"}) - Cardinality({i \in b..(e - 1) : At(i) = "}"})
FormatStops(b, e) == At(e) \in NewlineChar \cup {"EOF"} \/ (At(e) = "}" /\ Depth(b, e) = 0)
FormatEnd(b) == CHOOSE e \in b..Past : FormatStops(b, e) /\ \A r \in b..(e - 1) : ~FormatStops(b, r)
ScanFstringFormat(c) ==
  LET b == Advance(c, 1)
      e == FormatEnd(b.pos)
      d == Advance(b, e - b.pos)
  IN  IF At(e) = "}" THEN Found("FSTRING_FORMAT", b, d, <<>>, "none")
      ELSE Found("INVALID", b, d, <<e>>, "pop")                           \* E110

\* A segment, or the brace or quote that stands at its start.
ScanFstringText(c) ==
  LET p   == c.pos
      s   == Body(p, TRUE, TRUE)
      bad == At(s) = Backslash
      e   == IF bad THEN Body(s + 1, FALSE, TRUE) ELSE s
      d   == Advance(c, e - p)
      one == Advance(c, 1)
  IN  CASE At(e) \in NewlineChar \cup {"EOF"} ->
             Found("INVALID", c, d, <<IF bad THEN s ELSE e>>, "pop")      \* E106 or E103
        [] e > p /\ At(e) \notin NewlineChar \cup {"EOF"} ->
             Found(IF bad THEN "INVALID" ELSE "STRING", c, d, IF bad THEN <<s>> ELSE <<>>, "none")
        [] e = p /\ At(p) = Quote -> Found("FSTRING_END", c, one, <<>>, "pop")
        [] e = p /\ At(p) = "{" -> Found("{", c, one, <<>>, "open")
        [] OTHER -> Found("INVALID", c, one, <<p + 1>>, "none")           \* E111

(****************************** scans of the rest ******************************)

\* The keywords the texts spell, for the 37 of msLexerKeywords: one ends a statement, one does not.
Keyword(word) == CASE word = <<"n", "i", "l">> -> "KW_NIL" [] word = <<"i", "f">> -> "KW_IF"
                   [] OTHER -> "IDENTIFIER"
IdentEnd[p \in Nat] == CASE At(p) \in IdentContinue -> IdentEnd[p + 1]
                         [] Utf8Length(p) > 0 -> IdentEnd[p + Utf8Length(p)]
                         [] OTHER -> p
ScanIdentifier(c) == LET e == IdentEnd[c.pos] IN Good(Keyword(SubSeq(source, c.pos, e - 1)), c, e)

\* Maximal munch.
OperatorLength(p) ==
  CASE At(p) \in {"*", "<", ">"} /\ At(p + 1) = At(p) -> IF At(p + 2) = "=" THEN 3 ELSE 2
    [] At(p) \in {"+", "-"} /\ At(p + 1) = At(p) -> 2
    [] At(p) = "." /\ At(p + 1) = "." /\ At(p + 2) = "." -> 3
    [] /\ At(p) \in {"+", "-", "*", "/", "%", "=", "!", "<", ">", "&", "|", "^", ":"}
       /\ At(p + 1) = "=" -> 2
    [] OTHER -> 1
IsOperator(p) == \/ At(p) \in {"*", "/", "%", "=", "<", ">", "&", "|", "^", "~", ":", ".", ","}
                 \/ At(p) \in {"+", "-"} /\ At(p + 1) # At(p)
                 \/ At(p) = "!" /\ At(p + 1) = "="

InFrame == frames # <<>>
Top == frames[Len(frames)]
\* At the outermost level of an interpolation a ':' opens the format.
OpensFormat(p) == At(p) = ":" /\ At(p + 1) # "=" /\ InFrame /\ Top.brace = 1 /\ Top.bracket = 0
ScanOperator(c) ==
  LET p == c.pos
      e == p + OperatorLength(p)
      q == Advance(c, 1)
  IN  CASE OpensFormat(p) -> ScanFstringFormat(c)
        [] At(p) \in {"(", "[", "{", ")", "]"} -> Found(At(p), c, q, <<>>, At(p))
        [] At(p) = "}" -> IF InFrame \/ blockBraceDepth > 0 THEN Found("}", c, q, <<>>, "}")
                          ELSE Bad(c, e)                                  \* E111
        [] At(p) = ";" -> Good("SEMICOLON", c, e)
        [] At(p) \in {"+", "-"} /\ At(p + 1) = At(p) -> Good("STEP", c, e)   \* ++ and --
        [] ~OpensFormat(p) /\ IsOperator(p) -> Good("OPERATOR", c, e)
        [] OTHER -> Bad(c, e)                                             \* E102

(******************************* msLexerScan **********************************)

\* The frame left open is reported and stays.
ScanAtEndNoPop(c) ==
  CASE InFrame -> Found("INVALID", c, c, <<c.pos>>, "none")
    [] ~InFrame /\ canEndStatement -> Found("SEMICOLON", c, c, <<>>, "none")
    [] OTHER -> Found("EOF", c, c, <<>>, "none")
ScanAtEnd(c) ==
  CASE InFrame -> Found("INVALID", c, c, <<c.pos>>, "pop")                \* E110
    [] ~InFrame /\ canEndStatement -> Found("SEMICOLON", c, c, <<>>, "none")
    [] OTHER -> Found("EOF", c, c, <<>>, "none")

ScanToken(c) ==
  LET p == c.pos
  IN  CASE p = Past -> ScanAtEnd(c)
        [] At(p) \in HighByte /\ Utf8Length(p) = 0 -> Bad(c, p + 1)       \* E102
        [] At(p) = Quote -> ScanString(c, "STRING")
        [] At(p) = "BACKQUOTE" -> ScanRawString(c)
        [] At(p) = "f" /\ At(p + 1) = Quote -> ScanFstringStart(c)
        [] At(p) = "b" /\ At(p + 1) = Quote -> ScanString(c, "BYTES")
        [] At(p) \in IdentStart /\ ~(At(p) \in {"f", "b"} /\ At(p + 1) = Quote) -> ScanIdentifier(c)
        [] At(p) \in HighByte /\ Utf8Length(p) > 0 -> ScanIdentifier(c)
        [] At(p) \in Digit \/ (At(p) = "." /\ At(p + 1) \in Digit) -> ScanNumber(c)
        [] OTHER -> ScanOperator(c)

\* The semicolon a newline stands for has no bytes; the trivia is behind it all the same.
AutoSemicolon ==
  LET at == Walk(cursor, Until(cursor.pos, NewlineChar))
  IN  [Found("SEMICOLON", at, Walk(cursor, TriviaEnd), <<>>, "none") EXCEPT !.end = at.pos]
Scan ==
  IF mode = "TEXT" THEN ScanFstringText(cursor)
  ELSE IF NewlineSeen /\ canEndStatement THEN AutoSemicolon
  ELSE ScanToken(Walk(cursor, TriviaEnd))
Reports(s) == IF mode = "TEXT" THEN s.errs ELSE TriviaReports \o s.errs

(********************************** the steps *********************************)

None == [type |-> "none"]
Token(type, from, end) ==
  [type |-> type, start |-> from.pos, end |-> end, line |-> from.line, col |-> from.col,
   text |-> mode = "TEXT"]   \* text: which mode scanned it, for the properties
Enders == {"IDENTIFIER", "INT", "FLOAT", "STRING", "RAW_STRING", "BYTES", "FSTRING_END", "KW_NIL",
           ")", "]", "}", "STEP"}
TokenEndsStatementNoFstring(type) == type \in Enders \ {"FSTRING_END"}
TokenEndsStatement(type) == type \in Enders

Ended == handed # <<>> /\ handed[Len(handed)].type = "EOF"   \* the parser asks no more
\* msLexerNext hands the token out, msLexerPeek keeps it.
Deliver(t) == \/ handed' = Append(handed, t) /\ peeked' = None
              \/ peeked' = t /\ UNCHANGED handed

\* The scan finds a token and the list has room for what it reports.
Scanned(s) ==
  /\ diags + Len(Reports(s)) <= MaxDiags
  /\ diags' = diags + Len(Reports(s))
  /\ cursor' = s.to
  /\ canEndStatement' = (TokenEndsStatement(s.type) /\ ~(mode = "TEXT" /\ s.type = "STRING"))
  /\ Deliver(Token(s.type, s.from, s.end))
  /\ UNCHANGED <<source, theirs, hitDiagCap>>

SetTop(f) == frames' = [frames EXCEPT ![Len(frames)] = f]

Plain(s) == s.does = "none" /\ Scanned(s) /\ UNCHANGED <<mode, frames, blockBraceDepth>>
PushFrame(s) ==
  /\ s.does = "push" /\ Scanned(s)
  /\ frames' = Append(frames, [brace |-> 0, bracket |-> 0]) /\ mode' = "TEXT"
  /\ UNCHANGED blockBraceDepth
\* The mode of the f-string that ended stays.
PopFstringFrameInText(s) ==
  /\ s.does = "pop" /\ Scanned(s)
  /\ frames' = SubSeq(frames, 1, Len(frames) - 1)
  /\ UNCHANGED <<mode, blockBraceDepth>>
PopFstringFrame(s) ==
  /\ s.does = "pop" /\ Scanned(s)
  /\ frames' = SubSeq(frames, 1, Len(frames) - 1) /\ mode' = "NORMAL"
  /\ UNCHANGED blockBraceDepth
OpenInterpolation(s) ==
  /\ s.does = "open" /\ Scanned(s)
  /\ SetTop([Top EXCEPT !.brace = 1]) /\ mode' = "NORMAL"
  /\ UNCHANGED blockBraceDepth
OpenBracket(s) ==
  /\ s.does \in {"(", "["} /\ Scanned(s)
  /\ IF InFrame THEN SetTop([Top EXCEPT !.bracket = @ + 1]) ELSE UNCHANGED frames
  /\ UNCHANGED <<mode, blockBraceDepth>>
CloseBracket(s) ==
  /\ s.does \in {")", "]"} /\ Scanned(s)
  /\ IF InFrame /\ Top.bracket > 0 THEN SetTop([Top EXCEPT !.bracket = @ - 1]) ELSE UNCHANGED frames
  /\ UNCHANGED <<mode, blockBraceDepth>>
OpenBrace(s) ==
  /\ s.does = "{" /\ Scanned(s)
  /\ IF InFrame THEN SetTop([Top EXCEPT !.brace = @ + 1]) /\ UNCHANGED blockBraceDepth
     ELSE blockBraceDepth' = blockBraceDepth + 1 /\ UNCHANGED frames
  /\ UNCHANGED mode
CloseBrace(s) ==
  /\ s.does = "}" /\ Scanned(s)
  /\ IF InFrame THEN /\ SetTop([Top EXCEPT !.brace = @ - 1])
                     /\ mode' = IF Top.brace = 1 THEN "TEXT" ELSE mode
                     /\ UNCHANGED blockBraceDepth
     ELSE blockBraceDepth' = blockBraceDepth - 1 /\ UNCHANGED <<frames, mode>>

\* A report finds the list full: EOF from here on, so what the scan did to the frames is past use.
HitDiagCap(s) ==
  /\ diags + Len(Reports(s)) > MaxDiags
  /\ \E d \in {Walk(cursor, Reports(s)[MaxDiags - diags + 1])} : cursor' = d /\ Deliver(Token("EOF", d, d.pos))
  /\ diags' = MaxDiags /\ hitDiagCap' = TRUE /\ canEndStatement' = FALSE
  /\ UNCHANGED <<source, mode, frames, blockBraceDepth, theirs>>
HandPeeked ==
  /\ ~Ended /\ peeked # None
  /\ handed' = Append(handed, peeked) /\ peeked' = None
  /\ UNCHANGED <<source, cursor, canEndStatement, mode, frames, blockBraceDepth, diags, theirs, hitDiagCap>>

ScanNext ==
  /\ ~Ended /\ peeked = None /\ ~hitDiagCap
  /\ \E s \in {Scan} : \/ Plain(s) \/ PushFrame(s) \/ PopFstringFrame(s) \/ OpenInterpolation(s)
                       \/ OpenBracket(s) \/ CloseBracket(s) \/ OpenBrace(s) \/ CloseBrace(s)
                       \/ HitDiagCap(s)
Step == ScanNext \/ HandPeeked

\* The parser reports an error of its own into the same list.
ParserReports == /\ Len(source) <= SharedLength /\ ~Ended /\ handed # <<>> /\ diags < MaxDiags
                 /\ diags' = diags + 1 /\ theirs' = theirs + 1
                 /\ UNCHANGED <<source, cursor, canEndStatement, mode, frames, blockBraceDepth,
                                hitDiagCap, peeked, handed>>

HasBom == Len(source) >= 3 /\ At(1) = "EF" /\ At(2) = "BB" /\ At(3) = "BF"
Init ==
  /\ source \in Sources
  /\ cursor = IF HasBom THEN [pos |-> 4, line |-> 1, col |-> 4] ELSE [pos |-> 1, line |-> 1, col |-> 1]
  /\ diags = IF HasBom THEN 1 ELSE 0
  /\ canEndStatement = FALSE /\ mode = "NORMAL" /\ frames = <<>> /\ blockBraceDepth = 0
  /\ theirs = 0 /\ hitDiagCap = FALSE /\ peeked = None /\ handed = <<>>
Next == Step \/ ParserReports
Spec == Init /\ [][Next]_vars /\ WF_vars(Step)   \* the parser asks until it is given EOF

(******************************** properties **********************************)

Tokens == IF peeked = None THEN handed ELSE Append(handed, peeked)
K      == Len(Tokens)
Newest == Tokens[K]
EndOf(k) == IF k = 0 THEN (IF HasBom THEN 4 ELSE 1) ELSE Tokens[k].end

\* The mode says what the top f-string is in the middle of, and every f-string below it is
\* inside an interpolation: a '}' always has a brace to close (the assertion in
\* msLexerScanOperator) and a pop never resumes an interrupted text (msLexerPopFstringFrame).
FramesPaired ==
  /\ Len(frames) <= MaxFrames
  /\ \A i \in 1..(Len(frames) - 1) : frames[i].brace >= 1
  /\ mode = "TEXT" => InFrame /\ Top.brace = 0
  /\ mode = "NORMAL" /\ InFrame => Top.brace >= 1
  /\ blockBraceDepth >= 0

\* The line and column of a token are those of its first byte, whatever newlines (LF, CRLF,
\* a bare CR) the trivia and raw strings before it hold.
LineBreaks(p) == {i \in 1..(p - 1) : At(i) = "\n" \/ BareReturn(i)}
PositionExact ==
  K > 0 => LET breaks == LineBreaks(Newest.start)
           IN  /\ Newest.line = 1 + Cardinality(breaks)
               /\ \/ breaks = {} /\ Newest.col = Newest.start
                  \/ \E b \in breaks : /\ Newest.col = Newest.start - b
                                       /\ \A c \in breaks : c <= b

\* No byte is lost or read twice: between two tokens stand only whole comments, blanks and the
\* ':' of a format, nothing at all inside the text of an f-string, no token begins with a comment, and
\* EOF comes at the end with every f-string closed.
OpensComment(c) == At(c) = "/" /\ At(c + 1) \in {"/", "*"}
\* What stands from c to d is one blank, or one comment with what closes it.
Piece(c, d) ==
  \/ d = c + 1 /\ At(c) \in Blank
  \/ /\ At(c) = "/" /\ At(c + 1) = "/" /\ (d = Past \/ At(d) \in NewlineChar)
     /\ \A r \in c..(d - 1) : At(r) \notin NewlineChar
  \/ /\ At(c) = "/" /\ At(c + 1) = "*"
     /\ \/ d = Past /\ \A r \in (c + 2)..Past : ~Closes(r)
        \/ d >= c + 4 /\ Closes(d - 2) /\ \A r \in (c + 2)..(d - 3) : ~Closes(r)
TriviaOnly(a, b) ==
  \E cuts \in SUBSET (a..b) :
    /\ {a, b} \subseteq cuts
    /\ \A c \in cuts \ {b} : \E d \in cuts : c < d /\ Piece(c, d) /\ \A e \in cuts : e <= c \/ d <= e
Inserted(t) == t.type = "SEMICOLON" /\ t.start = t.end
\* Where the trivia before the newest token begins: an inserted semicolon stands in the midst of it.
Behind == IF K > 1 /\ Inserted(Tokens[K - 1]) THEN EndOf(K - 2) ELSE EndOf(K - 1)
OpensTheFormat(i) == At(i) = ":" /\ Newest.type \in {"FSTRING_FORMAT", "INVALID"}
BytesAccounted ==
  K > 0 /\ ~hitDiagCap =>
    /\ EndOf(K - 1) <= Newest.start /\ Newest.start <= Newest.end /\ Newest.end <= Past
    /\ \/ Newest.text /\ Newest.start = EndOf(K - 1)
       \/ ~Newest.text /\ Inserted(Newest) /\ \E b \in Newest.start..Past : TriviaOnly(Behind, b)
       \/ ~Newest.text /\ ~Inserted(Newest) /\ TriviaOnly(Behind, Newest.start)
       \/ /\ ~Newest.text /\ OpensTheFormat(Newest.start - 1)
          /\ Behind < Newest.start /\ TriviaOnly(Behind, Newest.start - 1)
    /\ ~Newest.text /\ Newest.start < Newest.end /\ Newest.type \notin {"FSTRING_FORMAT", "INVALID"}
         => At(Newest.start) \notin Blank /\ ~OpensComment(Newest.start)
    /\ Newest.type = "EOF" => Newest.start = Past /\ ~InFrame

\* A semicolon is inserted where a newline or the end follows a token that ends a statement
\* (docs/language/01-lexical.md, section 7), once for each such place and nowhere else.
DocumentedEnders == {"IDENTIFIER", "INT", "FLOAT", "STRING", "RAW_STRING", "BYTES", "FSTRING_END",
                     "KW_NIL", ")", "]", "}", "STEP"}
EndsStatement(t) == t.type \in DocumentedEnders /\ ~(t.type = "STRING" /\ t.text)
SemicolonExact ==
  /\ K > 0 /\ Inserted(Newest) =>
       /\ K > 1 /\ EndsStatement(Tokens[K - 1])
       /\ Newest.start = Past \/ At(Newest.start) \in NewlineChar
  /\ K > 1 /\ ~Inserted(Newest) /\ EndsStatement(Tokens[K - 1]) /\ ~hitDiagCap =>
       /\ Newest.type # "EOF"
       /\ \A i \in Tokens[K - 1].end..(Newest.start - 1) : At(i) \notin NewlineChar

HexValue == [d \in HexDigit |-> LET order == <<{"0"}, {"1"}, {"2"}, {"3"}, {"4"}, {"5"}, {"6"}, {"7"}, {"8"},
                                                {"9"}, {"a", "A"}, {"b", "B"}, {"c", "C"}, {"d", "D"},
                                                {"e", "E"}, {"f", "F"}>>
                                 IN  (CHOOSE i \in 1..16 : d \in order[i]) - 1]
Hex4(p) == 4096 * HexValue[At(p)] + 256 * HexValue[At(p + 1)] + 16 * HexValue[At(p + 2)] + HexValue[At(p + 3)]
\* The code point high * 2^16 + low has an encoding.
EncodesUtf8(high, low) == high <= 16 /\ ~(high = 0 /\ low \in 55296..57343)
\* How many bytes the decoder takes at p, 0 when one of its assertions fails.
DecodeEscape(p) ==
  CASE At(p + 1) \in SimpleEscape -> 2
    [] At(p + 1) = "x" -> IF HexDigits(p + 2, 2) THEN 4 ELSE 0
    [] At(p + 1) = "u" -> IF HexDigits(p + 2, 4) /\ EncodesUtf8(0, Hex4(p + 2)) THEN 6 ELSE 0
    [] At(p + 1) = "U" -> IF HexDigits(p + 2, 8) /\ EncodesUtf8(Hex4(p + 2), Hex4(p + 6)) THEN 10 ELSE 0
    [] OTHER -> 0
\* Where the decoder of the text from `from` to e stops: at e, unless an assertion of it fails.
UnescapeImpl(from, e, braces) ==
  LET decoded[p \in Nat] ==
        CASE p >= e -> p
          [] p < e /\ At(p) = Backslash -> IF DecodeEscape(p) > 0 THEN decoded[p + DecodeEscape(p)] ELSE p
          [] p < e /\ braces /\ At(p) \in {"{", "}"} -> IF At(p + 1) = At(p) THEN decoded[p + 2] ELSE p
          [] OTHER -> decoded[p + 1]
  IN  decoded[from]
Digits(s) == s # <<>> /\ \A i \in 1..Len(s) : s[i] \in Digit
ParseInt(s) ==
  IF Len(s) > 1 /\ s[1] = "0" /\ s[2] \in {"x", "X", "o", "O", "b", "B"}
  THEN LET base == CASE s[2] \in {"x", "X"} -> 16 [] s[2] \in {"o", "O"} -> 8 [] OTHER -> 2
       IN  Len(s) > 2 /\ \A i \in 3..Len(s) : s[i] \in BaseDigits(base)
  ELSE Digits(s)
\* A mantissa of m bytes, and nothing or an exponent whose digits begin at d.
ParseFloat(s) ==
  \E m \in 1..Len(s) :
    /\ \A i \in 1..m : s[i] \in Digit \cup {"."}
    /\ \E i \in 1..m : s[i] \in Digit
    /\ \A i, j \in 1..m : s[i] = "." /\ s[j] = "." => i = j
    /\ \/ m = Len(s)
       \/ /\ s[m + 1] \in {"e", "E"}
          /\ \E d \in {m + 2, m + 3} : /\ d <= Len(s) /\ \A i \in d..Len(s) : s[i] \in Digit
                                       /\ d = m + 3 => s[m + 2] \in {"+", "-"}
CleanNumber(t) == LET kept == {i \in t.start..(t.end - 1) : At(i) # "_"}
                  IN  [k \in 1..Cardinality(kept) |-> At(Kth(kept, k))]
Decodes(t) == CASE t.type = "STRING" /\ t.text -> UnescapeImpl(t.start, t.end, TRUE) = t.end
                [] t.type = "STRING" /\ ~t.text -> UnescapeImpl(t.start + 1, t.end - 1, FALSE) = t.end - 1
                [] t.type = "BYTES" -> UnescapeImpl(t.start + 2, t.end - 1, FALSE) = t.end - 1
                [] t.type = "INT" -> ParseInt(CleanNumber(t))
                [] t.type = "FLOAT" -> ParseFloat(CleanNumber(t))
                [] OTHER -> TRUE
\* What the decoder of a literal asserts (msLexerUnescapeImpl) and what the compiler's
\* conversion of a number needs (msCompilerParseInt, msCompilerParseFloat) holds of every
\* literal token: a number is refused for its size and for nothing else.
Decodable == K > 0 => Decodes(Newest)

\* Every mistake is reported once: one diagnostic for each INVALID token, bare carriage
\* return, unclosed comment and byte order mark, and none without one.
UnclosedBefore(k) == /\ ~Tokens[k].text /\ SkipTrivia[EndOf(k - 1)] > Past
                     /\ ~(k > 1 /\ Inserted(Tokens[k - 1]))
DiagnosedOnce ==
  ~hitDiagCap =>
    diags - theirs = Cardinality({k \in 1..K : Tokens[k].type = "INVALID"})
                       + Cardinality({i \in 1..(cursor.pos - 1) : BareReturn(i)})
                       + Cardinality({k \in 1..K : UnclosedBefore(k)})
                       + (IF HasBom THEN 1 ELSE 0)

\* What the parser is promised, as the abstract stream of MsTokenStream: tokens in the order
\* of the text, a bounded number of empty ones in a row, one EOF, and it comes. Reading
\* ahead (msLexerPeek) changes nothing of it.
Stream == INSTANCE MsTokenStream
            WITH limit <- Past, MaxEmpty <- MaxFrames + 1,
                 given <- [k \in 1..Len(handed) |-> [start |-> handed[k].start, end |-> handed[k].end,
                                                     last  |-> handed[k].type = "EOF"]]
StreamPromise == Stream!Promise
=============================================================================
