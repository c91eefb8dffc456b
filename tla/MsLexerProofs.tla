--------------------------- MODULE MsLexerProofs ---------------------------
(* For every text, however deep its f-strings nest and however often it is    *)
(* read ahead: the f-strings the lexer has open fit its mode, a token tells   *)
(* where it stands, no byte is lost, a semicolon is inserted where one is     *)
(* due, a mistake is reported once, the caller gets the stream of tokens it   *)
(* was promised, and every literal can be decoded.                            *)
EXTENDS MsLexer, MsInduction, SequenceTheorems, TLAPS

(******************************** the f-strings *******************************)

Frame == [brace : Nat, bracket : Nat]
FrameTypes == frames \in Seq(Frame) /\ mode \in {"NORMAL", "TEXT"} /\ blockBraceDepth \in Nat
FramesInv == FrameTypes /\ FramesPaired

\* What a scan asks of the frames is possible in the mode it is made in.
TextOrder(s)   == s.does \in {"none", "pop", "open"}
NormalOrder(s) == /\ s.does \in {"none", "push", "pop", "(", "[", "{", ")", "]", "}"}
                  /\ s.does = "push" => Len(frames) < MaxFrames
                  /\ s.does = "pop" => InFrame
                  /\ s.does = "}" => InFrame \/ blockBraceDepth > 0

LEMMA FoundDoes ==
  ASSUME NEW type, NEW from, NEW to, NEW errs, NEW does
  PROVE  Found(type, from, to, errs, does).does = does
BY DEF Found

LEMMA GoodDoes == ASSUME NEW type, NEW c, NEW q PROVE Good(type, c, q).does = "none"
BY DEF Good, Found

LEMMA BadDoes == ASSUME NEW c, NEW q PROVE Bad(c, q).does = "none"
BY DEF Bad, Found

\* A text segment opens an interpolation, ends its f-string, or leaves the frames alone.
LEMMA TextDoes == ASSUME NEW c PROVE TextOrder(ScanFstringText(c))
BY DEF ScanFstringText, TextOrder, Found

LEMMA ExponentDoes ==
  ASSUME NEW c, NEW r, NEW type PROVE ScanExponent(c, r, type).does = "none"
BY GoodDoes, BadDoes DEF ScanExponent

LEMMA NumberDoes == ASSUME NEW c PROVE ScanNumber(c).does = "none"
BY DEF ScanNumber, ScanFraction, ScanExponent, Good, Bad, Found

LEMMA StringDoes == ASSUME NEW c, NEW type PROVE ScanString(c, type).does = "none"
BY GoodDoes, BadDoes DEF ScanString

LEMMA RawStringDoes == ASSUME NEW c PROVE ScanRawString(c).does = "none"
BY FoundDoes DEF ScanRawString

LEMMA IdentifierDoes == ASSUME NEW c PROVE ScanIdentifier(c).does = "none"
BY GoodDoes DEF ScanIdentifier

LEMMA FstringStartDoes ==
  ASSUME frames \in Seq(Frame), NEW c
  PROVE  NormalOrder(ScanFstringStart(c))
<1>1. CASE Len(frames) >= MaxFrames
  <2>1. ScanFstringStart(c).does = "none"
    BY <1>1, BadDoes DEF ScanFstringStart
  <2> QED BY <2>1 DEF NormalOrder
<1>2. CASE ~(Len(frames) >= MaxFrames)
  <2>1. ScanFstringStart(c).does = "push"
    BY <1>2, FoundDoes DEF ScanFstringStart
  <2>2. Len(frames) < MaxFrames
    BY <1>2, LexerAssumption
  <2> QED BY <2>1, <2>2 DEF NormalOrder
<1> QED BY <1>1, <1>2

LEMMA OperatorDoes == ASSUME NEW c PROVE NormalOrder(ScanOperator(c))
<1>1. CASE OpensFormat(c.pos)
  <2>1. InFrame
    BY <1>1 DEF OpensFormat
  <2>2. ScanFstringFormat(c).does \in {"none", "pop"}
    BY DEF ScanFstringFormat, Found
  <2>3. ScanOperator(c) = ScanFstringFormat(c)
    BY <1>1 DEF ScanOperator, OpensFormat
  <2> QED BY <2>1, <2>2, <2>3 DEF NormalOrder
<1>2. CASE ~OpensFormat(c.pos)
  <2>1. CASE At(c.pos) \in {"(", "[", "{", ")", "]"}
    <3>1. ScanOperator(c).does = At(c.pos)
      BY <1>2, <2>1 DEF ScanOperator, Found, IsOperator
    <3> QED BY <2>1, <3>1 DEF NormalOrder
  <2>2. CASE At(c.pos) = "}"
    <3>1. ScanOperator(c).does = IF InFrame \/ blockBraceDepth > 0 THEN "}" ELSE "none"
      BY <1>2, <2>2 DEF ScanOperator, Found, Bad, IsOperator
    <3> QED BY <3>1 DEF NormalOrder
  <2>3. CASE At(c.pos) \notin {"(", "[", "{", ")", "]", "}"}
    <3>1. ScanOperator(c).does = "none"
      BY <1>2, <2>3, GoodDoes, BadDoes DEF ScanOperator
    <3> QED BY <3>1 DEF NormalOrder
  <2> QED BY <2>1, <2>2, <2>3
<1> QED BY <1>1, <1>2

LEMMA AtEndDoes == ASSUME NEW c PROVE NormalOrder(ScanAtEnd(c))
<1>1. CASE InFrame
  BY <1>1 DEF ScanAtEnd, Found, NormalOrder
<1>2. CASE ~InFrame
  BY <1>2 DEF ScanAtEnd, Found, NormalOrder
<1> QED BY <1>1, <1>2

\* In plain code the scan that msLexerScan dispatches to fits the frames.
LEMMA TokenDoes ==
  ASSUME frames \in Seq(Frame), NEW c
  PROVE  NormalOrder(ScanToken(c))
<1> DEFINE none(r) == r.does = "none"
<1>1. /\ none(ScanString(c, "STRING")) /\ none(ScanString(c, "BYTES")) /\ none(ScanRawString(c))
      /\ none(ScanIdentifier(c)) /\ none(ScanNumber(c)) /\ none(Bad(c, c.pos + 1))
  BY StringDoes, RawStringDoes, IdentifierDoes, NumberDoes, BadDoes
<1>2. /\ NormalOrder(ScanString(c, "STRING")) /\ NormalOrder(ScanString(c, "BYTES"))
      /\ NormalOrder(ScanRawString(c)) /\ NormalOrder(ScanIdentifier(c)) /\ NormalOrder(ScanNumber(c))
      /\ NormalOrder(Bad(c, c.pos + 1))
  BY <1>1 DEF NormalOrder
<1>3. ScanToken(c) \in {ScanAtEnd(c), Bad(c, c.pos + 1), ScanString(c, "STRING"), ScanString(c, "BYTES"),
                        ScanRawString(c), ScanFstringStart(c), ScanIdentifier(c), ScanNumber(c),
                        ScanOperator(c)}
  BY DEF ScanToken
<1> QED BY <1>2, <1>3, AtEndDoes, FstringStartDoes, OperatorDoes

LEMMA ScanDoes ==
  ASSUME frames \in Seq(Frame), mode \in {"NORMAL", "TEXT"}
  PROVE  /\ mode = "TEXT" => TextOrder(Scan)
         /\ mode = "NORMAL" => NormalOrder(Scan)
<1>1. AutoSemicolon.does = "none"
  BY DEF AutoSemicolon, Found
<1>2. CASE mode = "TEXT"
  BY <1>2, TextDoes DEF Scan
<1>3. CASE mode = "NORMAL"
  <2>1. Scan = AutoSemicolon \/ Scan = ScanToken(Walk(cursor, TriviaEnd))
    BY <1>3 DEF Scan
  <2>2. NormalOrder(AutoSemicolon)
    BY <1>1 DEF NormalOrder
  <2> QED BY <1>3, <2>1, <2>2, TokenDoes
<1> QED BY <1>2, <1>3

(******************************* the invariant ********************************)

LEMMA InitFrames == Init => FramesInv
<1> SUFFICES ASSUME Init PROVE FramesInv
  OBVIOUS
<1>1. frames = <<>> /\ mode = "NORMAL" /\ blockBraceDepth = 0 /\ Len(frames) = 0
  BY DEF Init
<1> QED BY <1>1, LexerAssumption DEF FramesInv, FrameTypes, FramesPaired, InFrame

\* An f-string begins in plain code or inside an interpolation of the one below it.
LEMMA PushKeeps ==
  ASSUME FramesInv, NEW s, PushFrame(s), mode = "NORMAL", Len(frames) < MaxFrames
  PROVE  FramesInv'
<1>1. /\ frames' = Append(frames, [brace |-> 0, bracket |-> 0])
      /\ mode' = "TEXT" /\ blockBraceDepth' = blockBraceDepth
  BY DEF PushFrame
<1>2. frames \in Seq(Frame) /\ [brace |-> 0, bracket |-> 0] \in Frame
  BY DEF FramesInv, FrameTypes, Frame
<1>3. /\ frames' \in Seq(Frame) /\ Len(frames') = Len(frames) + 1 /\ Len(frames) \in Nat
      /\ \A i \in 1..Len(frames) : frames'[i] = frames[i]
      /\ frames'[Len(frames) + 1] = [brace |-> 0, bracket |-> 0]
  BY <1>1, <1>2
<1>4. \A i \in 1..Len(frames) : frames[i].brace >= 1
  BY <1>3 DEF FramesInv, FrameTypes, FramesPaired, InFrame, Top
<1>5. frames' # <<>> /\ frames'[Len(frames')].brace = 0
  BY <1>3
<1> QED BY <1>1, <1>3, <1>4, <1>5, LexerAssumption DEF FramesInv, FrameTypes, FramesPaired, InFrame, Top

\* What is under a popped frame is inside an interpolation, so plain code resumes.
LEMMA PopKeeps ==
  ASSUME FramesInv, NEW s, PopFstringFrame(s), InFrame
  PROVE  FramesInv'
<1>1. /\ frames' = SubSeq(frames, 1, Len(frames) - 1)
      /\ mode' = "NORMAL" /\ blockBraceDepth' = blockBraceDepth
  BY DEF PopFstringFrame
<1>2. frames \in Seq(Frame) /\ Len(frames) \in Nat \ {0}
  BY DEF FramesInv, FrameTypes, InFrame
<1>3. /\ frames' \in Seq(Frame) /\ Len(frames') = Len(frames) - 1
      /\ \A i \in 1..(Len(frames) - 1) : frames'[i] = frames[i]
  <2> DEFINE g == SubSeq(frames, 1, Len(frames) - 1)
  <2>1. 1 \in Int /\ Len(frames) - 1 \in Int /\ \A i \in 1..(Len(frames) - 1) : frames[i] \in Frame
    BY <1>2, ElementOfSeq
  <2>2. /\ g \in Seq(Frame)
        /\ Len(g) = IF 1 <= Len(frames) - 1 THEN Len(frames) - 1 - 1 + 1 ELSE 0
        /\ \A i \in 1..(Len(frames) - 1 - 1 + 1) : g[i] = frames[1 + i - 1]
    BY <2>1, SubSeqProperties
  <2>3. frames' = g
    BY <1>1
  <2> HIDE DEF g
  <2> QED BY <1>2, <2>2, <2>3
<1>4. \A i \in 1..Len(frames') : frames'[i].brace >= 1
  BY <1>3 DEF FramesInv, FramesPaired
<1> QED BY <1>1, <1>2, <1>3, <1>4, LexerAssumption DEF FramesInv, FrameTypes, FramesPaired, InFrame, Top

\* A step that only changes the top frame f, and leaves it fit for the mode.
LEMMA TopKeeps ==
  ASSUME FramesInv, InFrame, NEW f \in Frame, SetTop(f),
         mode' \in {"NORMAL", "TEXT"}, blockBraceDepth' = blockBraceDepth,
         mode' = "TEXT" => f.brace = 0, mode' = "NORMAL" => f.brace >= 1
  PROVE  FramesInv'
<1>1. frames' = [frames EXCEPT ![Len(frames)] = f]
  BY DEF SetTop
<1>2. frames \in Seq(Frame) /\ Len(frames) \in Nat \ {0}
  BY DEF FramesInv, FrameTypes, InFrame
<1>3. /\ frames' \in Seq(Frame) /\ Len(frames') = Len(frames) /\ frames'[Len(frames)] = f
      /\ \A i \in 1..(Len(frames) - 1) : frames'[i] = frames[i]
  <2> DEFINE g == [frames EXCEPT ![Len(frames)] = f]
  <2>1. Len(frames) \in 1..Len(frames)
    BY <1>2
  <2>2. /\ g \in Seq(Frame) /\ Len(g) = Len(frames)
        /\ \A j \in 1..Len(frames) : g[j] = IF j = Len(frames) THEN f ELSE frames[j]
    BY <1>2, <2>1, ExceptSeq
  <2>3. frames' = g
    BY <1>1
  <2> HIDE DEF g
  <2> QED BY <1>2, <2>1, <2>2, <2>3
<1> QED BY <1>2, <1>3 DEF FramesInv, FrameTypes, FramesPaired, InFrame, Top

LEMMA TopTypes ==
  ASSUME FramesInv, InFrame
  PROVE  Top \in Frame /\ Top.brace \in Nat /\ Top.bracket \in Nat
<1>1. frames \in Seq(Frame) /\ Len(frames) \in Nat \ {0}
  BY DEF FramesInv, FrameTypes, InFrame
<1>2. Top \in Frame
  BY <1>1, ElementOfSeq DEF Top
<1> QED BY <1>2 DEF Frame

LEMMA SameKeeps ==
  ASSUME FramesInv, UNCHANGED <<frames, mode>>, blockBraceDepth' \in Nat
  PROVE  FramesInv'
BY DEF FramesInv, FrameTypes, FramesPaired, InFrame, Top

LEMMA ScanKeeps ==
  ASSUME FramesInv, NEW s, mode = "TEXT" => TextOrder(s), mode = "NORMAL" => NormalOrder(s),
         \/ Plain(s) \/ PushFrame(s) \/ PopFstringFrame(s) \/ OpenInterpolation(s)
         \/ OpenBracket(s) \/ CloseBracket(s) \/ OpenBrace(s) \/ CloseBrace(s) \/ HitDiagCap(s)
  PROVE  FramesInv'
<1>0. mode \in {"NORMAL", "TEXT"} /\ blockBraceDepth \in Nat
  BY DEF FramesInv, FrameTypes
<1>1. CASE Plain(s)
  BY <1>0, <1>1, SameKeeps DEF Plain
<1>2. CASE PushFrame(s)
  <2>1. mode = "NORMAL" /\ Len(frames) < MaxFrames
    BY <1>0, <1>2 DEF PushFrame, TextOrder, NormalOrder
  <2> QED BY <1>2, <2>1, PushKeeps
<1>3. CASE PopFstringFrame(s)
  <2>1. InFrame
    BY <1>0, <1>3 DEF PopFstringFrame, NormalOrder, FramesInv, FramesPaired
  <2> QED BY <1>3, <2>1, PopKeeps
<1>4. CASE OpenInterpolation(s)
  <2>1. InFrame
    BY <1>0, <1>4 DEF OpenInterpolation, NormalOrder, FramesInv, FramesPaired
  <2>2. [Top EXCEPT !.brace = 1] \in Frame /\ [Top EXCEPT !.brace = 1].brace = 1
    BY <2>1, TopTypes DEF Frame
  <2>3. /\ SetTop([Top EXCEPT !.brace = 1])
        /\ mode' = "NORMAL" /\ blockBraceDepth' = blockBraceDepth
    BY <1>4 DEF OpenInterpolation
  <2>4. /\ mode' \in {"NORMAL", "TEXT"}
        /\ mode' = "TEXT" => [Top EXCEPT !.brace = 1].brace = 0
        /\ mode' = "NORMAL" => [Top EXCEPT !.brace = 1].brace >= 1
    BY <2>2, <2>3
  <2> QED BY <2>1, <2>2, <2>3, <2>4, TopKeeps
<1>5. CASE OpenBracket(s)
  <2>1. mode = "NORMAL"
    BY <1>0, <1>5 DEF OpenBracket, TextOrder
  <2>2. CASE InFrame
    <3>1. /\ [Top EXCEPT !.bracket = @ + 1] \in Frame
          /\ [Top EXCEPT !.bracket = @ + 1].brace = Top.brace /\ Top.brace >= 1
      BY <2>1, <2>2, TopTypes DEF Frame, FramesInv, FramesPaired
    <3> QED BY <1>5, <2>1, <2>2, <3>1, TopKeeps DEF OpenBracket
  <2>3. CASE ~InFrame
    BY <1>0, <1>5, <2>3, SameKeeps DEF OpenBracket
  <2> QED BY <2>2, <2>3
<1>6. CASE CloseBracket(s)
  <2>1. mode = "NORMAL"
    BY <1>0, <1>6 DEF CloseBracket, TextOrder
  <2>2. CASE InFrame /\ Top.bracket > 0
    <3>1. /\ [Top EXCEPT !.bracket = @ - 1] \in Frame
          /\ [Top EXCEPT !.bracket = @ - 1].brace = Top.brace /\ Top.brace >= 1
      BY <2>1, <2>2, TopTypes DEF Frame, FramesInv, FramesPaired
    <3> QED BY <1>6, <2>1, <2>2, <3>1, TopKeeps DEF CloseBracket
  <2>3. CASE ~(InFrame /\ Top.bracket > 0)
    BY <1>0, <1>6, <2>3, SameKeeps DEF CloseBracket
  <2> QED BY <2>2, <2>3
<1>7. CASE OpenBrace(s)
  <2>1. mode = "NORMAL"
    BY <1>0, <1>7 DEF OpenBrace, TextOrder
  <2>2. CASE InFrame
    <3>1. [Top EXCEPT !.brace = @ + 1] \in Frame /\ [Top EXCEPT !.brace = @ + 1].brace >= 1
      BY <2>2, TopTypes DEF Frame
    <3> QED BY <1>7, <2>1, <2>2, <3>1, TopKeeps DEF OpenBrace
  <2>3. CASE ~InFrame
    <3>1. UNCHANGED <<frames, mode>> /\ blockBraceDepth' = blockBraceDepth + 1
      BY <1>7, <2>3 DEF OpenBrace
    <3>2. blockBraceDepth' \in Nat
      BY <1>0, <3>1
    <3> QED BY <3>1, <3>2, SameKeeps
  <2> QED BY <2>2, <2>3
<1>8. CASE CloseBrace(s)
  <2>1. mode = "NORMAL" /\ (InFrame \/ blockBraceDepth > 0)
    BY <1>0, <1>8 DEF CloseBrace, TextOrder, NormalOrder
  <2>2. CASE InFrame
    <3>1. Top.brace >= 1 /\ Top.brace \in Nat
      BY <2>1, <2>2, TopTypes DEF FramesInv, FramesPaired
    <3>2. [Top EXCEPT !.brace = @ - 1] \in Frame /\ [Top EXCEPT !.brace = @ - 1].brace = Top.brace - 1
      BY <2>2, <3>1, TopTypes DEF Frame
    <3>3. mode' = IF Top.brace = 1 THEN "TEXT" ELSE "NORMAL"
      BY <1>8, <2>1, <2>2 DEF CloseBrace
    <3>4. SetTop([Top EXCEPT !.brace = @ - 1]) /\ blockBraceDepth' = blockBraceDepth
      BY <1>8, <2>2 DEF CloseBrace
    <3>5. /\ mode' \in {"NORMAL", "TEXT"}
          /\ mode' = "TEXT" => [Top EXCEPT !.brace = @ - 1].brace = 0
          /\ mode' = "NORMAL" => [Top EXCEPT !.brace = @ - 1].brace >= 1
      BY <3>1, <3>2, <3>3
    <3> QED BY <2>2, <3>2, <3>4, <3>5, TopKeeps
  <2>3. CASE ~InFrame
    <3>1. UNCHANGED <<frames, mode>> /\ blockBraceDepth' = blockBraceDepth - 1
      BY <1>8, <2>3 DEF CloseBrace
    <3>2. blockBraceDepth' \in Nat
      BY <1>0, <2>1, <2>3, <3>1
    <3> QED BY <3>1, <3>2, SameKeeps
  <2> QED BY <2>2, <2>3
<1>9. CASE HitDiagCap(s)
  BY <1>0, <1>9, SameKeeps DEF HitDiagCap
<1> QED BY <1>1, <1>2, <1>3, <1>4, <1>5, <1>6, <1>7, <1>8, <1>9

LEMMA NextFrames == ASSUME FramesInv, [Next]_vars PROVE FramesInv'
<1>0. frames \in Seq(Frame) /\ mode \in {"NORMAL", "TEXT"} /\ blockBraceDepth \in Nat
  BY DEF FramesInv, FrameTypes
<1>1. CASE ScanNext
  BY <1>0, <1>1, ScanDoes, ScanKeeps DEF ScanNext
<1>2. CASE HandPeeked \/ ParserReports \/ UNCHANGED vars
  BY <1>0, <1>2, SameKeeps DEF HandPeeked, ParserReports, vars
<1> QED BY <1>1, <1>2 DEF Next, Step

\* For every text and every depth of nesting: a '}' the lexer accepts has a brace to close,
\* and the end of an f-string, or the recovery from one that never ends, resumes plain code
\* or an interpolation and never a text that was interrupted.
THEOREM LexerFramesPaired == Spec => []FramesPaired
<1>1. Init => FramesInv
  BY InitFrames
<1>2. FramesInv /\ [Next]_vars => FramesInv'
  BY NextFrames
<1>3. FramesInv => FramesPaired
  BY DEF FramesInv
<1> QED BY <1>1, <1>2, <1>3, PTL DEF Spec

(********************************** the text **********************************)

\* The characters the scans tell apart.  (A string with an escape in it is beyond SMT: what is
\* said of a newline is said of NewlineChar or of Blank, and rests on this lemma.)
LEMMA Characters ==
  /\ NewlineChar \subseteq Blank /\ "EOF" \notin Blank /\ "/" \notin Blank /\ ":" \notin Blank
BY DEF NewlineChar, Blank

LEMMA TextPast ==
  ASSUME source \in Seq(STRING)
  PROVE  /\ Len(source) \in Nat /\ Past \in Nat /\ Past = Len(source) + 1 /\ At(Past) = "EOF"
         /\ \A p \in Int : p > Len(source) => At(p) = "EOF"
         /\ \A p \in Int : At(p) # "EOF" => p < Past
BY DEF Past, At

\* The first number of a set, counted from a number below one that is in it.
LEMMA FirstFrom ==
  ASSUME NEW a \in Nat, NEW b \in Nat, a <= b, NEW T, b \in T
  PROVE  \E q \in a..b : q \in T /\ \A r \in a..(q - 1) : r \notin T
<1> DEFINE B == {x \in Nat : a <= x /\ x \in T}
<1>1. B \subseteq Nat /\ B # {}
  OBVIOUS
<1> HIDE DEF B
<1>2. PICK q \in B : \A y \in B : q <= y
  BY <1>1, NatLeast
<1>3. q \in Nat /\ a <= q /\ q \in T /\ q <= b
  BY <1>2 DEF B
<1>4. ASSUME NEW r \in a..(q - 1) PROVE r \notin T
  BY <1>2, <1>3 DEF B
<1> QED BY <1>3, <1>4

LEMMA UntilStops ==
  ASSUME source \in Seq(STRING), NEW p \in Nat, p <= Past, NEW stops
  PROVE  /\ Until(p, stops) \in p..Past
         /\ Until(p, stops) = Past \/ At(Until(p, stops)) \in stops
         /\ \A r \in p..(Until(p, stops) - 1) : At(r) \notin stops
<1> DEFINE T == {x \in Nat : x = Past \/ At(x) \in stops}
<1>1. Past \in T /\ Past \in Nat
  BY TextPast
<1> HIDE DEF T
<1>2. \E q \in p..Past : q \in T /\ \A r \in p..(q - 1) : r \notin T
  BY <1>1, FirstFrom
<1>3. \E q \in p..Past : /\ q = Past \/ At(q) \in stops
                         /\ \A r \in p..(q - 1) : At(r) \notin stops
  BY <1>1, <1>2 DEF T
<1> QED BY <1>3 DEF Until

LEMMA RunStops ==
  ASSUME source \in Seq(STRING), NEW p \in Nat, p <= Past, NEW set, "EOF" \notin set
  PROVE  /\ Run(p, set) \in p..Past /\ At(Run(p, set)) \notin set
         /\ \A r \in p..(Run(p, set) - 1) : At(r) \in set
<1> DEFINE T == {x \in Nat : At(x) \notin set}
<1>1. Past \in T /\ Past \in Nat
  BY TextPast
<1> HIDE DEF T
<1>2. \E q \in p..Past : q \in T /\ \A r \in p..(q - 1) : r \notin T
  BY <1>1, FirstFrom
<1>3. \E q \in p..Past : At(q) \notin set /\ \A r \in p..(q - 1) : At(r) \in set
  BY <1>1, <1>2 DEF T
<1> QED BY <1>3 DEF Run

\* Where a block comment whose body begins at p ends.
LEMMA BlockCommentEnds ==
  ASSUME source \in Seq(STRING), NEW p \in Nat
  PROVE  \/ SkipBlockComment(p) = Past + 1 /\ \A r \in p..Past : ~Closes(r)
         \/ /\ SkipBlockComment(p) \in (p + 2)..Past /\ Closes(SkipBlockComment(p) - 2)
            /\ \A r \in p..(SkipBlockComment(p) - 3) : ~Closes(r)
<1>1. CASE \E r \in p..Past : Closes(r)
  <2> DEFINE T == {x \in Nat : Closes(x)}
  <2>1. PICK b \in p..Past : Closes(b)
    BY <1>1
  <2>2. b \in Nat /\ p <= b /\ b \in T
    BY <2>1, TextPast
  <2> HIDE DEF T
  <2>3. \E q \in p..b : q \in T /\ \A r \in p..(q - 1) : r \notin T
    BY <2>2, FirstFrom
  <2>4. \E q \in p..Past : Closes(q) /\ \A i \in p..(q - 1) : ~Closes(i)
    BY <2>1, <2>3, TextPast DEF T
  <2> DEFINE first == CHOOSE r \in p..Past : Closes(r) /\ \A i \in p..(r - 1) : ~Closes(i)
  <2>5. first \in p..Past /\ Closes(first) /\ \A i \in p..(first - 1) : ~Closes(i)
    BY <2>4
  <2>6. SkipBlockComment(p) = 2 + first
    BY <1>1 DEF SkipBlockComment
  <2> HIDE DEF first
  <2>7. At(first + 1) # "EOF" /\ first + 1 \in Int /\ Past \in Nat /\ first \in Nat
    BY <2>5, TextPast DEF Closes
  <2>8. first + 1 < Past
    BY <2>7, TextPast
  <2>9. 2 + first \in (p + 2)..Past /\ (2 + first) - 2 = first /\ (2 + first) - 3 = first - 1
    BY <2>5, <2>7, <2>8
  <2> QED BY <2>5, <2>6, <2>9
<1>2. CASE ~\E r \in p..Past : Closes(r)
  BY <1>2 DEF SkipBlockComment
<1> QED BY <1>1, <1>2

(******************************* spaces and comments ***************************)

\* Each round of the scan starts further on.
LEMMA BlankFurther ==
  ASSUME source \in Seq(STRING), NEW p \in Nat, At(p) \in Blank
  PROVE  p < Past
BY TextPast, Characters

LEMMA LineFurther ==
  ASSUME source \in Seq(STRING), NEW p \in Nat, At(p) = "/"
  PROVE  p < Past /\ Until(p, NewlineChar) \in (p + 1)..Past
<1>1. Past \in Nat /\ p < Past /\ At(p) \notin NewlineChar
  BY TextPast, Characters
<1>2. /\ Until(p, NewlineChar) \in p..Past
      /\ Until(p, NewlineChar) = Past \/ At(Until(p, NewlineChar)) \in NewlineChar
  BY <1>1, UntilStops
<1>3. Until(p, NewlineChar) # p
  BY <1>1, <1>2
<1> QED BY <1>1, <1>2, <1>3

LEMMA BlockFurther ==
  ASSUME source \in Seq(STRING), NEW p \in Nat, At(p) = "/"
  PROVE  p < Past /\ SkipBlockComment(p + 2) \in (p + 1)..(Past + 1)
<1>1. p < Past /\ p + 2 \in Nat /\ Past \in Nat
  BY TextPast
<1>2. SkipBlockComment(p + 2) = Past + 1 \/ SkipBlockComment(p + 2) \in (p + 2 + 2)..Past
  BY <1>1, BlockCommentEnds
<1> QED BY <1>1, <1>2

LEMMA TriviaTo ==
  ASSUME source \in Seq(STRING), NEW p \in Nat
  PROVE  /\ At(p) \in Blank => SkipTrivia[p] = SkipTrivia[p + 1]
         /\ At(p) = "/" /\ At(p + 1) = "/" => SkipTrivia[p] = SkipTrivia[Until(p, NewlineChar)]
         /\ At(p) = "/" /\ At(p + 1) = "*" => SkipTrivia[p] = SkipTrivia[SkipBlockComment(p + 2)]
         /\ At(p) \notin Blank /\ ~OpensComment(p) => SkipTrivia[p] = p
<1> DEFINE D == {q \in Nat : At(q) \in Blank \/ OpensComment(q)}
           on(q) == IF At(q) \in Blank THEN q + 1
                    ELSE IF At(q + 1) = "/" THEN Until(q, NewlineChar) ELSE SkipBlockComment(q + 2)
           next == [q \in Nat |-> IF q \in D THEN on(q) ELSE q]
           stop == [q \in Nat |-> q]
<1>1. Past \in Nat
  BY TextPast
<1>2. \A q \in Nat : At(q) = "/" => At(q) \notin Blank
  BY Characters
<1>3. ASSUME NEW q \in D PROVE q < Past /\ on(q) \in Nat /\ q < on(q)
  <2>1. CASE At(q) \in Blank
    BY <2>1, BlankFurther
  <2>2. CASE At(q) \notin Blank
    <3>1. At(q) = "/"
      BY <2>2 DEF OpensComment
    <3>2. /\ q < Past /\ Until(q, NewlineChar) \in (q + 1)..Past
          /\ SkipBlockComment(q + 2) \in (q + 1)..(Past + 1)
      BY <3>1, LineFurther, BlockFurther
    <3> QED BY <1>1, <2>2, <3>2
  <2> QED BY <2>1, <2>2
<1> HIDE DEF on
<1>4. \A q \in Nat : (IF q \in D THEN on(q) ELSE q) \in Nat
  BY <1>3
<1>5. next \in [Nat -> Nat] /\ stop \in [Nat -> Nat] /\ D \in SUBSET Nat
  BY <1>4
<1>6. \A q \in D : next[q] = on(q) /\ q < Past /\ q < next[q]
  BY <1>3
<1>7. \A q \in Nat : stop[q] = q
  OBVIOUS
<1> HIDE DEF next, stop
<1>8. PICK f : Loop(f, Nat, D, next, stop)
  BY <1>1, <1>5, <1>6, ScanExists
<1>9. ASSUME NEW q \in Nat
      PROVE  f[q] = IF At(q) \in Blank THEN f[q + 1]
                    ELSE IF At(q) = "/" /\ At(q + 1) = "/" THEN f[Until(q, NewlineChar)]
                    ELSE IF At(q) = "/" /\ At(q + 1) = "*" THEN f[SkipBlockComment(q + 2)]
                    ELSE q
  <2>1. f[q] = IF q \in D THEN f[on(q)] ELSE q
    BY <1>6, <1>7, <1>8 DEF Loop
  <2> QED BY <2>1 DEF on, OpensComment
<1>10. f \in [Nat -> Nat]
  BY <1>8 DEF Loop
<1>11. f = [q \in Nat |-> CASE At(q) \in Blank -> f[q + 1]
                            [] At(q) = "/" /\ At(q + 1) = "/" -> f[Until(q, NewlineChar)]
                            [] At(q) = "/" /\ At(q + 1) = "*" -> f[SkipBlockComment(q + 2)]
                            [] OTHER -> q]
  BY <1>2, <1>9, <1>10
<1>12. SkipTrivia = [q \in Nat |-> CASE At(q) \in Blank -> SkipTrivia[q + 1]
                            [] At(q) = "/" /\ At(q + 1) = "/" -> SkipTrivia[Until(q, NewlineChar)]
                            [] At(q) = "/" /\ At(q + 1) = "*" -> SkipTrivia[SkipBlockComment(q + 2)]
                            [] OTHER -> q]
  BY <1>11 DEF SkipTrivia
<1> QED BY <1>2, <1>12 DEF OpensComment

\* The bytes in front of a stretch of trivia belong to it when they are a piece of trivia.
LEMMA PieceBefore ==
  ASSUME NEW a \in Int, NEW d \in Int, NEW b \in Int, a < d, d <= b, Piece(a, d), TriviaOnly(d, b)
  PROVE  TriviaOnly(a, b)
<1>1. PICK cuts \in SUBSET (d..b) :
        /\ {d, b} \subseteq cuts
        /\ \A c \in cuts \ {b} : \E f \in cuts : c < f /\ Piece(c, f) /\ \A e \in cuts : e <= c \/ f <= e
  BY DEF TriviaOnly
<1> DEFINE more == cuts \cup {a}
<1>2. more \in SUBSET (a..b) /\ {a, b} \subseteq more
  BY <1>1
<1>3. ASSUME NEW c \in more \ {b}
      PROVE  \E f \in more : c < f /\ Piece(c, f) /\ \A e \in more : e <= c \/ f <= e
  <2>1. CASE c = a
    <3>1. \A e \in more : e <= a \/ d <= e
      BY <1>1
    <3> QED BY <1>1, <2>1, <3>1
  <2>2. CASE c # a
    <3>1. c \in cuts \ {b}
      BY <2>2
    <3>2. PICK f \in cuts : c < f /\ Piece(c, f) /\ \A e \in cuts : e <= c \/ f <= e
      BY <1>1, <3>1
    <3>3. a <= c
      BY <1>1, <3>1
    <3> QED BY <3>2, <3>3
  <2> QED BY <2>1, <2>2
<1> HIDE DEF more
<1> QED BY <1>2, <1>3 DEF TriviaOnly

LEMMA NothingIsTrivia == ASSUME NEW a \in Int PROVE TriviaOnly(a, a)
<1>1. {a} \in SUBSET (a..a) /\ {a, a} \subseteq {a} /\ {a} \ {a} = {}
  OBVIOUS
<1> QED BY <1>1 DEF TriviaOnly

TriviaFound(p) ==
  /\ SkipTrivia[p] \in p..(Past + 1)
  /\ SkipTrivia[p] <= Past => At(SkipTrivia[p]) \notin Blank /\ ~OpensComment(SkipTrivia[p])
  /\ TriviaOnly(p, IF SkipTrivia[p] > Past THEN Past ELSE SkipTrivia[p])

\* What SkipTrivia passes over is whole blanks and comments, and it stops at neither.
LEMMA TriviaSkipped ==
  ASSUME source \in Seq(STRING)
  PROVE  \A p \in 0..Past : TriviaFound(p)
<1> DEFINE T == {p \in 0..Past : TriviaFound(p)}
<1>0. Past \in Nat
  BY TextPast
\* From the end of a piece on, the rest is known.
<1>1. ASSUME NEW p \in 0..Past, NEW q \in (p + 1)..Past, Piece(p, q), SkipTrivia[p] = SkipTrivia[q],
             TriviaFound(q)
      PROVE  TriviaFound(p)
  <2> DEFINE r == SkipTrivia[q]
             b == IF r > Past THEN Past ELSE r
  <2>1. r \in q..(Past + 1) /\ TriviaOnly(q, b) /\ b \in Int /\ q <= b
    BY <1>0, <1>1 DEF TriviaFound
  <2> HIDE DEF r
  <2>2. TriviaOnly(p, b)
    BY <1>0, <1>1, <2>1, PieceBefore
  <2>3. SkipTrivia[p] = r /\ (r <= Past => At(r) \notin Blank /\ ~OpensComment(r))
    BY <1>1 DEF r, TriviaFound
  <2> QED BY <1>0, <1>1, <2>1, <2>2, <2>3 DEF TriviaFound
<1>2. ASSUME NEW p \in 0..Past, \A q \in (p + 1)..Past : q \in T
      PROVE  TriviaFound(p)
  <2>0. p \in Nat /\ \A q \in (p + 1)..Past : TriviaFound(q)
    BY <1>2
  <2>1. CASE At(p) \in Blank
    <3>1. p + 1 \in (p + 1)..Past /\ SkipTrivia[p] = SkipTrivia[p + 1]
      BY <1>0, <2>0, <2>1, BlankFurther, TriviaTo
    <3>2. Piece(p, p + 1)
      BY <2>1 DEF Piece
    <3> QED BY <1>1, <2>0, <3>1, <3>2
  <2>2. CASE At(p) = "/" /\ At(p + 1) = "/"
    <3> DEFINE q == Until(p, NewlineChar)
    <3>1. q \in (p + 1)..Past /\ SkipTrivia[p] = SkipTrivia[q]
      BY <2>0, <2>2, LineFurther, TriviaTo
    <3>2. (q = Past \/ At(q) \in NewlineChar) /\ \A r \in p..(q - 1) : At(r) \notin NewlineChar
      BY <1>0, <2>0, UntilStops
    <3> HIDE DEF q
    <3>3. Piece(p, q)
      BY <2>2, <3>2 DEF Piece
    <3> QED BY <1>1, <2>0, <3>1, <3>3
  <2>3. CASE At(p) = "/" /\ At(p + 1) = "*"
    <3> DEFINE q == SkipBlockComment(p + 2)
    <3>1. SkipTrivia[p] = SkipTrivia[q] /\ p < Past /\ q \in (p + 1)..(Past + 1)
      BY <2>0, <2>3, BlockFurther, TriviaTo
    <3>2. \/ q = Past + 1 /\ \A r \in (p + 2)..Past : ~Closes(r)
          \/ q \in (p + 2 + 2)..Past /\ Closes(q - 2) /\ \A r \in (p + 2)..(q - 3) : ~Closes(r)
      BY <2>0, BlockCommentEnds
    <3> HIDE DEF q
    <3>3. CASE q = Past + 1
      <4>1. Piece(p, Past)
        BY <1>0, <2>3, <3>2, <3>3 DEF Piece
      <4>2. SkipTrivia[Past + 1] = Past + 1
        <5>1. At(Past + 1) = "EOF" /\ Past + 1 \in Nat
          BY <1>0, TextPast
        <5>2. At(Past + 1) \notin Blank /\ ~OpensComment(Past + 1)
          BY <5>1, Characters DEF OpensComment
        <5> QED BY <5>1, <5>2, TriviaTo
      <4>3. TriviaOnly(p, Past)
        BY <1>0, <2>0, <3>1, <4>1, NothingIsTrivia, PieceBefore
      <4> QED BY <1>0, <2>0, <3>1, <3>3, <4>2, <4>3 DEF TriviaFound
    <3>4. CASE q # Past + 1
      <4>1. q \in (p + 1)..Past /\ q >= p + 4
        BY <1>0, <2>0, <3>1, <3>2, <3>4
      <4>2. Piece(p, q)
        BY <2>3, <3>2, <3>4, <4>1 DEF Piece
      <4> QED BY <1>1, <2>0, <3>1, <4>1, <4>2
    <3> QED BY <3>3, <3>4
  <2>4. CASE At(p) \notin Blank /\ ~OpensComment(p)
    <3>1. SkipTrivia[p] = p
      BY <2>0, <2>4, TriviaTo
    <3> QED BY <1>0, <2>0, <2>4, <3>1, NothingIsTrivia DEF TriviaFound
  <2> QED BY <2>1, <2>2, <2>3, <2>4 DEF OpensComment
<1>3. \A p \in 0..Past : (\A q \in (p + 1)..Past : q \in T) => p \in T
  BY <1>2
<1> HIDE DEF T
<1>4. \A p \in 0..Past : p \in T
  BY <1>0, <1>3, DownInduces
<1> QED BY <1>4 DEF T

(********************************* the cursor *********************************)

IsReturn(p) == At(p) = "\r"
IsFeed(p)   == At(p) = "\n"

LEMMA Newlines ==
  ASSUME NEW p
  PROVE  /\ At(p) \in NewlineChar <=> IsReturn(p) \/ IsFeed(p)
         /\ ~(IsReturn(p) /\ IsFeed(p))
         /\ BareReturn(p) <=> IsReturn(p) /\ ~IsFeed(p + 1)
BY DEF NewlineChar, IsReturn, IsFeed, BareReturn

LEMMA LineBreaksAre ==
  ASSUME NEW p
  PROVE  LineBreaks(p) = {i \in 1..(p - 1) : IsFeed(i) \/ BareReturn(i)}
BY DEF LineBreaks, IsFeed

\* The line and the column are those of the place pos.
Placed(pos, line, col) ==
  /\ line = 1 + Cardinality(LineBreaks(pos))
  /\ \/ LineBreaks(pos) = {} /\ col = pos
     \/ \E b \in LineBreaks(pos) : col = pos - b /\ \A c \in LineBreaks(pos) : c <= b
\* The place p is between the two characters of a CRLF.
Split(p) == p > 1 /\ IsReturn(p - 1) /\ IsFeed(p)
Right(c) == /\ c \in Cursor /\ c.pos \in 1..Past
            /\ Placed(c.pos, c.line, c.col) /\ ~Split(c.pos)

LEMMA CursorFields ==
  ASSUME NEW c \in Cursor
  PROVE  c.pos \in Nat /\ c.line \in Nat /\ c.col \in Nat
BY DEF Cursor

LEMMA AdvanceFields ==
  ASSUME NEW c \in Cursor, NEW n \in Nat
  PROVE  /\ Advance(c, n) \in Cursor
         /\ Advance(c, n).pos = c.pos + n /\ Advance(c, n).line = c.line /\ Advance(c, n).col = c.col + n
BY DEF Cursor, Advance

LEMMA NewlineFields ==
  ASSUME NEW c \in Cursor
  PROVE  /\ ConsumeNewline(c) \in Cursor
         /\ ConsumeNewline(c).line = c.line + 1 /\ ConsumeNewline(c).col = 1
         /\ IsReturn(c.pos) /\ IsFeed(c.pos + 1) => ConsumeNewline(c).pos = c.pos + 2
         /\ ~(IsReturn(c.pos) /\ IsFeed(c.pos + 1)) => ConsumeNewline(c).pos = c.pos + 1
<1>1. ConsumeNewline(c) = [pos |-> IF IsReturn(c.pos) /\ IsFeed(c.pos + 1) THEN c.pos + 2 ELSE c.pos + 1,
                           line |-> c.line + 1, col |-> 1]
  BY DEF ConsumeNewline, IsReturn, IsFeed
<1> QED BY <1>1 DEF Cursor

LEMMA LineBreaksFinite ==
  ASSUME NEW p \in Nat
  PROVE  IsFiniteSet(LineBreaks(p)) /\ Cardinality(LineBreaks(p)) \in Nat /\ LineBreaks(p) \subseteq 1..(p - 1)
<1>1. IsFiniteSet(1..(p - 1)) /\ LineBreaks(p) \subseteq 1..(p - 1)
  BY FS_Interval, LineBreaksAre
<1>2. IsFiniteSet(LineBreaks(p))
  BY <1>1, FS_Subset
<1> QED BY <1>1, <1>2, FS_CardinalityType

\* Along bytes that are not newlines the line stays and the column follows.
LEMMA PlacedAlong ==
  ASSUME NEW p \in Nat \ {0}, NEW q \in Nat, p <= q, NEW line \in Nat, NEW col \in Nat,
         Placed(p, line, col), ~Split(p), \A i \in p..(q - 1) : At(i) \notin NewlineChar
  PROVE  Placed(q, line, col + (q - p)) /\ ~Split(q)
<1>1. \A i \in p..(q - 1) : ~IsFeed(i) /\ ~BareReturn(i) /\ ~IsReturn(i)
  BY Newlines
<1>2. ASSUME NEW i PROVE i \in LineBreaks(q) <=> i \in LineBreaks(p)
  <2>1. i \in LineBreaks(q) <=> i \in 1..(q - 1) /\ (IsFeed(i) \/ BareReturn(i))
    BY LineBreaksAre
  <2>2. i \in LineBreaks(p) <=> i \in 1..(p - 1) /\ (IsFeed(i) \/ BareReturn(i))
    BY LineBreaksAre
  <2> QED BY <1>1, <2>1, <2>2
<1>3. LineBreaks(q) = LineBreaks(p)
  BY <1>2
<1>4. LineBreaks(p) \subseteq Int
  BY LineBreaksFinite
<1>5. Placed(q, line, col + (q - p))
  <2>1. CASE LineBreaks(p) = {} /\ col = p
    <3>1. col + (q - p) = q
      BY <2>1
    <3> QED BY <1>3, <2>1, <3>1 DEF Placed
  <2>2. CASE \E b \in LineBreaks(p) : col = p - b /\ \A c \in LineBreaks(p) : c <= b
    <3>1. PICK b \in LineBreaks(p) : col = p - b /\ \A c \in LineBreaks(p) : c <= b
      BY <2>2
    <3>2. b \in Int
      BY <1>4
    <3>3. col + (q - p) = q - b
      BY <3>1, <3>2
    <3> QED BY <1>3, <3>1, <3>3 DEF Placed
  <2> QED BY <2>1, <2>2 DEF Placed
<1>6. ~Split(q)
  <2>1. CASE q # p
    <3>1. q - 1 \in p..(q - 1)
      BY <2>1
    <3> QED BY <1>1, <3>1 DEF Split
  <2> QED BY <2>1
<1> QED BY <1>5, <1>6

LEMMA AdvanceRight ==
  ASSUME source \in Seq(STRING), NEW c, Right(c), NEW q \in c.pos..Past,
         \A i \in c.pos..(q - 1) : At(i) \notin NewlineChar
  PROVE  Right(Advance(c, q - c.pos)) /\ Advance(c, q - c.pos).pos = q
<1> DEFINE d == Advance(c, q - c.pos)
<1>1. c \in Cursor /\ c.pos \in 1..Past /\ Placed(c.pos, c.line, c.col) /\ ~Split(c.pos)
  BY DEF Right
<1>2. c.pos \in Nat \ {0} /\ c.line \in Nat /\ c.col \in Nat
  BY <1>1, CursorFields
<1>3. q \in Nat /\ c.pos <= q /\ q - c.pos \in Nat /\ q \in 1..Past
  BY <1>2, TextPast
<1>4. d \in Cursor /\ d.pos = c.pos + (q - c.pos) /\ d.line = c.line /\ d.col = c.col + (q - c.pos)
  BY <1>1, <1>3, AdvanceFields
<1> HIDE DEF d
<1>5. Placed(q, c.line, c.col + (q - c.pos)) /\ ~Split(q)
  BY <1>1, <1>2, <1>3, PlacedAlong
<1>6. d.pos = q
  BY <1>2, <1>3, <1>4
<1>7. Right(d)
  BY <1>3, <1>4, <1>5, <1>6 DEF Right
<1> QED BY <1>6, <1>7 DEF d

\* And where the newline that ends with the byte b is the one break more, a line begins.
LEMMA PlacedAfter ==
  ASSUME NEW p \in Nat \ {0}, NEW b \in Nat, p <= b, NEW line \in Nat, NEW col \in Nat, Placed(p, line, col),
         LineBreaks(b + 1) = LineBreaks(p) \cup {b}
  PROVE  Placed(b + 1, line + 1, 1)
<1>1. IsFiniteSet(LineBreaks(p)) /\ Cardinality(LineBreaks(p)) \in Nat /\ LineBreaks(p) \subseteq 1..(p - 1)
  BY LineBreaksFinite
<1>2. b \notin LineBreaks(p)
  BY <1>1
<1>3. Cardinality(LineBreaks(b + 1)) = Cardinality(LineBreaks(p)) + 1
  BY <1>1, <1>2, FS_AddElement
<1>4. line = 1 + Cardinality(LineBreaks(p))
  BY DEF Placed
<1>5. line + 1 = 1 + Cardinality(LineBreaks(b + 1))
  BY <1>1, <1>3, <1>4
<1>6. b \in LineBreaks(b + 1) /\ \A c \in LineBreaks(b + 1) : c <= b
  BY <1>1
<1>7. 1 = (b + 1) - b
  OBVIOUS
<1> QED BY <1>5, <1>6, <1>7 DEF Placed

LEMMA PlacedPastNewline ==
  ASSUME NEW p \in Nat \ {0}, NEW line \in Nat, NEW col \in Nat, Placed(p, line, col), At(p) \in NewlineChar
  PROVE  /\ IsReturn(p) /\ IsFeed(p + 1) => Placed(p + 2, line + 1, 1) /\ ~Split(p + 2)
         /\ ~(IsReturn(p) /\ IsFeed(p + 1)) => Placed(p + 1, line + 1, 1) /\ ~Split(p + 1)
<1>1. ASSUME NEW i, NEW q PROVE i \in LineBreaks(q) <=> i \in 1..(q - 1) /\ (IsFeed(i) \/ BareReturn(i))
  BY LineBreaksAre
<1>2. ASSUME IsReturn(p), IsFeed(p + 1)
      PROVE  Placed((p + 1) + 1, line + 1, 1) /\ ~Split((p + 1) + 1)
  <2>1. ~IsFeed(p) /\ ~BareReturn(p) /\ ~IsReturn(p + 1)
    BY <1>2, Newlines
  <2>2. ASSUME NEW i PROVE i \in LineBreaks((p + 1) + 1) <=> i \in LineBreaks(p) \cup {p + 1}
    BY <1>1, <1>2, <2>1
  <2>3. LineBreaks((p + 1) + 1) = LineBreaks(p) \cup {p + 1}
    BY <2>2
  <2>4. Placed((p + 1) + 1, line + 1, 1)
    BY <2>3, PlacedAfter
  <2>5. ((p + 1) + 1) - 1 = p + 1
    OBVIOUS
  <2> QED BY <2>1, <2>4, <2>5 DEF Split
<1>3. ASSUME ~(IsReturn(p) /\ IsFeed(p + 1))
      PROVE  Placed(p + 1, line + 1, 1) /\ ~Split(p + 1)
  <2>1. IsFeed(p) \/ BareReturn(p)
    BY <1>3, Newlines
  <2>2. ASSUME NEW i PROVE i \in LineBreaks(p + 1) <=> i \in LineBreaks(p) \cup {p}
    BY <1>1, <2>1
  <2>3. LineBreaks(p + 1) = LineBreaks(p) \cup {p}
    BY <2>2
  <2>4. Placed(p + 1, line + 1, 1)
    BY <2>3, PlacedAfter
  <2>5. p + 1 - 1 = p
    OBVIOUS
  <2> QED BY <1>3, <2>4, <2>5 DEF Split
<1>4. (p + 1) + 1 = p + 2
  OBVIOUS
<1> QED BY <1>2, <1>3, <1>4

LEMMA NewlineRight ==
  ASSUME source \in Seq(STRING), NEW c, Right(c), At(c.pos) \in NewlineChar
  PROVE  Right(ConsumeNewline(c)) /\ ConsumeNewline(c).pos \in {c.pos + 1, c.pos + 2}
<1> DEFINE d == ConsumeNewline(c)
           p == c.pos
<1>1. c \in Cursor /\ p \in 1..Past /\ Placed(p, c.line, c.col)
  BY DEF Right
<1>2. p \in Nat \ {0} /\ c.line \in Nat /\ c.col \in Nat
  BY <1>1, CursorFields
<1>3. /\ d \in Cursor /\ d.line = c.line + 1 /\ d.col = 1
      /\ IsReturn(p) /\ IsFeed(p + 1) => d.pos = p + 2
      /\ ~(IsReturn(p) /\ IsFeed(p + 1)) => d.pos = p + 1
  BY <1>1, NewlineFields
<1>4. At(p) \in NewlineChar
  OBVIOUS
<1> HIDE DEF d, p
<1>5. /\ IsReturn(p) /\ IsFeed(p + 1) => Placed(p + 2, c.line + 1, 1) /\ ~Split(p + 2)
      /\ ~(IsReturn(p) /\ IsFeed(p + 1)) => Placed(p + 1, c.line + 1, 1) /\ ~Split(p + 1)
  BY <1>1, <1>2, <1>4, PlacedPastNewline
<1>6. Past \in Nat /\ p < Past /\ (IsFeed(p + 1) => p + 1 < Past)
  <2>1. \A i \in Int : At(i) \in NewlineChar => i < Past
    BY TextPast, Characters
  <2>2. IsFeed(p + 1) => At(p + 1) \in NewlineChar
    BY Newlines
  <2> QED BY <1>2, <1>4, <2>1, <2>2, TextPast
<1>7. p + 1 \in 1..Past /\ (IsFeed(p + 1) => p + 2 \in 1..Past)
  BY <1>2, <1>6
<1>8. Right(d) /\ d.pos \in {p + 1, p + 2}
  BY <1>3, <1>5, <1>7 DEF Right
<1> QED BY <1>8 DEF d, p

LEMMA WalkTo ==
  ASSUME NEW to \in Nat, NEW d \in Cursor
  PROVE  /\ d.pos >= to => Walk(d, to) = d
         /\ d.pos < to /\ At(d.pos) \in NewlineChar => Walk(d, to) = Walk(ConsumeNewline(d), to)
         /\ d.pos < to /\ At(d.pos) \notin NewlineChar => Walk(d, to) = Walk(Advance(d, 1), to)
<1> DEFINE D == {e \in Cursor : e.pos < to}
           next == [e \in Cursor |-> IF At(e.pos) \in NewlineChar THEN ConsumeNewline(e) ELSE Advance(e, 1)]
           stop == [e \in Cursor |-> e]
           rank == [e \in Cursor |-> e.pos]
<1>1. \A e \in Cursor : e.pos \in Nat
  BY CursorFields
<1>2. ASSUME NEW e \in Cursor
      PROVE  /\ ConsumeNewline(e) \in Cursor /\ e.pos < ConsumeNewline(e).pos
             /\ Advance(e, 1) \in Cursor /\ e.pos < Advance(e, 1).pos
  <2>1. ConsumeNewline(e) \in Cursor /\ ConsumeNewline(e).pos \in {e.pos + 1, e.pos + 2}
    BY NewlineFields
  <2>2. Advance(e, 1) \in Cursor /\ Advance(e, 1).pos = e.pos + 1
    BY AdvanceFields
  <2> QED BY <1>1, <2>1, <2>2
<1>3. /\ next \in [Cursor -> Cursor] /\ stop \in [Cursor -> Cursor] /\ rank \in [Cursor -> Nat]
      /\ D \in SUBSET Cursor
  BY <1>1, <1>2
<1>4. \A e \in Cursor : /\ rank[e] = e.pos /\ stop[e] = e
                        /\ next[e] = IF At(e.pos) \in NewlineChar THEN ConsumeNewline(e) ELSE Advance(e, 1)
  OBVIOUS
<1>5. \A e \in Cursor : (e \in D <=> e.pos < to) /\ (e.pos < to <=> ~(e.pos >= to))
  BY <1>1
<1> HIDE DEF D, next, stop, rank
<1>6. Climbs(rank, to, D, next)
  <2> SUFFICES ASSUME NEW e \in D PROVE rank[e] < to /\ rank[e] < rank[next[e]]
    BY DEF Climbs
  <2>1. e \in Cursor /\ next[e] \in Cursor /\ e.pos < next[e].pos
    BY <1>2, <1>3, <1>4
  <2> QED BY <1>4, <1>5, <2>1
<1>7. PICK f : Loop(f, Cursor, D, next, stop)
  BY <1>3, <1>6, LoopExists
<1>8. ASSUME NEW e \in Cursor
      PROVE  f[e] = IF e.pos >= to THEN e
                    ELSE IF At(e.pos) \in NewlineChar THEN f[ConsumeNewline(e)]
                    ELSE f[Advance(e, 1)]
  <2>1. f[e] = IF e \in D THEN f[next[e]] ELSE stop[e]
    BY <1>7 DEF Loop
  <2> QED BY <1>4, <1>5, <2>1
<1>9. f \in [Cursor -> Cursor]
  BY <1>7 DEF Loop
<1>10. f = [e \in Cursor |-> IF e.pos >= to THEN e
                             ELSE IF At(e.pos) \in NewlineChar THEN f[ConsumeNewline(e)]
                             ELSE f[Advance(e, 1)]]
  BY <1>8, <1>9
<1>11. PICK g : /\ g = [e \in Cursor |-> IF e.pos >= to THEN e
                                         ELSE IF At(e.pos) \in NewlineChar THEN g[ConsumeNewline(e)]
                                         ELSE g[Advance(e, 1)]]
                /\ \A c : Walk(c, to) = g[c]
  BY <1>10 DEF Walk
<1>12. Walk(d, to) = IF d.pos >= to THEN d
                     ELSE IF At(d.pos) \in NewlineChar THEN Walk(ConsumeNewline(d), to)
                     ELSE Walk(Advance(d, 1), to)
  BY <1>11
<1>13. d.pos < to <=> ~(d.pos >= to)
  BY <1>1
<1> QED BY <1>12, <1>13

\* Where a walk to `to` ends.
Arrives(c, to) == /\ Right(Walk(c, to)) /\ Walk(c, to).pos >= c.pos
                  /\ ~Split(to) => Walk(c, to).pos = to

\* A walk counts the lines of what it passes, and ends where it was sent to.
LEMMA WalkArrives ==
  ASSUME source \in Seq(STRING), NEW to \in Nat, to <= Past
  PROVE  \A c : Right(c) /\ c.pos <= to => Arrives(c, to)
<1> DEFINE T == {p \in 0..Past : \A c : Right(c) /\ c.pos = p /\ (p <= to \/ Split(to)) => Arrives(c, to)}
<1>0. Past \in Nat
  BY TextPast
<1>1. ASSUME NEW p \in 0..Past, \A q \in (p + 1)..Past : q \in T, NEW c, Right(c), c.pos = p,
             p <= to \/ Split(to)
      PROVE  Arrives(c, to)
  <2>1. c \in Cursor /\ p \in Nat /\ p >= 1
    BY <1>1 DEF Right
  <2>2. CASE p >= to
    <3>1. Walk(c, to) = c
      BY <1>1, <2>1, <2>2, WalkTo
    <3>2. ~Split(to) => p = to
      BY <1>1, <2>1, <2>2
    <3> QED BY <1>1, <2>1, <3>1, <3>2 DEF Arrives
  <2>3. CASE p < to /\ At(p) \in NewlineChar
    <3> DEFINE d == ConsumeNewline(c)
    <3>1. Right(d) /\ d.pos \in {p + 1, p + 2} /\ Walk(c, to) = Walk(d, to)
      BY <1>1, <2>1, <2>3, NewlineRight, WalkTo
    <3>2. d.pos <= to \/ Split(to)
      <4>1. CASE d.pos = p + 2
        <5>1. IsReturn(p) /\ IsFeed(p + 1)
          BY <1>1, <2>1, <4>1, NewlineFields
        <5>2. to = p + 1 => Split(to)
          BY <2>1, <5>1 DEF Split
        <5> QED BY <2>1, <2>3, <4>1, <5>2
      <4>2. CASE d.pos = p + 1
        BY <2>1, <2>3, <4>2
      <4> QED BY <3>1, <4>1, <4>2
    <3>3. d.pos \in (p + 1)..Past
      BY <2>1, <3>1 DEF Right
    <3> HIDE DEF d
    <3>4. Arrives(d, to)
      BY <1>1, <3>1, <3>2, <3>3
    <3>5. Walk(d, to).pos \in Int /\ d.pos \in Int /\ d.pos >= p
      BY <2>1, <3>3, <3>4 DEF Arrives, Right
    <3>6. Walk(c, to).pos >= c.pos
      BY <1>1, <2>1, <3>1, <3>4, <3>5 DEF Arrives
    <3> QED BY <3>1, <3>4, <3>6 DEF Arrives
  <2>4. CASE p < to /\ At(p) \notin NewlineChar
    <3> DEFINE d == Advance(c, 1)
    <3>1. Walk(c, to) = Walk(d, to)
      BY <1>1, <2>1, <2>4, WalkTo
    <3>2. Right(d) /\ d.pos = p + 1
      <4>1. p + 1 \in c.pos..Past /\ (p + 1) - c.pos = 1
        BY <1>0, <1>1, <2>1, <2>4
      <4>2. \A i \in c.pos..((p + 1) - 1) : At(i) \notin NewlineChar
        BY <1>1, <2>1, <2>4
      <4>3. Right(Advance(c, (p + 1) - c.pos)) /\ Advance(c, (p + 1) - c.pos).pos = p + 1
        BY <1>1, <4>1, <4>2, AdvanceRight
      <4> QED BY <4>1, <4>3
    <3>3. d.pos \in (p + 1)..Past /\ d.pos <= to
      BY <1>0, <2>1, <2>4, <3>2
    <3> HIDE DEF d
    <3>4. Arrives(d, to)
      BY <1>1, <3>2, <3>3
    <3>5. Walk(d, to).pos \in Int /\ d.pos \in Int /\ d.pos >= p
      BY <2>1, <3>2, <3>4 DEF Arrives, Right
    <3>6. Walk(c, to).pos >= c.pos
      BY <1>1, <2>1, <3>1, <3>4, <3>5 DEF Arrives
    <3> QED BY <3>1, <3>4, <3>6 DEF Arrives
  <2> QED BY <2>1, <2>2, <2>3, <2>4
<1>2. \A p \in 0..Past : (\A q \in (p + 1)..Past : q \in T) => p \in T
  BY <1>1
<1>3. \A p \in 0..Past : p \in T
  <2> HIDE DEF T
  <2> QED BY <1>0, <1>2, DownInduces
<1>4. ASSUME NEW c, Right(c), c.pos <= to PROVE Arrives(c, to)
  <2>1. c.pos \in 0..Past
    BY <1>0, <1>4 DEF Right
  <2> QED BY <1>3, <1>4, <2>1
<1> QED BY <1>4

(****************************** scans of literals ******************************)

\* No newline stands from p up to q, which is in the text or its end.
Clear(p, q) == q \in p..Past /\ \A i \in p..(q - 1) : At(i) \notin NewlineChar
\* The byte at p is there, and no newline.
Printed(p)  == At(p) \notin NewlineChar \cup {"EOF"}

\* What the scans take for part of a token is no newline.
LEMMA PrintedClasses ==
  /\ (IdentContinue \cup HexDigit \cup SimpleEscape \cup HighByte) \cap (NewlineChar \cup {"EOF"}) = {}
  /\ {"(", ")", "[", "]", "{", "}", "+", "-", "*", "/", "%", "=", "!", "<", ">", "&", "|", "^", "~", ":",
      ".", ",", ";", "BACKQUOTE", Quote, Backslash} \cap (NewlineChar \cup {"EOF"}) = {}
<1>1. /\ "\n" \notin IdentContinue /\ "\r" \notin IdentContinue /\ "EOF" \notin IdentContinue
  BY DEF IdentContinue, IdentStart, Letter, Digit
<1>2. /\ "\n" \notin HexDigit /\ "\r" \notin HexDigit /\ "EOF" \notin HexDigit
  BY DEF HexDigit, Digit
<1>3. /\ "\n" \notin SimpleEscape /\ "\r" \notin SimpleEscape /\ "EOF" \notin SimpleEscape
  BY DEF SimpleEscape, Quote, Backslash
<1>4. /\ "\n" \notin HighByte /\ "\r" \notin HighByte /\ "EOF" \notin HighByte
  BY DEF HighByte, Lead, Trail
<1>5. {"(", ")", "[", "]", "{", "}", "+", "-", "*", "/", "%", "=", "!", "<", ">", "&", "|", "^", "~", ":",
       ".", ",", ";", "BACKQUOTE", Quote, Backslash} \cap (NewlineChar \cup {"EOF"}) = {}
  BY DEF NewlineChar, Quote, Backslash
<1> QED BY <1>1, <1>2, <1>3, <1>4, <1>5 DEF NewlineChar

LEMMA PrintedIn ==
  ASSUME NEW p
  PROVE  /\ At(p) \in IdentContinue => Printed(p)
         /\ At(p) \in HexDigit => Printed(p)
         /\ At(p) \in SimpleEscape => Printed(p)
         /\ At(p) \in HighByte => Printed(p)
         /\ At(p) \in {Quote, Backslash} => Printed(p)
         /\ At(p) \in {"(", ")", "[", "]", "{", "}", "+", "-", "*", "/", "%", "=", "!", "<", ">", "&", "|", "^",
                       "~", ":", ".", ",", ";", "BACKQUOTE", Quote, Backslash} => Printed(p)
BY PrintedClasses DEF Printed

LEMMA ClearNone == ASSUME NEW p \in Nat, source \in Seq(STRING), p <= Past PROVE Clear(p, p)
BY TextPast DEF Clear

LEMMA ClearOne ==
  ASSUME source \in Seq(STRING), NEW p \in Nat, Printed(p)
  PROVE  p < Past /\ Clear(p, p + 1)
<1>1. p < Past /\ Past \in Nat
  BY TextPast DEF Printed
<1>2. At(p) \notin NewlineChar
  BY DEF Printed
<1>3. \A i \in p..((p + 1) - 1) : i = p
  OBVIOUS
<1> QED BY <1>1, <1>2, <1>3 DEF Clear

LEMMA ClearOn ==
  ASSUME source \in Seq(STRING), NEW p \in Nat, NEW q, NEW r, Clear(p, q), Clear(q, r)
  PROVE  Clear(p, r)
<1>1. q \in p..Past /\ r \in q..Past /\ Past \in Nat
  BY TextPast DEF Clear
<1>2. r \in p..Past
  BY <1>1
<1>3. \A i \in p..(r - 1) : i \in p..(q - 1) \/ i \in q..(r - 1)
  BY <1>1
<1> QED BY <1>2, <1>3 DEF Clear

\* Several printed bytes in a row.
LEMMA ClearPrinted ==
  ASSUME source \in Seq(STRING), NEW p \in Nat, NEW n \in Nat, n > 0, \A i \in p..(p + n - 1) : Printed(i)
  PROVE  p < Past /\ Clear(p, p + n)
<1>1. Past \in Nat
  BY TextPast
<1>2. p + n - 1 < Past /\ p < Past
  <2>1. \A i \in p..(p + n - 1) : i < Past
    <3>1. \A i \in p..(p + n - 1) : i \in Nat /\ Printed(i)
      OBVIOUS
    <3> QED BY <3>1, ClearOne
  <2>2. p \in p..(p + n - 1) /\ p + n - 1 \in p..(p + n - 1)
    OBVIOUS
  <2> QED BY <2>1, <2>2
<1>3. \A i \in p..(p + n - 1) : At(i) \notin NewlineChar
  BY DEF Printed
<1> QED BY <1>1, <1>2, <1>3 DEF Clear

LEMMA ClearRun ==
  ASSUME source \in Seq(STRING), NEW p \in Nat, p <= Past, NEW set, set \subseteq IdentContinue
  PROVE  Clear(p, Run(p, set)) /\ At(Run(p, set)) \notin set
<1>1. "EOF" \notin set
  BY PrintedClasses
<1>2. /\ Run(p, set) \in p..Past /\ At(Run(p, set)) \notin set
      /\ \A r \in p..(Run(p, set) - 1) : At(r) \in set
  BY <1>1, RunStops
<1>3. \A r \in p..(Run(p, set) - 1) : At(r) \notin NewlineChar
  BY <1>2, PrintedClasses
<1> QED BY <1>2, <1>3 DEF Clear

LEMMA HexClear ==
  ASSUME source \in Seq(STRING), NEW p \in Nat, NEW k \in Nat \ {0}, HexDigits(p + 2, k), Printed(p), Printed(p + 1)
  PROVE  Clear(p, p + (k + 2))
<1>1. ASSUME NEW i \in p..(p + (k + 2) - 1) PROVE Printed(i)
  <2>1. i = p \/ i = p + 1 \/ i \in (p + 2)..(p + 2 + k - 1)
    OBVIOUS
  <2>2. i \in (p + 2)..(p + 2 + k - 1) => Printed(i)
    BY PrintedIn DEF HexDigits
  <2> QED BY <2>1, <2>2
<1>2. k + 2 \in Nat /\ k + 2 > 0
  OBVIOUS
<1> QED BY <1>1, <1>2, ClearPrinted

\* An escape has no newline in it.
LEMMA EscapeClear ==
  ASSUME source \in Seq(STRING), NEW p \in Nat, At(p) = Backslash
  PROVE  ScanEscape(p) \in Nat /\ (ScanEscape(p) > 0 => Clear(p, p + ScanEscape(p)))
<1>0. Printed(p) /\ p + 1 \in Nat
  <2>1. At(p) \in {Quote, Backslash}
    OBVIOUS
  <2>2. Printed(p)
    BY <2>1, PrintedIn
  <2>3. p + 1 \in Nat
    OBVIOUS
  <2> QED BY <2>2, <2>3
<1>1. \/ ScanEscape(p) = 0
      \/ ScanEscape(p) = 2 /\ At(p + 1) \in SimpleEscape
      \/ ScanEscape(p) = 4 /\ At(p + 1) = "x" /\ HexDigits(p + 2, 2)
      \/ ScanEscape(p) = 6 /\ At(p + 1) = "u" /\ HexDigits(p + 2, 4)
      \/ ScanEscape(p) = 10 /\ At(p + 1) = "U" /\ HexDigits(p + 2, 8)
  BY DEF ScanEscape
<1>2. At(p + 1) \in {"x", "u", "U"} => Printed(p + 1)
  <2>1. {"x", "u", "U"} \subseteq IdentContinue
    BY DEF IdentContinue, IdentStart, Letter
  <2> QED BY <2>1, PrintedIn
<1>3. ASSUME At(p + 1) \in SimpleEscape PROVE Clear(p, p + 2)
  <2>1. Printed(p + 1)
    BY <1>3, PrintedIn
  <2>2. \A i \in p..(p + 2 - 1) : i = p \/ i = p + 1
    OBVIOUS
  <2>3. \A i \in p..(p + 2 - 1) : Printed(i)
    BY <1>0, <2>1, <2>2
  <2> QED BY <2>3, ClearPrinted
<1>4. ASSUME Printed(p + 1), HexDigits(p + 2, 2) PROVE Clear(p, p + 4)
  <2>1. Clear(p, p + (2 + 2))
    BY <1>0, <1>4, HexClear
  <2> QED BY <2>1
<1>5. ASSUME Printed(p + 1), HexDigits(p + 2, 4) PROVE Clear(p, p + 6)
  <2>1. Clear(p, p + (4 + 2))
    BY <1>0, <1>5, HexClear
  <2> QED BY <2>1
<1>6. ASSUME Printed(p + 1), HexDigits(p + 2, 8) PROVE Clear(p, p + 10)
  <2>1. Clear(p, p + (8 + 2))
    BY <1>0, <1>6, HexClear
  <2> QED BY <2>1
<1> QED BY <1>1, <1>2, <1>3, <1>4, <1>5, <1>6

\* Where the body of a string goes on, and where it goes on to.
BodyStops(q, check, text) ==
  \/ At(q) \in NewlineChar \cup {"EOF", Quote}
  \/ text /\ At(q) \in {"{", "}"} /\ At(q + 1) # At(q)
  \/ check /\ At(q) = Backslash /\ ~(ScanEscape(q) > 0)
BodyNext(q, check, text) ==
  IF text /\ At(q) \in {"{", "}"} THEN q + 2 ELSE IF check /\ At(q) = Backslash THEN q + ScanEscape(q) ELSE q + 1

BodyRound(g, q, check, text) ==
  CASE At(q) \in NewlineChar \cup {"EOF", Quote} -> q
    [] text /\ At(q) \in {"{", "}"} -> IF At(q + 1) = At(q) THEN g[q + 2] ELSE q
    [] check /\ At(q) = Backslash -> IF ScanEscape(q) > 0 THEN g[q + ScanEscape(q)] ELSE q
    [] OTHER -> g[q + 1]

LEMMA BodyFurther ==
  ASSUME source \in Seq(STRING), NEW check \in BOOLEAN, NEW text \in BOOLEAN, NEW q \in Nat,
         ~BodyStops(q, check, text)
  PROVE  q < Past /\ BodyNext(q, check, text) \in Nat /\ q < BodyNext(q, check, text)
         /\ Clear(q, BodyNext(q, check, text))
<1>1. Printed(q) /\ q < Past /\ Clear(q, q + 1)
  <2>1. Printed(q)
    BY DEF BodyStops, Printed
  <2> QED BY <2>1, ClearOne
<1>2. CASE text /\ At(q) \in {"{", "}"}
  <2>1. At(q + 1) = At(q)
    BY <1>2 DEF BodyStops
  <2>2. Printed(q + 1)
    BY <1>1, <2>1 DEF Printed
  <2>3. Clear(q + 1, (q + 1) + 1)
    BY <2>2, ClearOne
  <2>4. Clear(q, q + 2)
    <3>1. (q + 1) + 1 = q + 2
      OBVIOUS
    <3> QED BY <1>1, <2>3, <3>1, ClearOn
  <2>5. BodyNext(q, check, text) = q + 2
    BY <1>2 DEF BodyNext
  <2> QED BY <1>1, <2>4, <2>5
<1>3. CASE ~(text /\ At(q) \in {"{", "}"}) /\ check /\ At(q) = Backslash
  <2>1. ScanEscape(q) > 0
    BY <1>3 DEF BodyStops
  <2>2. ScanEscape(q) \in Nat /\ Clear(q, q + ScanEscape(q))
    BY <1>3, <2>1, EscapeClear
  <2>3. BodyNext(q, check, text) = q + ScanEscape(q)
    BY <1>3 DEF BodyNext
  <2> QED BY <1>1, <2>1, <2>2, <2>3
<1>4. CASE ~(text /\ At(q) \in {"{", "}"}) /\ ~(check /\ At(q) = Backslash)
  <2>1. BodyNext(q, check, text) = q + 1
    BY <1>4 DEF BodyNext
  <2> QED BY <1>1, <2>1
<1> QED BY <1>2, <1>3, <1>4

LEMMA BodyTo ==
  ASSUME source \in Seq(STRING), NEW check \in BOOLEAN, NEW text \in BOOLEAN
  PROVE  \A p \in Nat :
           Body(p, check, text) = IF BodyStops(p, check, text) THEN p
                                  ELSE Body(BodyNext(p, check, text), check, text)
<1> DEFINE D == {q \in Nat : ~BodyStops(q, check, text)}
           next == [q \in Nat |-> IF q \in D THEN BodyNext(q, check, text) ELSE q]
           stop == [q \in Nat |-> q]
<1>1. Past \in Nat
  BY TextPast
<1>2. \A q \in Nat : (IF q \in D THEN BodyNext(q, check, text) ELSE q) \in Nat
  BY BodyFurther
<1>3. next \in [Nat -> Nat] /\ stop \in [Nat -> Nat] /\ D \in SUBSET Nat
  BY <1>2
<1>4. \A q \in D : next[q] = BodyNext(q, check, text) /\ q < Past /\ q < next[q]
  BY BodyFurther
<1>5. \A q \in Nat : stop[q] = q
  OBVIOUS
<1> HIDE DEF next, stop
<1>6. PICK f : Loop(f, Nat, D, next, stop)
  BY <1>1, <1>3, <1>4, ScanExists
<1>7. ASSUME NEW q \in Nat
      PROVE  f[q] = IF BodyStops(q, check, text) THEN q ELSE f[BodyNext(q, check, text)]
  BY <1>4, <1>5, <1>6 DEF Loop
<1>8. f \in [Nat -> Nat]
  BY <1>6 DEF Loop
<1>9. ASSUME NEW q \in Nat, NEW g
      PROVE  BodyRound(g, q, check, text) = IF BodyStops(q, check, text) THEN q ELSE g[BodyNext(q, check, text)]
  <2>1. {"{", "}", Backslash} \cap (NewlineChar \cup {"EOF", Quote}) = {} /\ Backslash \notin {"{", "}"}
    BY DEF NewlineChar, Backslash, Quote
  <2>2. CASE At(q) \in NewlineChar \cup {"EOF", Quote}
    BY <2>1, <2>2 DEF BodyStops, BodyRound
  <2>3. CASE At(q) \notin NewlineChar \cup {"EOF", Quote} /\ text /\ At(q) \in {"{", "}"}
    BY <2>1, <2>3 DEF BodyStops, BodyNext, BodyRound
  <2>4. CASE /\ At(q) \notin NewlineChar \cup {"EOF", Quote} /\ ~(text /\ At(q) \in {"{", "}"})
             /\ check /\ At(q) = Backslash
    BY <2>1, <2>4 DEF BodyStops, BodyNext, BodyRound
  <2>5. CASE /\ At(q) \notin NewlineChar \cup {"EOF", Quote} /\ ~(text /\ At(q) \in {"{", "}"})
             /\ ~(check /\ At(q) = Backslash)
    BY <2>1, <2>5 DEF BodyStops, BodyNext, BodyRound
  <2> QED BY <2>2, <2>3, <2>4, <2>5
<1>10. f = [q \in Nat |-> BodyRound(f, q, check, text)]
  BY <1>7, <1>8, <1>9
<1>11. PICK g : g = [q \in Nat |-> BodyRound(g, q, check, text)] /\ \A p : Body(p, check, text) = g[p]
  BY <1>10 DEF Body, BodyRound
<1>12. \A q \in Nat : g[q] = BodyRound(g, q, check, text)
  BY <1>11
<1>13. \A q \in Nat : g[q] = IF BodyStops(q, check, text) THEN q ELSE g[BodyNext(q, check, text)]
  BY <1>9, <1>12
<1> QED BY <1>11, <1>13

\* The body of a string ends where a scan of it stops, on the line it begins on.
LEMMA BodyClear ==
  ASSUME source \in Seq(STRING), NEW check \in BOOLEAN, NEW text \in BOOLEAN
  PROVE  \A p \in 0..Past : /\ Clear(p, Body(p, check, text))
                            /\ BodyStops(Body(p, check, text), check, text)
<1> DEFINE T == {p \in 0..Past : Clear(p, Body(p, check, text)) /\ BodyStops(Body(p, check, text), check, text)}
<1>0. Past \in Nat
  BY TextPast
<1>1. ASSUME NEW p \in 0..Past, \A q \in (p + 1)..Past : q \in T
      PROVE  Clear(p, Body(p, check, text)) /\ BodyStops(Body(p, check, text), check, text)
  <2>0. p \in Nat /\ p <= Past
    BY <1>0
  <2>1. CASE BodyStops(p, check, text)
    <3>1. Body(p, check, text) = p
      BY <2>0, <2>1, BodyTo
    <3> QED BY <2>0, <2>1, <3>1, ClearNone
  <2>2. CASE ~BodyStops(p, check, text)
    <3> DEFINE q == BodyNext(p, check, text)
    <3>1. Body(p, check, text) = Body(q, check, text)
      BY <2>0, <2>2, BodyTo
    <3>2. q \in Nat /\ p < q /\ Clear(p, q)
      BY <2>0, <2>2, BodyFurther
    <3> HIDE DEF q
    <3>3. q \in (p + 1)..Past
      BY <1>0, <2>0, <3>2 DEF Clear
    <3>4. Clear(q, Body(q, check, text)) /\ BodyStops(Body(q, check, text), check, text)
      BY <1>1, <3>3
    <3> QED BY <2>0, <3>1, <3>2, <3>4, ClearOn
  <2> QED BY <2>1, <2>2
<1>2. \A p \in 0..Past : (\A q \in (p + 1)..Past : q \in T) => p \in T
  BY <1>1
<1> HIDE DEF T
<1>3. \A p \in 0..Past : p \in T
  BY <1>0, <1>2, DownInduces
<1> QED BY <1>3 DEF T

(******************************* the other loops ******************************)

\* An f-string skipped for its depth.
DeepEnds(q) == At(q) \in NewlineChar \cup {"EOF", Quote}
DeepNext(q) == IF At(q) = Backslash /\ At(q + 1) \notin NewlineChar \cup {"EOF"} THEN q + 2 ELSE q + 1
DeepStop(q) == IF At(q) = Quote THEN q + 1 ELSE q
DeepRound(g, q) ==
  CASE At(q) \in NewlineChar \cup {"EOF"} -> q
    [] At(q) = Backslash /\ At(q + 1) \notin NewlineChar \cup {"EOF"} -> g[q + 2]
    [] At(q) = Quote -> q + 1
    [] OTHER -> g[q + 1]

LEMMA DeepFurther ==
  ASSUME source \in Seq(STRING), NEW q \in Nat, ~DeepEnds(q)
  PROVE  q < Past /\ DeepNext(q) \in Nat /\ q < DeepNext(q) /\ Clear(q, DeepNext(q))
<1>1. q < Past /\ Clear(q, q + 1)
  <2>1. Printed(q)
    BY DEF DeepEnds, Printed
  <2> QED BY <2>1, ClearOne
<1>2. CASE At(q) = Backslash /\ At(q + 1) \notin NewlineChar \cup {"EOF"}
  <2>1. Printed(q + 1)
    BY <1>2 DEF Printed
  <2>2. Clear(q + 1, (q + 1) + 1)
    BY <2>1, ClearOne
  <2>3. Clear(q, q + 2)
    <3>1. (q + 1) + 1 = q + 2
      OBVIOUS
    <3> QED BY <1>1, <2>2, <3>1, ClearOn
  <2> QED BY <1>1, <1>2, <2>3 DEF DeepNext
<1>3. CASE ~(At(q) = Backslash /\ At(q + 1) \notin NewlineChar \cup {"EOF"})
  BY <1>1, <1>3 DEF DeepNext
<1> QED BY <1>2, <1>3

LEMMA DeepTo ==
  ASSUME source \in Seq(STRING)
  PROVE  \A p \in Nat : TooDeepEnd[p] = IF DeepEnds(p) THEN DeepStop(p) ELSE TooDeepEnd[DeepNext(p)]
<1> DEFINE D == {q \in Nat : ~DeepEnds(q)}
           next == [q \in Nat |-> IF q \in D THEN DeepNext(q) ELSE q]
           stop == [q \in Nat |-> DeepStop(q)]
<1>1. Past \in Nat
  BY TextPast
<1>2. \A q \in Nat : (IF q \in D THEN DeepNext(q) ELSE q) \in Nat /\ DeepStop(q) \in Nat
  BY DeepFurther DEF DeepStop
<1>3. next \in [Nat -> Nat] /\ stop \in [Nat -> Nat] /\ D \in SUBSET Nat
  BY <1>2
<1>4. \A q \in D : next[q] = DeepNext(q) /\ q < Past /\ q < next[q]
  BY DeepFurther
<1>5. \A q \in Nat : stop[q] = DeepStop(q)
  OBVIOUS
<1> HIDE DEF next, stop
<1>6. PICK f : Loop(f, Nat, D, next, stop)
  BY <1>1, <1>3, <1>4, ScanExists
<1>7. ASSUME NEW q \in Nat
      PROVE  f[q] = IF DeepEnds(q) THEN DeepStop(q) ELSE f[DeepNext(q)]
  BY <1>4, <1>5, <1>6 DEF Loop
<1>8. f \in [Nat -> Nat]
  BY <1>6 DEF Loop
<1>9. ASSUME NEW q \in Nat, NEW g
      PROVE  DeepRound(g, q) = IF DeepEnds(q) THEN DeepStop(q) ELSE g[DeepNext(q)]
  <2>1. /\ Quote \notin NewlineChar \cup {"EOF"} /\ Backslash \notin NewlineChar \cup {"EOF"}
        /\ Backslash # Quote
    BY DEF NewlineChar, Backslash, Quote
  <2>2. CASE At(q) \in NewlineChar \cup {"EOF"}
    BY <2>1, <2>2 DEF DeepRound, DeepEnds, DeepStop
  <2>3. CASE At(q) = Quote
    BY <2>1, <2>3 DEF DeepRound, DeepEnds, DeepStop
  <2>4. CASE At(q) = Backslash /\ At(q + 1) \notin NewlineChar \cup {"EOF"}
    BY <2>1, <2>4 DEF DeepRound, DeepEnds, DeepNext
  <2>5. CASE /\ At(q) \notin NewlineChar \cup {"EOF"} /\ At(q) # Quote
             /\ ~(At(q) = Backslash /\ At(q + 1) \notin NewlineChar \cup {"EOF"})
    BY <2>5 DEF DeepRound, DeepEnds, DeepNext
  <2> QED BY <2>2, <2>3, <2>4, <2>5
<1>10. f = [q \in Nat |-> DeepRound(f, q)]
  BY <1>7, <1>8, <1>9
<1>11. TooDeepEnd = [q \in Nat |-> DeepRound(TooDeepEnd, q)]
  BY <1>10 DEF TooDeepEnd, DeepRound
<1>12. \A q \in Nat : TooDeepEnd[q] = DeepRound(TooDeepEnd, q)
  BY <1>11
<1> QED BY <1>9, <1>12

LEMMA DeepClear ==
  ASSUME source \in Seq(STRING)
  PROVE  \A p \in 0..Past : Clear(p, TooDeepEnd[p])
<1> DEFINE T == {p \in 0..Past : Clear(p, TooDeepEnd[p])}
<1>0. Past \in Nat
  BY TextPast
<1>1. ASSUME NEW p \in 0..Past, \A q \in (p + 1)..Past : q \in T
      PROVE  Clear(p, TooDeepEnd[p])
  <2>0. p \in Nat /\ p <= Past
    BY <1>0
  <2>1. CASE DeepEnds(p)
    <3>1. TooDeepEnd[p] = DeepStop(p)
      BY <2>0, <2>1, DeepTo
    <3>2. At(p) = Quote => Clear(p, p + 1)
      <4>1. At(p) = Quote => Printed(p)
        BY PrintedIn
      <4> QED BY <2>0, <4>1, ClearOne
    <3> QED BY <2>0, <3>1, <3>2, ClearNone DEF DeepStop
  <2>2. CASE ~DeepEnds(p)
    <3> DEFINE q == DeepNext(p)
    <3>1. TooDeepEnd[p] = TooDeepEnd[q]
      BY <2>0, <2>2, DeepTo
    <3>2. q \in Nat /\ p < q /\ Clear(p, q)
      BY <2>0, <2>2, DeepFurther
    <3> HIDE DEF q
    <3>3. q \in (p + 1)..Past
      BY <1>0, <2>0, <3>2 DEF Clear
    <3>4. Clear(q, TooDeepEnd[q])
      BY <1>1, <3>3
    <3> QED BY <2>0, <3>1, <3>2, <3>4, ClearOn
  <2> QED BY <2>1, <2>2
<1>2. \A p \in 0..Past : (\A q \in (p + 1)..Past : q \in T) => p \in T
  BY <1>1
<1> HIDE DEF T
<1>3. \A p \in 0..Past : p \in T
  BY <1>0, <1>2, DownInduces
<1> QED BY <1>3 DEF T

(******************************* identifiers ******************************)

IdentNext(q) == IF At(q) \in IdentContinue THEN q + 1 ELSE q + Utf8Length(q)
IdentEnds(q) == At(q) \notin IdentContinue /\ Utf8Length(q) = 0
IdentRound(g, q) == CASE At(q) \in IdentContinue -> g[q + 1]
                      [] Utf8Length(q) > 0 -> g[q + Utf8Length(q)]
                      [] OTHER -> q

\* The bytes of a character are there, and none is a newline.
LEMMA Utf8Clear ==
  ASSUME source \in Seq(STRING), NEW p \in Nat
  PROVE  /\ Utf8Length(p) \in Nat
         /\ Utf8Length(p) > 0 => Clear(p, p + Utf8Length(p)) /\ At(p) \in HighByte
<1>1. \A b \in DOMAIN Lead : Lead[b] \in {2, 3, 4}
  BY DEF Lead
<1>2. CASE Utf8Length(p) = 0
  BY <1>2
<1>3. CASE Utf8Length(p) # 0
  <2>1. /\ At(p) \in DOMAIN Lead /\ Utf8Length(p) = Lead[At(p)]
        /\ \A i \in 1..(Lead[At(p)] - 1) : At(p + i) \in Trail
    BY <1>3 DEF Utf8Length
  <2>2. PICK n \in {2, 3, 4} : n = Utf8Length(p)
    BY <1>1, <2>1
  <2>3. At(p) \in HighByte /\ Trail \subseteq HighByte
    BY <2>1 DEF HighByte
  <2>4. ASSUME NEW i \in p..(p + n - 1) PROVE Printed(i)
    <3>1. i = p \/ (i - p \in 1..(n - 1) /\ p + (i - p) = i)
      OBVIOUS
    <3>2. At(i) \in HighByte
      BY <2>1, <2>2, <2>3, <3>1
    <3> QED BY <3>2, PrintedIn
  <2>5. n \in Nat /\ n > 0
    BY <2>2
  <2>6. Clear(p, p + n)
    BY <2>4, <2>5, ClearPrinted
  <2> QED BY <2>2, <2>3, <2>5, <2>6
<1> QED BY <1>2, <1>3

LEMMA IdentFurther ==
  ASSUME source \in Seq(STRING), NEW q \in Nat, ~IdentEnds(q)
  PROVE  q < Past /\ IdentNext(q) \in Nat /\ q < IdentNext(q) /\ Clear(q, IdentNext(q))
<1>1. CASE At(q) \in IdentContinue
  <2>1. Printed(q)
    BY <1>1, PrintedIn
  <2>2. q < Past /\ Clear(q, q + 1)
    BY <2>1, ClearOne
  <2> QED BY <1>1, <2>2 DEF IdentNext
<1>2. CASE At(q) \notin IdentContinue
  <2>1. Utf8Length(q) \in Nat /\ Utf8Length(q) > 0
    BY <1>2, Utf8Clear DEF IdentEnds
  <2>2. Clear(q, q + Utf8Length(q)) /\ At(q) \in HighByte
    BY <2>1, Utf8Clear
  <2>3. Printed(q)
    BY <2>2, PrintedIn
  <2>4. q < Past
    BY <2>3, ClearOne
  <2> QED BY <1>2, <2>1, <2>2, <2>4 DEF IdentNext
<1> QED BY <1>1, <1>2

LEMMA IdentTo ==
  ASSUME source \in Seq(STRING)
  PROVE  \A p \in Nat : IdentEnd[p] = IF IdentEnds(p) THEN p ELSE IdentEnd[IdentNext(p)]
<1> DEFINE D == {q \in Nat : ~IdentEnds(q)}
           next == [q \in Nat |-> IF q \in D THEN IdentNext(q) ELSE q]
           stop == [q \in Nat |-> q]
<1>1. Past \in Nat
  BY TextPast
<1>2. \A q \in Nat : (IF q \in D THEN IdentNext(q) ELSE q) \in Nat
  BY IdentFurther
<1>3. next \in [Nat -> Nat] /\ stop \in [Nat -> Nat] /\ D \in SUBSET Nat
  BY <1>2
<1>4. \A q \in D : next[q] = IdentNext(q) /\ q < Past /\ q < next[q]
  BY IdentFurther
<1>5. \A q \in Nat : stop[q] = q
  OBVIOUS
<1> HIDE DEF next, stop
<1>6. PICK f : Loop(f, Nat, D, next, stop)
  BY <1>1, <1>3, <1>4, ScanExists
<1>7. ASSUME NEW q \in Nat
      PROVE  f[q] = IF IdentEnds(q) THEN q ELSE f[IdentNext(q)]
  BY <1>4, <1>5, <1>6 DEF Loop
<1>8. f \in [Nat -> Nat]
  BY <1>6 DEF Loop
<1>9. ASSUME NEW q \in Nat, NEW g
      PROVE  IdentRound(g, q) = IF IdentEnds(q) THEN q ELSE g[IdentNext(q)]
  <2>1. Utf8Length(q) \in Nat /\ (Utf8Length(q) > 0 => At(q) \in HighByte)
    BY Utf8Clear
  <2>5. HighByte \cap IdentContinue = {}
    BY DEF HighByte, Lead, Trail, IdentContinue, IdentStart, Letter, Digit
  <2>2. CASE At(q) \in IdentContinue
    BY <2>1, <2>2, <2>5 DEF IdentRound, IdentEnds, IdentNext
  <2>3. CASE At(q) \notin IdentContinue /\ Utf8Length(q) > 0
    BY <2>3 DEF IdentRound, IdentEnds, IdentNext
  <2>4. CASE At(q) \notin IdentContinue /\ Utf8Length(q) = 0
    BY <2>4 DEF IdentRound, IdentEnds
  <2> QED BY <2>1, <2>2, <2>3, <2>4
<1>10. f = [q \in Nat |-> IdentRound(f, q)]
  BY <1>7, <1>8, <1>9
<1>11. IdentEnd = [q \in Nat |-> IdentRound(IdentEnd, q)]
  BY <1>10 DEF IdentEnd, IdentRound
<1>12. \A q \in Nat : IdentEnd[q] = IdentRound(IdentEnd, q)
  BY <1>11
<1> QED BY <1>9, <1>12

LEMMA IdentClear ==
  ASSUME source \in Seq(STRING)
  PROVE  \A p \in 0..Past : Clear(p, IdentEnd[p])
<1> DEFINE T == {p \in 0..Past : Clear(p, IdentEnd[p])}
<1>0. Past \in Nat
  BY TextPast
<1>1. ASSUME NEW p \in 0..Past, \A q \in (p + 1)..Past : q \in T
      PROVE  Clear(p, IdentEnd[p])
  <2>0. p \in Nat /\ p <= Past
    BY <1>0
  <2>1. CASE IdentEnds(p)
    <3>1. IdentEnd[p] = p
      BY <2>0, <2>1, IdentTo
    <3> QED BY <2>0, <3>1, ClearNone
  <2>2. CASE ~IdentEnds(p)
    <3> DEFINE q == IdentNext(p)
    <3>1. IdentEnd[p] = IdentEnd[q]
      BY <2>0, <2>2, IdentTo
    <3>2. q \in Nat /\ p < q /\ Clear(p, q)
      BY <2>0, <2>2, IdentFurther
    <3> HIDE DEF q
    <3>3. q \in (p + 1)..Past
      BY <1>0, <2>0, <3>2 DEF Clear
    <3>4. Clear(q, IdentEnd[q])
      BY <1>1, <3>3
    <3> QED BY <2>0, <3>1, <3>2, <3>4, ClearOn
  <2> QED BY <2>1, <2>2
<1>2. \A p \in 0..Past : (\A q \in (p + 1)..Past : q \in T) => p \in T
  BY <1>1
<1> HIDE DEF T
<1>3. \A p \in 0..Past : p \in T
  BY <1>0, <1>2, DownInduces
<1> QED BY <1>3 DEF T

\* An identifier that begins has at least the byte it begins with.
LEMMA IdentSome ==
  ASSUME source \in Seq(STRING), NEW p \in Nat, ~IdentEnds(p)
  PROVE  Clear(p, IdentEnd[p]) /\ p < IdentEnd[p]
<1> DEFINE q == IdentNext(p)
<1>1. IdentEnd[p] = IdentEnd[q]
  BY IdentTo
<1>2. p < Past /\ q \in Nat /\ p < q /\ Clear(p, q)
  BY IdentFurther
<1> HIDE DEF q
<1>3. Past \in Nat /\ q \in 0..Past /\ p \in 0..Past
  BY <1>2, TextPast DEF Clear
<1>4. Clear(q, IdentEnd[q]) /\ Clear(p, IdentEnd[p])
  BY <1>3, IdentClear
<1>5. IdentEnd[q] \in q..Past
  BY <1>4 DEF Clear
<1> QED BY <1>1, <1>2, <1>4, <1>5

\* The format of an interpolation ends at its brace, or where the line or the text does.
LEMMA FormatClear ==
  ASSUME source \in Seq(STRING), NEW b \in Nat, b <= Past
  PROVE  Clear(b, FormatEnd(b)) /\ (At(FormatEnd(b)) \in NewlineChar \cup {"EOF", "}"})
<1> DEFINE T == {e \in b..Past : FormatStops(b, e)}
<1>0. Past \in Nat /\ At(Past) = "EOF"
  BY TextPast
<1>1. Past \in T
  BY <1>0 DEF FormatStops
<1> HIDE DEF T
<1>2. \E e \in b..Past : e \in T /\ \A r \in b..(e - 1) : r \notin T
  BY <1>0, <1>1, FirstFrom
<1>3. \E e \in b..Past : FormatStops(b, e) /\ \A r \in b..(e - 1) : ~FormatStops(b, r)
  <2>1. PICK e \in b..Past : e \in T /\ \A r \in b..(e - 1) : r \notin T
    BY <1>2
  <2>2. \A r \in b..(e - 1) : r \in b..Past
    BY <1>0
  <2> QED BY <2>1, <2>2 DEF T
<1> DEFINE e == FormatEnd(b)
<1>4. e \in b..Past /\ FormatStops(b, e) /\ \A r \in b..(e - 1) : ~FormatStops(b, r)
  BY <1>3 DEF FormatEnd
<1> HIDE DEF e
<1>5. At(e) \in NewlineChar \cup {"EOF", "}"}
  BY <1>4 DEF FormatStops
<1>6. \A r \in b..(e - 1) : At(r) \notin NewlineChar
  BY <1>4 DEF FormatStops
<1> QED BY <1>4, <1>5, <1>6 DEF e, Clear

(******************************** the reports *******************************)

\* A finite set of naturals has an element with k - 1 smaller ones, for every k up to its size.
LEMMA KthElement ==
  ASSUME NEW n \in Nat, NEW S \in SUBSET (0..n), NEW k \in 1..Cardinality(S)
  PROVE  \E a \in S : Cardinality({b \in S : b < a}) = k - 1
<1> DEFINE below(x) == {b \in S : b < x}
<1>0. \A b \in S : b \in Nat /\ b < n + 1 /\ ~(b < 0)
  OBVIOUS
<1>1. IsFiniteSet(S) /\ Cardinality(S) \in Nat
  <2>1. IsFiniteSet(0..n)
    BY FS_Interval
  <2> QED BY <2>1, FS_Subset, FS_CardinalityType
<1>2. \A x \in Nat : IsFiniteSet(below(x)) /\ Cardinality(below(x)) \in Nat
  <2>1. \A x \in Nat : below(x) \subseteq S
    OBVIOUS
  <2> QED BY <1>1, <2>1, FS_Subset, FS_CardinalityType
<1> DEFINE T == {x \in 0..(n + 1) : Cardinality(below(x)) >= k}
<1>3. n + 1 \in T
  <2>1. below(n + 1) = S
    BY <1>0
  <2> QED BY <1>1, <2>1
<1>4. 0 \notin T
  <2>1. below(0) = {}
    BY <1>0
  <2> QED BY <2>1, FS_EmptySet
<1>5. PICK q \in 0..(n + 1) : q \in T /\ \A r \in 0..(q - 1) : r \notin T
  <2>1. 0 \in Nat /\ n + 1 \in Nat /\ 0 <= n + 1
    OBVIOUS
  <2> HIDE DEF T
  <2> QED BY <1>3, <2>1, FirstFrom, ZenonT(40)
<1>6. q # 0
  BY <1>4, <1>5
<1> DEFINE a == q - 1
<1>7. a \in Nat /\ a \in 0..(q - 1) /\ a \in 0..(n + 1) /\ q = a + 1
  BY <1>6
<1>8. ~(Cardinality(below(a)) >= k) /\ Cardinality(below(q)) >= k
  BY <1>5, <1>7
<1>9. below(q) = IF a \in S THEN below(a) \cup {a} ELSE below(a)
  <2>1. \A b \in S : b < q <=> b < a \/ b = a
    BY <1>0, <1>7
  <2>2. ~(a < a)
    BY <1>7
  <2> QED BY <2>1, <2>2
<1>10. a \in S /\ Cardinality(below(q)) = Cardinality(below(a)) + 1
  <2>1. a \in S
    BY <1>8, <1>9
  <2>2. a \notin below(a) /\ below(q) = below(a) \cup {a}
    BY <1>7, <1>9, <2>1
  <2> HIDE DEF below
  <2>3. Cardinality(below(a) \cup {a}) = Cardinality(below(a)) + 1
    BY <1>2, <1>7, <2>2, FS_AddElement
  <2> QED BY <2>1, <2>2, <2>3
<1>11. Cardinality(below(a)) = k - 1
  <2>1. Cardinality(below(a)) \in Nat /\ k \in Nat
    BY <1>2, <1>7
  <2> HIDE DEF below, a
  <2> QED BY <1>8, <1>10, <2>1
<1> QED BY <1>10, <1>11

\* The bare carriage returns from p up to q.
ReturnsIn(p, q) == {i \in p..(q - 1) : BareReturn(i)}
Returns(p, q)   == Cardinality(ReturnsIn(p, q))

LEMMA ReturnsFinite ==
  ASSUME NEW p \in Nat, NEW q \in Nat
  PROVE  IsFiniteSet(ReturnsIn(p, q)) /\ Returns(p, q) \in Nat
<1>1. IsFiniteSet(p..(q - 1)) /\ ReturnsIn(p, q) \subseteq p..(q - 1)
  BY FS_Interval DEF ReturnsIn
<1>2. IsFiniteSet(ReturnsIn(p, q))
  BY <1>1, FS_Subset
<1> QED BY <1>2, FS_CardinalityType DEF Returns

LEMMA ReturnsAdd ==
  ASSUME NEW p \in Nat, NEW q \in Nat, NEW r \in Nat, p <= q, q <= r
  PROVE  Returns(p, r) = Returns(p, q) + Returns(q, r)
<1>1. ReturnsIn(p, r) = ReturnsIn(p, q) \cup ReturnsIn(q, r) /\ ReturnsIn(p, q) \cap ReturnsIn(q, r) = {}
  BY DEF ReturnsIn
<1>2. /\ IsFiniteSet(ReturnsIn(p, q)) /\ IsFiniteSet(ReturnsIn(q, r))
      /\ Returns(p, q) \in Nat /\ Returns(q, r) \in Nat
  BY ReturnsFinite
<1>3. Cardinality(ReturnsIn(p, q) \cup ReturnsIn(q, r)) =
        Cardinality(ReturnsIn(p, q)) + Cardinality(ReturnsIn(q, r)) - Cardinality(ReturnsIn(p, q) \cap ReturnsIn(q, r))
  BY <1>2, FS_Union
<1> QED BY <1>1, <1>2, <1>3, FS_EmptySet DEF Returns

LEMMA NoReturns ==
  ASSUME source \in Seq(STRING), NEW p \in Nat, NEW q, Clear(p, q)
  PROVE  Returns(p, q) = 0
<1>1. \A i \in p..(q - 1) : ~BareReturn(i)
  BY Newlines DEF Clear
<1>2. ReturnsIn(p, q) = {}
  BY <1>1 DEF ReturnsIn
<1> QED BY <1>2, FS_EmptySet DEF Returns

\* A stretch reports each of its bare carriage returns, where the scan stands behind it.
LEMMA ReportsReturns ==
  ASSUME NEW p \in Nat, NEW q \in Nat, p <= q
  PROVE  ReturnReports(p, q) \in Seq(p..q) /\ Len(ReturnReports(p, q)) = Returns(p, q)
<1> DEFINE after == {i + 1 : i \in ReturnsIn(p, q)}
           rep == ReturnReports(p, q)
<1>1. rep = [k \in 1..Cardinality(after) |-> CHOOSE a \in after : Cardinality({b \in after : b < a}) = k - 1]
  BY DEF ReturnReports, ReturnsIn, Kth
<1>2. after \subseteq p..q /\ after \subseteq 0..q
  BY DEF ReturnsIn
<1>3. Cardinality(after) = Returns(p, q)
  <2> DEFINE f == [i \in ReturnsIn(p, q) |-> i + 1]
  <2>0. ReturnsIn(p, q) \subseteq Nat
    BY DEF ReturnsIn
  <2>1. f \in Bijection(ReturnsIn(p, q), after)
    BY <2>0 DEF Bijection, Injection, Surjection, IsInjective
  <2>2. ExistsBijection(ReturnsIn(p, q), after)
    BY <2>1 DEF ExistsBijection
  <2> HIDE DEF after
  <2> QED BY <2>2, ReturnsFinite, FS_Bijection DEF Returns
<1>4. Returns(p, q) \in Nat
  BY ReturnsFinite
<1> HIDE DEF after, rep
<1>5. ASSUME NEW k \in 1..Cardinality(after)
      PROVE  (CHOOSE a \in after : Cardinality({b \in after : b < a}) = k - 1) \in p..q
  <2>1. \E a \in after : Cardinality({b \in after : b < a}) = k - 1
    BY <1>2, <1>5, KthElement
  <2> QED BY <1>2, <2>1
<1>6. rep \in Seq(p..q)
  <2>1. rep \in [1..Cardinality(after) -> p..q]
    BY <1>1, <1>5
  <2> QED BY <1>3, <1>4, <2>1
<1>7. Len(rep) = Cardinality(after)
  BY <1>1, <1>3, <1>4
<1> QED BY <1>3, <1>6, <1>7 DEF rep

(***************************** what a scan finds ****************************)

Stands(s)   == Right(s.from) /\ Right(s.to) /\ s.end = s.to.pos /\ s.from.pos <= s.end
Begun(c, s) == \/ s.from = c
               \/ s.from = Advance(c, 1) /\ At(c.pos) = ":" /\ s.type \in {"FSTRING_FORMAT", "INVALID"}
\* A report for each bare carriage return passed, and one for a mistake.
Reported(p, s) == /\ s.errs \in Seq(p..Past)
                  /\ Len(s.errs) = Returns(p, s.end) + (IF s.type = "INVALID" THEN 1 ELSE 0)
Sound(c, s) == Stands(s) /\ Begun(c, s) /\ Reported(c.pos, s) /\ s.type \notin {"none", "EOF"}
Ordinary(c, s) == Sound(c, s) /\ s.from.pos < s.end

LEMMA RightFields ==
  ASSUME source \in Seq(STRING), NEW c, Right(c)
  PROVE  c \in Cursor /\ c.pos \in Nat /\ 1 <= c.pos /\ c.pos <= Past /\ Past \in Nat
BY TextPast DEF Right

\* A scan that reads on to q on the line it is on.
LEMMA AlongStands ==
  ASSUME source \in Seq(STRING), NEW c, Right(c), NEW q, Clear(c.pos, q)
  PROVE  /\ Right(Advance(c, q - c.pos)) /\ Advance(c, q - c.pos).pos = q
         /\ q \in Nat /\ c.pos <= q /\ q <= Past
<1>1. c.pos \in Nat /\ Past \in Nat
  BY RightFields
<1>2. q \in c.pos..Past /\ \A i \in c.pos..(q - 1) : At(i) \notin NewlineChar
  BY DEF Clear
<1>3. Right(Advance(c, q - c.pos)) /\ Advance(c, q - c.pos).pos = q
  BY <1>2, AdvanceRight
<1> QED BY <1>1, <1>2, <1>3

Makes(c, from, q, type, errs, does) ==
  LET s == Found(type, from, Advance(from, q - from.pos), errs, does)
  IN  Sound(c, s) /\ s.end = q /\ s.from = from /\ s.type = type /\ s.does = does

LEMMA FoundSound ==
  ASSUME source \in Seq(STRING), NEW c, Right(c), NEW from, Right(from), c.pos <= from.pos, NEW q,
         Clear(c.pos, q), Clear(from.pos, q), NEW type, type \notin {"none", "EOF"}, NEW does,
         NEW errs, errs \in Seq(c.pos..Past), Len(errs) = IF type = "INVALID" THEN 1 ELSE 0,
         \/ from = c
         \/ from = Advance(c, 1) /\ At(c.pos) = ":" /\ type \in {"FSTRING_FORMAT", "INVALID"}
  PROVE  Makes(c, from, q, type, errs, does)
<1> DEFINE to == Advance(from, q - from.pos)
           s == Found(type, from, to, errs, does)
<1>1. /\ s.from = from /\ s.to = to /\ s.end = to.pos /\ s.type = type /\ s.errs = errs /\ s.does = does
  BY DEF Found
<1>2. Right(to) /\ to.pos = q /\ from.pos <= q
  BY AlongStands
<1>3. Returns(c.pos, q) = 0
  BY NoReturns, RightFields
<1> HIDE DEF s, to
<1>4. Stands(s)
  BY <1>1, <1>2 DEF Stands
<1>5. Begun(c, s)
  BY <1>1 DEF Begun
<1>6. Reported(c.pos, s)
  <2>1. Len(errs) = 0 + (IF type = "INVALID" THEN 1 ELSE 0)
    OBVIOUS
  <2> QED BY <1>1, <1>2, <1>3, <2>1 DEF Reported
<1> QED BY <1>1, <1>2, <1>4, <1>5, <1>6 DEF Sound, s, to, Makes

LEMMA GoodOrdinary ==
  ASSUME source \in Seq(STRING), NEW c, Right(c), NEW q, Clear(c.pos, q), c.pos < q,
         NEW type, type \notin {"INVALID", "none", "EOF"}
  PROVE  Ordinary(c, Good(type, c, q))
<1>1. c.pos \in Nat /\ c.pos <= c.pos
  BY RightFields
<1>2. <<>> \in Seq(c.pos..Past) /\ Len(<<>>) = 0
  BY EmptySeq
<1>3. Len(<<>>) = IF type = "INVALID" THEN 1 ELSE 0
  BY <1>2
<1>4. Makes(c, c, q, type, <<>>, "none")
  BY <1>1, <1>2, <1>3, FoundSound
<1> QED BY <1>4 DEF Ordinary, Makes, Good

LEMMA OneReport ==
  ASSUME source \in Seq(STRING), NEW a, NEW q, q \in a..Past
  PROVE  <<q>> \in Seq(a..Past) /\ Len(<<q>>) = 1 /\ <<q>>[1] = q
OBVIOUS

LEMMA BadOrdinary ==
  ASSUME source \in Seq(STRING), NEW c, Right(c), NEW q, Clear(c.pos, q), c.pos < q
  PROVE  Ordinary(c, Bad(c, q))
<1>1. c.pos \in Nat /\ c.pos <= c.pos
  BY RightFields
<1>2. <<q>> \in Seq(c.pos..Past) /\ Len(<<q>>) = 1
  BY OneReport DEF Clear
<1>3. Len(<<q>>) = IF "INVALID" = "INVALID" THEN 1 ELSE 0
  BY <1>2
<1>4. Makes(c, c, q, "INVALID", <<q>>, "none")
  BY <1>1, <1>2, <1>3, FoundSound
<1> QED BY <1>4 DEF Ordinary, Makes, Bad

(********************************* the numbers ******************************)

LEMMA DigitSets ==
  /\ \A base : BaseDigits(base) \cup {"_"} \subseteq IdentContinue
  /\ Digit \subseteq IdentContinue
<1>1. HexDigit \subseteq IdentContinue /\ Digit \subseteq IdentContinue /\ "_" \in IdentContinue
  BY DEF IdentContinue, IdentStart, HexDigit, Digit, Letter
<1>2. {"0", "1"} \subseteq Digit
  BY DEF Digit
<1>3. ASSUME NEW base PROVE BaseDigits(base) \subseteq HexDigit \cup Digit
  <2>1. CASE base = 16
    BY <2>1 DEF BaseDigits
  <2>2. CASE base = 2
    BY <1>2, <2>2 DEF BaseDigits
  <2>3. CASE base = 10
    BY <2>3 DEF BaseDigits
  <2>4. CASE base # 16 /\ base # 2 /\ base # 10
    BY <2>4 DEF BaseDigits
  <2> QED BY <2>1, <2>2, <2>3, <2>4
<1> QED BY <1>1, <1>3

LEMMA DigitsClear ==
  ASSUME source \in Seq(STRING), NEW p \in Nat, p <= Past, NEW base
  PROVE  Clear(p, DigitsEnd(p, base))
BY ClearRun, DigitSets DEF DigitsEnd

LEMMA IdentRunClear ==
  ASSUME source \in Seq(STRING), NEW p \in Nat, p <= Past
  PROVE  Clear(p, Run(p, IdentContinue))
BY ClearRun

\* On from a place reached.
LEMMA ClearFurther ==
  ASSUME source \in Seq(STRING), NEW p \in Nat, NEW q, Clear(p, q), Printed(q)
  PROVE  Clear(p, q + 1) /\ q + 1 \in Nat /\ q + 1 <= Past /\ p < q + 1
<1>1. q \in Nat /\ p <= q /\ Past \in Nat
  BY TextPast DEF Clear
<1>2. q < Past /\ Clear(q, q + 1)
  BY <1>1, ClearOne
<1>3. Clear(p, q + 1)
  BY <1>2, ClearOn
<1> QED BY <1>1, <1>2, <1>3

LEMMA ExponentOrdinary ==
  ASSUME source \in Seq(STRING), NEW c, Right(c), NEW r, Clear(c.pos, r), c.pos < r, NEW type \in {"INT", "FLOAT"}
  PROVE  Ordinary(c, ScanExponent(c, r, type))
<1>0. c.pos \in Nat /\ r \in Nat /\ Past \in Nat /\ r <= Past
  BY RightFields DEF Clear
<1>1. CASE At(r) \notin {"e", "E"}
  <2>1. Ordinary(c, Good(type, c, r))
    BY GoodOrdinary
  <2> QED BY <1>1, <2>1 DEF ScanExponent
<1>2. CASE At(r) \in {"e", "E"}
  <2> DEFINE t == IF At(r + 1) \in {"+", "-"} THEN r + 2 ELSE r + 1
  <2>1. {"e", "E"} \subseteq IdentContinue
    BY DEF IdentContinue, IdentStart, Letter
  <2>2. Printed(r)
    BY <1>2, <2>1, PrintedIn
  <2>3. Clear(c.pos, r + 1) /\ r + 1 \in Nat /\ r + 1 <= Past
    BY <1>0, <2>2, ClearFurther
  <2>4. Clear(c.pos, t) /\ t \in Nat /\ t <= Past /\ c.pos < t
    <3>1. CASE At(r + 1) \in {"+", "-"}
      <4>1. Printed(r + 1)
        BY <3>1, PrintedIn
      <4>2. Clear(c.pos, (r + 1) + 1) /\ (r + 1) + 1 \in Nat /\ (r + 1) + 1 <= Past
        BY <1>0, <2>3, <4>1, ClearFurther
      <4>3. (r + 1) + 1 = r + 2
        BY <1>0
      <4>4. Clear(c.pos, r + 2) /\ r + 2 <= Past
        BY <4>2, <4>3
      <4> QED BY <1>0, <3>1, <4>4
    <3>2. CASE At(r + 1) \notin {"+", "-"}
      BY <1>0, <2>3, <3>2
    <3> QED BY <3>1, <3>2
  <2> HIDE DEF t
  <2>5. Clear(t, DigitsEnd(t, 10)) /\ Clear(t, Run(t, IdentContinue))
    BY <2>4, DigitsClear, IdentRunClear
  <2>6. Clear(c.pos, DigitsEnd(t, 10)) /\ Clear(c.pos, Run(t, IdentContinue))
    BY <1>0, <2>4, <2>5, ClearOn
  <2>7. c.pos < DigitsEnd(t, 10) /\ c.pos < Run(t, IdentContinue)
    BY <1>0, <2>4, <2>5 DEF Clear
  <2>8. Ordinary(c, Good("FLOAT", c, DigitsEnd(t, 10))) /\ Ordinary(c, Bad(c, Run(t, IdentContinue)))
    BY <2>6, <2>7, GoodOrdinary, BadOrdinary
  <2>9. ScanExponent(c, r, type) \in {Good("FLOAT", c, DigitsEnd(t, 10)), Bad(c, Run(t, IdentContinue))}
    BY <1>2 DEF ScanExponent, t
  <2> QED BY <2>8, <2>9
<1> QED BY <1>1, <1>2

LEMMA FractionOrdinary ==
  ASSUME source \in Seq(STRING), NEW c, Right(c), NEW p, Clear(c.pos, p), c.pos < p
  PROVE  Ordinary(c, ScanFraction(c, p))
<1>0. c.pos \in Nat /\ p \in Nat /\ Past \in Nat /\ p <= Past
  BY RightFields DEF Clear
<1>1. Clear(p, DigitsEnd(p, 10)) /\ Clear(p, Run(p, IdentContinue))
  BY <1>0, DigitsClear, IdentRunClear
<1>2. Clear(c.pos, DigitsEnd(p, 10)) /\ Clear(c.pos, Run(p, IdentContinue))
  BY <1>0, <1>1, ClearOn
<1>3. c.pos < DigitsEnd(p, 10) /\ c.pos < Run(p, IdentContinue)
  BY <1>0, <1>1 DEF Clear
<1>4. Ordinary(c, ScanExponent(c, DigitsEnd(p, 10), "FLOAT")) /\ Ordinary(c, Bad(c, Run(p, IdentContinue)))
  BY <1>2, <1>3, ExponentOrdinary, BadOrdinary
<1> QED BY <1>4 DEF ScanFraction

LEMMA PrintedOne ==
  ASSUME NEW p
  PROVE  /\ At(p) \in Digit => Printed(p)
         /\ At(p) \in IdentStart => Printed(p)
<1>1. Digit \subseteq IdentContinue /\ IdentStart \subseteq IdentContinue
  BY DEF IdentContinue
<1> QED BY <1>1, PrintedIn

LEMMA NumberOrdinary ==
  ASSUME source \in Seq(STRING), NEW c, Right(c),
         At(c.pos) \in Digit \/ (At(c.pos) = "." /\ At(c.pos + 1) \in Digit)
  PROVE  Ordinary(c, ScanNumber(c))
<1> DEFINE p == c.pos
           b == Base(p)
           q == IF b = 10 THEN p ELSE IF At(p + 2) = "_" THEN p + 3 ELSE p + 2
           r == DigitsEnd(q, b)
<1>0. p \in Nat /\ Past \in Nat /\ p <= Past
  BY RightFields
<1>1. Printed(p)
  BY PrintedOne, PrintedIn
<1>2. p < Past /\ Clear(p, p + 1)
  BY <1>0, <1>1, ClearOne
<1>3. CASE At(p) = "."
  <2>1. Ordinary(c, ScanFraction(c, p + 1))
    BY <1>0, <1>2, FractionOrdinary
  <2> QED BY <1>3, <2>1 DEF ScanNumber
<1>4. CASE At(p) # "."
  <2>1. At(p) \in Digit
    BY <1>4
  <2>2. Clear(p, q) /\ q \in Nat /\ p <= q /\ q <= Past
    <3>1. CASE b = 10
      BY <1>0, <3>1, ClearNone
    <3>2. CASE b # 10
      <4>1. At(p + 1) \in {"x", "X", "o", "O", "b", "B"}
        BY <3>2 DEF Base
      <4>2. {"x", "X", "o", "O", "b", "B"} \subseteq IdentContinue /\ "_" \in IdentContinue
        BY DEF IdentContinue, IdentStart, Letter
      <4>3. Printed(p + 1) /\ (At(p + 2) = "_" => Printed(p + 2))
        BY <4>1, <4>2, PrintedIn
      <4>4. Clear(p, (p + 1) + 1) /\ (p + 1) + 1 \in Nat /\ (p + 1) + 1 <= Past
        BY <1>0, <1>2, <4>3, ClearFurther
      <4>5. (p + 1) + 1 = p + 2 /\ (p + 2) + 1 = p + 3
        BY <1>0
      <4>6. Clear(p, p + 2) /\ p + 2 <= Past
        BY <4>4, <4>5
      <4>7. At(p + 2) = "_" => Clear(p, (p + 2) + 1) /\ (p + 2) + 1 <= Past
        BY <1>0, <4>3, <4>6, ClearFurther
      <4>8. At(p + 2) = "_" => Clear(p, p + 3) /\ p + 3 <= Past
        BY <4>5, <4>7
      <4>9. CASE At(p + 2) = "_"
        <5>1. q = p + 3
          BY <3>2, <4>9
        <5>2. Clear(p, p + 3) /\ p + 3 <= Past
          BY <4>8, <4>9
        <5>3. p + 3 \in Nat /\ p <= p + 3
          BY <1>0
        <5> HIDE DEF q
        <5> QED BY <5>1, <5>2, <5>3
      <4>10. CASE At(p + 2) # "_"
        <5>1. q = p + 2
          BY <3>2, <4>10
        <5> HIDE DEF q
        <5> QED BY <1>0, <4>6, <5>1
      <4> QED BY <4>9, <4>10
    <3> QED BY <3>1, <3>2
  <2>3. b = 10 => q = p
    OBVIOUS
  <2> HIDE DEF q
  <2>4. Clear(q, r) /\ Clear(q, Run(q, IdentContinue))
    BY <2>2, DigitsClear, IdentRunClear
  <2>5. Clear(p, r) /\ Clear(p, Run(q, IdentContinue))
    BY <1>0, <2>2, <2>4, ClearOn
  <2>6. r \in Nat /\ q <= r /\ r <= Past /\ q <= Run(q, IdentContinue) /\ Run(q, IdentContinue) \in Nat
    BY <1>0, <2>2, <2>4 DEF Clear
  <2>7. p < Run(q, IdentContinue)
    <3>1. CASE b = 10
      <4>1. At(q) \in IdentContinue
        BY <2>1, <2>3, <3>1, DigitSets
      <4>2. "EOF" \notin IdentContinue
        BY PrintedClasses
      <4>3. At(Run(q, IdentContinue)) \notin IdentContinue
        BY <2>2, <4>2, RunStops
      <4>4. Run(q, IdentContinue) # q
        BY <4>1, <4>3
      <4> QED BY <1>0, <2>2, <2>6, <4>4
    <3>2. CASE b # 10
      <4>1. q \in {p + 2, p + 3}
        BY <3>2 DEF q
      <4> QED BY <1>0, <2>2, <2>6, <4>1
    <3> QED BY <3>1, <3>2
  <2> HIDE DEF r, b
  <2>8. Ordinary(c, Bad(c, Run(q, IdentContinue)))
    BY <2>5, <2>7, BadOrdinary
  <2>9. ScanNumber(c) =
          IF ~ScanDigits(q, b, b = 10) \/ r = q THEN Bad(c, Run(q, IdentContinue))
          ELSE IF b # 10 THEN Good("INT", c, r)
          ELSE IF At(r) # "." THEN ScanExponent(c, r, "INT")
          ELSE IF At(r + 1) \in Digit THEN ScanFraction(c, r + 1)
          ELSE Bad(c, r + 1)
    BY <1>4 DEF ScanNumber, q, r, b
  <2>10. CASE r = q
    BY <2>8, <2>9, <2>10
  <2>11. CASE r # q
    <3>1. p < r
      BY <1>0, <2>2, <2>6, <2>11
    <3>2. Ordinary(c, Good("INT", c, r)) /\ Ordinary(c, ScanExponent(c, r, "INT"))
      BY <2>5, <3>1, GoodOrdinary, ExponentOrdinary
    <3>3. At(r) = "." => Ordinary(c, ScanFraction(c, r + 1)) /\ Ordinary(c, Bad(c, r + 1))
      <4>1. SUFFICES ASSUME At(r) = "." PROVE Ordinary(c, ScanFraction(c, r + 1)) /\ Ordinary(c, Bad(c, r + 1))
        OBVIOUS
      <4>2. Printed(r)
        BY <4>1, PrintedIn
      <4>3. Clear(p, r + 1) /\ p < r + 1
        BY <1>0, <2>5, <4>2, ClearFurther
      <4> QED BY <4>3, FractionOrdinary, BadOrdinary
    <3> QED BY <2>8, <2>9, <3>2, <3>3
  <2> QED BY <2>10, <2>11
<1> QED BY <1>3, <1>4

LEMMA StringOrdinary ==
  ASSUME source \in Seq(STRING), NEW c, Right(c), NEW type \in {"STRING", "BYTES"},
         IF type = "BYTES" THEN At(c.pos) = "b" /\ At(c.pos + 1) = Quote ELSE At(c.pos) = Quote
  PROVE  Ordinary(c, ScanString(c, type))
<1> DEFINE p   == c.pos
           b   == p + (IF type = "BYTES" THEN 2 ELSE 1)
           s   == Body(b, TRUE, FALSE)
           e   == IF At(s) = Backslash THEN Body(s + 1, FALSE, FALSE) ELSE s
           end == IF At(e) = Quote THEN e + 1 ELSE e
<1>0. p \in Nat /\ Past \in Nat /\ p <= Past
  BY RightFields
<1>1. Clear(p, b) /\ b \in Nat /\ p < b /\ b <= Past
  <2>1. CASE type = "BYTES"
    <3>1. "b" \in IdentContinue
      BY DEF IdentContinue, IdentStart, Letter
    <3>2. Printed(p) /\ Printed(p + 1)
      BY <2>1, <3>1, PrintedIn
    <3>3. Clear(p, p + 1)
      BY <1>0, <3>2, ClearOne
    <3>4. Clear(p, (p + 1) + 1) /\ (p + 1) + 1 <= Past
      BY <1>0, <3>2, <3>3, ClearFurther
    <3>5. (p + 1) + 1 = p + 2 /\ p + 2 \in Nat /\ p < p + 2
      BY <1>0
    <3> QED BY <2>1, <3>4, <3>5
  <2>2. CASE type # "BYTES"
    <3>1. Printed(p)
      BY <2>2, PrintedIn
    <3>2. Clear(p, p + 1) /\ p < Past
      BY <1>0, <3>1, ClearOne
    <3> QED BY <1>0, <2>2, <3>2
  <2> QED BY <2>1, <2>2
<1> HIDE DEF b
<1>2. Clear(b, s)
  <2>1. b \in 0..Past
    BY <1>0, <1>1
  <2> QED BY <2>1, BodyClear
<1> HIDE DEF s
<1>3. Clear(p, s) /\ s \in Nat /\ b <= s /\ s <= Past
  <2>1. Clear(p, s)
    BY <1>0, <1>1, <1>2, ClearOn
  <2>2. s \in b..Past
    BY <1>2 DEF Clear
  <2> QED BY <1>0, <1>1, <2>1, <2>2
<1>4. Clear(p, e) /\ e \in Nat /\ s <= e /\ e <= Past
  <2>1. CASE At(s) = Backslash
    <3>1. Printed(s)
      BY <2>1, PrintedIn
    <3>2. Clear(p, s + 1) /\ s + 1 \in Nat /\ s + 1 <= Past
      BY <1>0, <1>3, <3>1, ClearFurther
    <3>3. s + 1 \in 0..Past
      BY <1>0, <3>2
    <3>4. Clear(s + 1, Body(s + 1, FALSE, FALSE))
      BY <3>3, BodyClear
    <3>5. Clear(p, Body(s + 1, FALSE, FALSE))
      BY <1>0, <3>2, <3>4, ClearOn
    <3>6. e = Body(s + 1, FALSE, FALSE)
      BY <2>1
    <3> HIDE DEF e
    <3>7. e \in (s + 1)..Past
      BY <3>4, <3>6 DEF Clear
    <3>8. Clear(p, e)
      BY <3>5, <3>6
    <3> QED BY <1>0, <1>3, <3>7, <3>8
  <2>2. CASE At(s) # Backslash
    BY <1>3, <2>2
  <2> QED BY <2>1, <2>2
<1> HIDE DEF e
<1>5. Clear(p, end) /\ p < end
  <2>1. CASE At(e) = Quote
    <3>1. Printed(e)
      BY <2>1, PrintedIn
    <3>2. Clear(p, e + 1) /\ p < e + 1
      BY <1>0, <1>4, <3>1, ClearFurther
    <3> QED BY <2>1, <3>2
  <2>2. CASE At(e) # Quote
    BY <1>0, <1>1, <1>3, <1>4, <2>2
  <2> QED BY <2>1, <2>2
<1>6. ScanString(c, type) \in {Good(type, c, end), Bad(c, end)}
  BY DEF ScanString, b, s, e
<1> HIDE DEF end
<1>7. Ordinary(c, Good(type, c, end)) /\ Ordinary(c, Bad(c, end))
  BY <1>5, GoodOrdinary, BadOrdinary
<1> QED BY <1>6, <1>7

LEMMA SeqWider ==
  ASSUME NEW S, NEW T, S \subseteq T, NEW s, s \in Seq(S)
  PROVE  s \in Seq(T)
<1>1. Len(s) \in Nat /\ s \in [1..Len(s) -> S]
  OBVIOUS
<1>2. s \in [1..Len(s) -> T]
  BY <1>1
<1> QED BY <1>1, <1>2

LEMMA NotSplit ==
  ASSUME NEW p, At(p) \notin NewlineChar \/ At(p - 1) \notin NewlineChar
  PROVE  ~Split(p)
BY Newlines DEF Split

\* A report more, at the place `last`.
LEMMA ReportMore ==
  ASSUME NEW p, NEW r, r \in Seq(p..Past), NEW last \in p..Past
  PROVE  r \o <<last>> \in Seq(p..Past) /\ Len(r \o <<last>>) = Len(r) + 1
<1>1. <<last>> \in Seq(p..Past) /\ Len(<<last>>) = 1
  OBVIOUS
<1> QED BY <1>1, ConcatProperties

LEMMA RawOrdinary ==
  ASSUME source \in Seq(STRING), NEW c, Right(c), At(c.pos) = "BACKQUOTE"
  PROVE  Ordinary(c, ScanRawString(c))
<1> DEFINE p == c.pos
           e == Until(p + 1, {"BACKQUOTE"})
           r == ReturnReports(p, e)
<1>0. p \in Nat /\ Past \in Nat /\ p <= Past /\ At(Past) = "EOF"
  BY RightFields, TextPast
<1>1. p < Past
  <2>1. Printed(p)
    BY PrintedIn
  <2> QED BY <1>0, <2>1, ClearOne
<1>2. e \in (p + 1)..Past /\ (e = Past \/ At(e) = "BACKQUOTE")
  <2>1. p + 1 \in Nat /\ p + 1 <= Past
    BY <1>0, <1>1
  <2> QED BY <2>1, UntilStops
<1> HIDE DEF e
<1>3. e \in Nat /\ p < e /\ p <= e /\ e <= Past
  BY <1>0, <1>2
<1>4. r \in Seq(p..e) /\ Len(r) = Returns(p, e)
  BY <1>0, <1>3, ReportsReturns
<1> HIDE DEF r
<1>5. r \in Seq(p..Past)
  <2>1. p..e \subseteq p..Past
    BY <1>0, <1>3
  <2> QED BY <1>4, <2>1, SeqWider
<1>6. CASE At(e) = "BACKQUOTE"
  <2> DEFINE s == Found("RAW_STRING", c, Walk(c, e + 1), r, "none")
  <2>1. Printed(e)
    BY <1>6, PrintedIn
  <2>2. e < Past /\ Clear(e, e + 1) /\ e + 1 \in Nat /\ e + 1 <= Past
    BY <1>0, <1>3, <2>1, ClearOne
  <2>3. ~Split(e + 1)
    <3>1. (e + 1) - 1 = e
      BY <1>3
    <3>2. At((e + 1) - 1) \notin NewlineChar
      BY <2>1, <3>1 DEF Printed
    <3> QED BY <3>2, NotSplit
  <2>4. Right(Walk(c, e + 1)) /\ Walk(c, e + 1).pos = e + 1
    <3>1. c.pos <= e + 1
      BY <1>0, <1>3
    <3> QED BY <2>2, <2>3, <3>1, WalkArrives DEF Arrives
  <2>5. Returns(p, e + 1) = Returns(p, e)
    <3>1. Returns(p, e + 1) = Returns(p, e) + Returns(e, e + 1)
      BY <1>0, <1>3, <2>2, ReturnsAdd
    <3>2. Returns(e, e + 1) = 0
      BY <1>3, <2>2, NoReturns
    <3>3. Returns(p, e) \in Nat
      BY <1>0, <1>3, ReturnsFinite
    <3> QED BY <3>1, <3>2, <3>3
  <2>6. /\ s.from = c /\ s.to = Walk(c, e + 1) /\ s.end = s.to.pos /\ s.type = "RAW_STRING" /\ s.errs = r
    BY DEF Found
  <2> HIDE DEF s
  <2>7. s.end = e + 1 /\ p < s.end /\ p <= s.end
    BY <1>0, <1>3, <2>4, <2>6
  <2>8. Returns(p, s.end) + 0 = Returns(p, e)
    <3>1. Returns(p, e) \in Nat
      BY <1>0, <1>3, ReturnsFinite
    <3> QED BY <2>5, <2>7, <3>1
  <2>9. Ordinary(c, s)
    BY <1>4, <1>5, <2>4, <2>6, <2>7, <2>8 DEF Ordinary, Sound, Stands, Begun, Reported
  <2>10. ScanRawString(c) = s
    BY <1>6 DEF ScanRawString, e, r, s
  <2> QED BY <2>9, <2>10
<1>7. CASE At(e) # "BACKQUOTE"
  <2> DEFINE s == Found("INVALID", c, Walk(c, e), r \o <<e>>, "none")
  <2>1. e = Past
    BY <1>2, <1>7
  <2>2. ~Split(e)
    <3>1. "EOF" \notin NewlineChar
      BY DEF NewlineChar
    <3> QED BY <1>0, <2>1, <3>1, NotSplit
  <2>3. Right(Walk(c, e)) /\ Walk(c, e).pos = e
    <3>1. c.pos <= e
      BY <1>0, <1>3
    <3> QED BY <1>3, <2>2, <3>1, WalkArrives DEF Arrives
  <2>4. r \o <<e>> \in Seq(p..Past) /\ Len(r \o <<e>>) = Returns(p, e) + 1
    <3>1. e \in p..Past
      BY <1>0, <1>3
    <3> QED BY <1>4, <1>5, <3>1, ReportMore
  <2>5. /\ s.from = c /\ s.to = Walk(c, e) /\ s.end = s.to.pos /\ s.type = "INVALID" /\ s.errs = r \o <<e>>
    BY DEF Found
  <2> HIDE DEF s
  <2>6. s.end = e /\ p < s.end /\ p <= s.end
    BY <1>0, <1>3, <2>3, <2>5
  <2>7. Ordinary(c, s)
    BY <2>3, <2>4, <2>5, <2>6 DEF Ordinary, Sound, Stands, Begun, Reported
  <2>8. ScanRawString(c) = s
    BY <1>7 DEF ScanRawString, e, r, s
  <2> QED BY <2>7, <2>8
<1> QED BY <1>6, <1>7

\* The tokens without bytes.
Hollow(s) ==
  s.from.pos = s.end =>
    \/ s.type = "INVALID" /\ s.does = "pop"
    \/ s.type = "FSTRING_FORMAT" /\ At(s.end) = "}" /\ s.does = "none" /\ InFrame
    \/ s.type = "SEMICOLON" /\ s.end = Past /\ canEndStatement /\ s.does = "none"
    \/ s.type = "EOF" /\ s.end = Past /\ ~InFrame /\ ~canEndStatement /\ s.does = "none"
Told(c, s) ==
  /\ Stands(s) /\ Begun(c, s) /\ Reported(c.pos, s) /\ s.type # "none"
  /\ Hollow(s) /\ (s.type = "EOF" => s.from.pos = s.end)

LEMMA OrdinaryTold ==
  ASSUME source \in Seq(STRING), NEW c, NEW s, Ordinary(c, s)
  PROVE  Told(c, s)
<1>1. s.from.pos < s.end /\ s.from.pos \in Nat /\ s.end \in Nat
  BY RightFields DEF Ordinary, Sound, Stands
<1>2. s.from.pos # s.end
  BY <1>1
<1> QED BY <1>2 DEF Ordinary, Sound, Told, Hollow

LEMMA SoundTold ==
  ASSUME NEW c, NEW s, Sound(c, s), Hollow(s)
  PROVE  Told(c, s)
BY DEF Sound, Told

LEMMA IdentifierOrdinary ==
  ASSUME source \in Seq(STRING), NEW c, Right(c), At(c.pos) \in IdentStart \/ Utf8Length(c.pos) > 0
  PROVE  Ordinary(c, ScanIdentifier(c))
<1> DEFINE e == IdentEnd[c.pos]
           type == Keyword(SubSeq(source, c.pos, e - 1))
<1>1. c.pos \in Nat
  BY RightFields
<1>2. ~IdentEnds(c.pos)
  <2>1. Utf8Length(c.pos) \in Nat
    BY <1>1, Utf8Clear
  <2> QED BY <2>1 DEF IdentEnds, IdentContinue
<1>3. Clear(c.pos, e) /\ c.pos < e
  BY <1>1, <1>2, IdentSome
<1>4. type \notin {"INVALID", "none", "EOF"}
  BY DEF Keyword
<1> HIDE DEF e, type
<1>5. Ordinary(c, Good(type, c, e))
  BY <1>3, <1>4, GoodOrdinary
<1> QED BY <1>5 DEF ScanIdentifier, e, type

\* A token of the one byte at c.
LEMMA OneBad ==
  ASSUME source \in Seq(STRING), NEW c, Right(c), Printed(c.pos)
  PROVE  Ordinary(c, Bad(c, c.pos + 1))
<1>0. c.pos \in Nat
  BY RightFields
<1>1. Clear(c.pos, c.pos + 1) /\ c.pos < c.pos + 1
  BY <1>0, ClearOne
<1> QED BY <1>1, BadOrdinary

LEMMA OneOrdinary ==
  ASSUME source \in Seq(STRING), NEW c, Right(c), Printed(c.pos), NEW type, type \notin {"INVALID", "none", "EOF"},
         NEW does
  PROVE  Ordinary(c, Found(type, c, Advance(c, 1), <<>>, does))
<1>0. c.pos \in Nat /\ c.pos <= c.pos
  BY RightFields
<1>1. Clear(c.pos, c.pos + 1) /\ c.pos < c.pos + 1
  BY <1>0, ClearOne
<1> DEFINE q == c.pos + 1
<1>3. q - c.pos = 1
  BY <1>0
<1>4. Clear(c.pos, q) /\ c.pos < q
  BY <1>1
<1> HIDE DEF q
<1>5. <<>> \in Seq(c.pos..Past) /\ Len(<<>>) = IF type = "INVALID" THEN 1 ELSE 0
  BY EmptySeq
<1>6. Makes(c, c, q, type, <<>>, does)
  BY <1>0, <1>4, <1>5, FoundSound
<1> QED BY <1>3, <1>4, <1>6 DEF Makes, Ordinary

LEMMA StartOrdinary ==
  ASSUME source \in Seq(STRING), NEW c, Right(c), At(c.pos) = "f", At(c.pos + 1) = Quote
  PROVE  Ordinary(c, ScanFstringStart(c))
<1> DEFINE p == c.pos
           q == p + 2
<1>0. p \in Nat /\ Past \in Nat /\ p <= Past /\ p <= p
  BY RightFields
<1>1. Clear(p, q) /\ q \in Nat /\ q <= Past /\ p < q
  <2>1. "f" \in IdentContinue
    BY DEF IdentContinue, IdentStart, Letter
  <2>2. Printed(p) /\ Printed(p + 1)
    BY <2>1, PrintedIn
  <2>3. Clear(p, p + 1)
    BY <1>0, <2>2, ClearOne
  <2>4. Clear(p, (p + 1) + 1) /\ (p + 1) + 1 <= Past
    BY <1>0, <2>2, <2>3, ClearFurther
  <2>5. (p + 1) + 1 = q /\ q \in Nat /\ p < q
    BY <1>0
  <2> QED BY <2>4, <2>5
<1>2. Ordinary(c, Bad(c, TooDeepEnd[q]))
  <2>1. q \in 0..Past
    BY <1>0, <1>1
  <2> HIDE DEF q
  <2>2. Clear(q, TooDeepEnd[q])
    BY <2>1, DeepClear
  <2>3. Clear(p, TooDeepEnd[q])
    BY <1>0, <1>1, <2>2, ClearOn
  <2>4. p < TooDeepEnd[q]
    BY <1>0, <1>1, <2>2 DEF Clear
  <2> QED BY <2>3, <2>4, BadOrdinary
<1>3. q - c.pos = 2
  BY <1>0
<1>4. Ordinary(c, Found("FSTRING_START", c, Advance(c, 2), <<>>, "push"))
  <2> HIDE DEF q
  <2>1. <<>> \in Seq(c.pos..Past) /\ Len(<<>>) = IF "FSTRING_START" = "INVALID" THEN 1 ELSE 0
    BY EmptySeq
  <2>2. Makes(c, c, q, "FSTRING_START", <<>>, "push")
    BY <1>0, <1>1, <2>1, FoundSound
  <2> QED BY <1>1, <1>3, <2>2 DEF Makes, Ordinary
<1> QED BY <1>2, <1>4 DEF ScanFstringStart

LEMMA FormatTold ==
  ASSUME source \in Seq(STRING), NEW c, Right(c), At(c.pos) = ":", InFrame
  PROVE  Told(c, ScanFstringFormat(c))
<1> DEFINE p == c.pos
           b == Advance(c, 1)
           e == FormatEnd(b.pos)
<1>0. p \in Nat /\ Past \in Nat /\ p <= Past
  BY RightFields
<1>1. Printed(p)
  BY PrintedIn
<1>2. Clear(p, p + 1) /\ p < Past
  BY <1>0, <1>1, ClearOne
<1>3. Right(b) /\ b.pos = p + 1
  <2>1. (p + 1) - p = 1
    BY <1>0
  <2> QED BY <1>2, <2>1, AlongStands
<1>4. b.pos \in Nat /\ b.pos <= Past /\ p <= b.pos
  BY <1>0, <1>2, <1>3
<1>5. Clear(b.pos, e) /\ At(e) \in NewlineChar \cup {"EOF", "}"}
  BY <1>4, FormatClear
<1> HIDE DEF e
<1>6. Clear(p, e)
  <2>1. Clear(p, b.pos)
    BY <1>2, <1>3
  <2> HIDE DEF b
  <2> QED BY <1>0, <1>4, <1>5, <2>1, ClearOn
<1>7. CASE At(e) = "}"
  <2> DEFINE s == Found("FSTRING_FORMAT", b, Advance(b, e - b.pos), <<>>, "none")
  <2>1. <<>> \in Seq(c.pos..Past) /\ Len(<<>>) = IF "FSTRING_FORMAT" = "INVALID" THEN 1 ELSE 0
    BY EmptySeq
  <2>2. Makes(c, b, e, "FSTRING_FORMAT", <<>>, "none")
    BY <1>3, <1>4, <1>5, <1>6, <2>1, FoundSound
  <2>3. Sound(c, s) /\ s.end = e /\ s.type = "FSTRING_FORMAT" /\ s.does = "none"
    BY <2>2 DEF Makes
  <2> HIDE DEF s
  <2>4. Hollow(s)
    BY <1>7, <2>3 DEF Hollow
  <2>5. ScanFstringFormat(c) = s
    BY <1>7 DEF ScanFstringFormat, s, e
  <2> QED BY <2>3, <2>4, <2>5, SoundTold
<1>8. CASE At(e) # "}"
  <2> DEFINE s == Found("INVALID", b, Advance(b, e - b.pos), <<e>>, "pop")
  <2>1. <<e>> \in Seq(c.pos..Past) /\ Len(<<e>>) = IF "INVALID" = "INVALID" THEN 1 ELSE 0
    BY <1>6, OneReport DEF Clear
  <2>2. Makes(c, b, e, "INVALID", <<e>>, "pop")
    BY <1>3, <1>4, <1>5, <1>6, <2>1, FoundSound
  <2>3. Sound(c, s) /\ s.end = e /\ s.type = "INVALID" /\ s.does = "pop"
    BY <2>2 DEF Makes
  <2> HIDE DEF s
  <2>4. Hollow(s)
    BY <2>3 DEF Hollow
  <2>5. ScanFstringFormat(c) = s
    BY <1>8 DEF ScanFstringFormat, s, e
  <2> QED BY <2>3, <2>4, <2>5, SoundTold
<1> QED BY <1>7, <1>8

LEMMA OperatorClear ==
  ASSUME source \in Seq(STRING), NEW p \in Nat, Printed(p)
  PROVE  Clear(p, p + OperatorLength(p)) /\ p < p + OperatorLength(p)
<1>1. \/ OperatorLength(p) = 1
      \/ OperatorLength(p) = 2 /\ (At(p + 1) = At(p) \/ At(p + 1) = "=")
      \/ OperatorLength(p) = 3 /\ At(p + 1) = At(p) /\ At(p + 2) \in {"=", "."}
  BY DEF OperatorLength
<1>2. Clear(p, p + 1)
  BY ClearOne
<1>3. p + 1 \in Nat /\ (p + 1) + 1 = p + 2 /\ p + 2 \in Nat /\ (p + 2) + 1 = p + 3
  OBVIOUS
<1>4. At(p + 1) = At(p) \/ At(p + 1) = "=" => Clear(p, p + 2)
  <2>1. SUFFICES ASSUME At(p + 1) = At(p) \/ At(p + 1) = "=" PROVE Clear(p, p + 2)
    OBVIOUS
  <2>2. Printed(p + 1)
    <3>1. At(p + 1) = "=" => Printed(p + 1)
      BY PrintedIn
    <3> QED BY <2>1, <3>1 DEF Printed
  <2> QED BY <1>2, <1>3, <2>2, ClearFurther
<1>5. Clear(p, p + 2) /\ At(p + 2) \in {"=", "."} => Clear(p, p + 3)
  <2>1. SUFFICES ASSUME Clear(p, p + 2), At(p + 2) \in {"=", "."} PROVE Clear(p, p + 3)
    OBVIOUS
  <2>2. Printed(p + 2)
    BY <2>1, PrintedIn
  <2> QED BY <1>3, <2>1, <2>2, ClearFurther
<1>6. CASE OperatorLength(p) = 1
  BY <1>2, <1>6
<1>7. CASE OperatorLength(p) = 2 /\ (At(p + 1) = At(p) \/ At(p + 1) = "=")
  BY <1>4, <1>7
<1>8. CASE OperatorLength(p) = 3 /\ At(p + 1) = At(p) /\ At(p + 2) \in {"=", "."}
  BY <1>4, <1>5, <1>8
<1> QED BY <1>1, <1>6, <1>7, <1>8

LEMMA OperatorTold ==
  ASSUME source \in Seq(STRING), NEW c, Right(c), Printed(c.pos)
  PROVE  Told(c, ScanOperator(c))
<1> DEFINE p == c.pos
           e == p + OperatorLength(p)
           one(type) == Found(type, c, Advance(c, 1), <<>>, type)
<1>0. p \in Nat
  BY RightFields
<1>1. Clear(p, e) /\ p < e
  BY <1>0, OperatorClear
<1>2. /\ Ordinary(c, Bad(c, e)) /\ Ordinary(c, Good("SEMICOLON", c, e)) /\ Ordinary(c, Good("STEP", c, e))
      /\ Ordinary(c, Good("OPERATOR", c, e))
  <2> HIDE DEF e
  <2> QED BY <1>1, BadOrdinary, GoodOrdinary
<1>3. \A t \in {"(", "[", "{", ")", "]", "}"} : Ordinary(c, one(t))
  BY OneOrdinary
<1>4. CASE OpensFormat(p)
  <2>1. Told(c, ScanFstringFormat(c))
    BY <1>4, FormatTold DEF OpensFormat
  <2>2. ScanOperator(c) = ScanFstringFormat(c)
    BY <1>4 DEF ScanOperator, OpensFormat
  <2> QED BY <2>1, <2>2
<1>5. CASE ~OpensFormat(p)
  <2>1. \/ ScanOperator(c) \in {Bad(c, e), Good("SEMICOLON", c, e), Good("STEP", c, e), Good("OPERATOR", c, e)}
        \/ \E t \in {"(", "[", "{", ")", "]", "}"} : ScanOperator(c) = one(t)
    <3>1. CASE At(p) \in {"(", "[", "{", ")", "]"}
      <4>1. ScanOperator(c) = one(At(p))
        BY <1>5, <3>1 DEF ScanOperator, IsOperator
      <4> QED BY <3>1, <4>1
    <3>2. CASE At(p) = "}"
      <4>1. ScanOperator(c) \in {one("}"), Bad(c, e)}
        BY <1>5, <3>2 DEF ScanOperator, IsOperator
      <4> QED BY <4>1
    <3>3. CASE At(p) \notin {"(", "[", "{", ")", "]", "}"}
      BY <1>5, <3>3 DEF ScanOperator
    <3> QED BY <3>1, <3>2, <3>3
  <2> HIDE DEF e, one
  <2>2. Ordinary(c, ScanOperator(c))
    BY <1>2, <1>3, <2>1
  <2> QED BY <2>2, OrdinaryTold
<1> QED BY <1>4, <1>5

TextTold(c, s) == Told(c, s) /\ s.from = c /\ s.type \notin {"EOF", "SEMICOLON", "FSTRING_FORMAT"}

\* What ScanFstringText makes of a segment that stops at s and is done with at e.
TextFound(c, s, e) ==
  LET p   == c.pos
      bad == At(s) = Backslash
      d   == Advance(c, e - p)
      one == Advance(c, 1)
  IN  CASE At(e) \in NewlineChar \cup {"EOF"} -> Found("INVALID", c, d, <<IF bad THEN s ELSE e>>, "pop")
        [] e > p /\ At(e) \notin NewlineChar \cup {"EOF"} ->
             Found(IF bad THEN "INVALID" ELSE "STRING", c, d, IF bad THEN <<s>> ELSE <<>>, "none")
        [] e = p /\ At(p) = Quote -> Found("FSTRING_END", c, one, <<>>, "pop")
        [] e = p /\ At(p) = "{" -> Found("{", c, one, <<>>, "open")
        [] OTHER -> Found("INVALID", c, one, <<p + 1>>, "none")

LEMMA TextFoundIs ==
  ASSUME NEW c, c.pos \in Nat, NEW s, NEW e \in Nat
  PROVE  /\ At(e) \in NewlineChar \cup {"EOF"} =>
              TextFound(c, s, e) = Found("INVALID", c, Advance(c, e - c.pos),
                                         <<IF At(s) = Backslash THEN s ELSE e>>, "pop")
         /\ At(e) \notin NewlineChar \cup {"EOF"} /\ e > c.pos =>
              TextFound(c, s, e) = Found(IF At(s) = Backslash THEN "INVALID" ELSE "STRING", c, Advance(c, e - c.pos),
                                         IF At(s) = Backslash THEN <<s>> ELSE <<>>, "none")
         /\ At(e) \notin NewlineChar \cup {"EOF"} /\ e = c.pos =>
              TextFound(c, s, e) \in {Found("FSTRING_END", c, Advance(c, 1), <<>>, "pop"),
                                      Found("{", c, Advance(c, 1), <<>>, "open"),
                                      Found("INVALID", c, Advance(c, 1), <<c.pos + 1>>, "none")}
<1>1. {Quote, "{"} \cap (NewlineChar \cup {"EOF"}) = {} /\ Quote # "{"
  BY PrintedClasses DEF Quote
<1>2. CASE At(e) \in NewlineChar \cup {"EOF"}
  <2>1. ~(e = c.pos /\ At(c.pos) = Quote) /\ ~(e = c.pos /\ At(c.pos) = "{")
    BY <1>1, <1>2
  <2> QED BY <1>2, <2>1 DEF TextFound
<1>3. CASE At(e) \notin NewlineChar \cup {"EOF"} /\ e > c.pos
  <2>1. e # c.pos
    BY <1>3
  <2> QED BY <1>3, <2>1 DEF TextFound
<1>4. CASE At(e) \notin NewlineChar \cup {"EOF"} /\ e = c.pos
  <2>1. ~(e > c.pos)
    BY <1>4
  <2> QED BY <1>1, <1>4, <2>1 DEF TextFound
<1>5. CASE At(e) \notin NewlineChar \cup {"EOF"} /\ e < c.pos
  <2>1. ~(e > c.pos) /\ e # c.pos
    BY <1>5
  <2> QED BY <1>5, <2>1
<1> QED BY <1>2, <1>3, <1>4, <1>5

LEMMA TextScanTold ==
  ASSUME source \in Seq(STRING), NEW c, Right(c)
  PROVE  TextTold(c, ScanFstringText(c))
<1> DEFINE p   == c.pos
           s   == Body(p, TRUE, TRUE)
           bad == At(s) = Backslash
           e   == IF bad THEN Body(s + 1, FALSE, TRUE) ELSE s
           d   == Advance(c, e - p)
           r   == ScanFstringText(c)
<1>0. p \in Nat /\ Past \in Nat /\ p <= Past /\ p <= p
  BY RightFields
<1>5. r = TextFound(c, s, e)
  BY DEF ScanFstringText, TextFound
<1>1. Clear(p, s) /\ BodyStops(s, TRUE, TRUE)
  <2>1. p \in 0..Past
    BY <1>0
  <2> QED BY <2>1, BodyClear
<1> HIDE DEF s
<1>2. s \in Nat /\ p <= s /\ s <= Past
  BY <1>0, <1>1 DEF Clear
<1>3. CASE bad
  <2>1. Printed(s)
    BY <1>3, PrintedIn
  <2>2. Clear(p, s + 1) /\ s + 1 \in Nat /\ s + 1 <= Past
    BY <1>0, <1>1, <2>1, ClearFurther
  <2>3. s + 1 \in 0..Past
    BY <1>0, <2>2
  <2>4. Clear(s + 1, Body(s + 1, FALSE, TRUE))
    BY <2>3, BodyClear
  <2>5. Clear(p, Body(s + 1, FALSE, TRUE))
    BY <1>0, <2>2, <2>4, ClearOn
  <2>6. e = Body(s + 1, FALSE, TRUE)
    BY <1>3
  <2> HIDE DEF e
  <2>7. e \in (s + 1)..Past /\ Clear(p, e)
    BY <2>4, <2>5, <2>6 DEF Clear
  <2>8. e \in Nat /\ p < e
    BY <1>0, <1>2, <2>7
  <2>9. s \in p..Past
    BY <1>0, <1>2
  <2>10. <<s>> \in Seq(c.pos..Past) /\ Len(<<s>>) = IF "INVALID" = "INVALID" THEN 1 ELSE 0
    BY <2>9, OneReport
  <2>11. ASSUME NEW does \in {"pop", "none"}
         PROVE  TextTold(c, Found("INVALID", c, d, <<s>>, does))
    <3>1. Makes(c, c, e, "INVALID", <<s>>, does)
      BY <1>0, <2>7, <2>10, FoundSound
    <3> DEFINE f == Found("INVALID", c, d, <<s>>, does)
    <3>2. Sound(c, f) /\ f.end = e /\ f.from = c /\ f.type = "INVALID"
      BY <3>1 DEF Makes
    <3> HIDE DEF f
    <3>3. Hollow(f)
      BY <2>8, <3>2 DEF Hollow
    <3>4. TextTold(c, f)
      BY <3>2, <3>3, SoundTold DEF TextTold
    <3> QED BY <3>4 DEF f
  <2>12. r \in {Found("INVALID", c, d, <<s>>, "pop"), Found("INVALID", c, d, <<s>>, "none")}
    <3>1. CASE At(e) \in NewlineChar \cup {"EOF"}
      BY <1>0, <1>3, <1>5, <2>8, <3>1, TextFoundIs
    <3>2. CASE At(e) \notin NewlineChar \cup {"EOF"}
      BY <1>0, <1>3, <1>5, <2>8, <3>2, TextFoundIs
    <3> QED BY <3>1, <3>2
  <2> QED BY <2>11, <2>12
<1>4. CASE ~bad
  <2>1. e = s
    BY <1>4
  <2> HIDE DEF e
  <2>2. <<e>> \in Seq(c.pos..Past) /\ Len(<<e>>) = IF "INVALID" = "INVALID" THEN 1 ELSE 0
    <3>1. e \in p..Past
      BY <1>0, <1>2, <2>1
    <3> QED BY <3>1, OneReport
  <2>3. Clear(p, e) /\ e \in Nat /\ p <= e
    BY <1>1, <1>2, <2>1
  <2>4. CASE At(e) \in NewlineChar \cup {"EOF"}
    <3> DEFINE f == Found("INVALID", c, d, <<e>>, "pop")
    <3>1. Makes(c, c, e, "INVALID", <<e>>, "pop")
      BY <1>0, <2>2, <2>3, FoundSound
    <3>2. Sound(c, f) /\ f.end = e /\ f.from = c /\ f.type = "INVALID" /\ f.does = "pop"
      BY <3>1 DEF Makes
    <3>3. r = f
      BY <1>0, <1>4, <1>5, <2>3, <2>4, TextFoundIs
    <3> HIDE DEF f
    <3>4. Hollow(f)
      BY <3>2 DEF Hollow
    <3> QED BY <3>2, <3>3, <3>4, SoundTold DEF TextTold
  <2>5. CASE At(e) \notin NewlineChar \cup {"EOF"} /\ e > p
    <3> DEFINE f == Found("STRING", c, d, <<>>, "none")
    <3>0. <<>> \in Seq(c.pos..Past) /\ Len(<<>>) = IF "STRING" = "INVALID" THEN 1 ELSE 0
      BY EmptySeq
    <3>1. Makes(c, c, e, "STRING", <<>>, "none")
      BY <1>0, <2>3, <3>0, FoundSound
    <3>2. Sound(c, f) /\ f.end = e /\ f.from = c /\ f.type = "STRING"
      BY <3>1 DEF Makes
    <3>3. r = f
      BY <1>0, <1>4, <1>5, <2>3, <2>5, TextFoundIs
    <3> HIDE DEF f
    <3>4. Hollow(f)
      BY <1>0, <2>3, <2>5, <3>2 DEF Hollow
    <3> QED BY <3>2, <3>3, <3>4, SoundTold DEF TextTold
  <2>6. CASE At(e) \notin NewlineChar \cup {"EOF"} /\ e = p
    <3>1. Printed(p)
      BY <2>6 DEF Printed
    <3> DEFINE one == Advance(c, 1)
               last == Found("FSTRING_END", c, one, <<>>, "pop")
               open == Found("{", c, one, <<>>, "open")
               lost == Found("INVALID", c, one, <<p + 1>>, "none")
    <3>2. Ordinary(c, last) /\ Ordinary(c, open) /\ Ordinary(c, lost)
      <4>1. (p + 1) - c.pos = 1
        BY <1>0
      <4>2. Ordinary(c, Bad(c, c.pos + 1))
        BY <3>1, OneBad
      <4>3. Ordinary(c, lost)
        BY <4>1, <4>2 DEF Bad
      <4> QED BY <3>1, <4>3, OneOrdinary
    <3>3. /\ last.from = c /\ last.type = "FSTRING_END" /\ open.from = c /\ open.type = "{"
          /\ lost.from = c /\ lost.type = "INVALID"
      BY DEF Found
    <3>4. r \in {last, open, lost}
      BY <1>0, <1>4, <1>5, <2>3, <2>6, TextFoundIs
    <3> HIDE DEF last, open, lost
    <3>5. TextTold(c, last) /\ TextTold(c, open) /\ TextTold(c, lost)
      BY <3>2, <3>3, OrdinaryTold DEF TextTold
    <3> QED BY <3>4, <3>5
  <2> QED BY <1>0, <2>3, <2>4, <2>5, <2>6
<1> QED BY <1>3, <1>4

LEMMA EndTold ==
  ASSUME source \in Seq(STRING), NEW c, Right(c), c.pos = Past
  PROVE  Told(c, ScanAtEnd(c))
<1>0. c.pos \in Nat /\ Past \in Nat
  BY RightFields
<1>1. Returns(Past, Past) = 0
  <2>1. Clear(Past, Past)
    BY <1>0, ClearNone
  <2> QED BY <1>0, <2>1, NoReturns
<1>2. ASSUME NEW type \in {"SEMICOLON", "EOF"}
      PROVE  LET f == Found(type, c, c, <<>>, "none")
             IN  /\ Stands(f) /\ Begun(c, f) /\ Reported(c.pos, f) /\ f.type = type /\ f.end = Past /\ f.does = "none"
                 /\ f.from.pos = f.end
  <2> DEFINE f == Found(type, c, c, <<>>, "none")
  <2>1. /\ f.from = c /\ f.to = c /\ f.end = c.pos /\ f.type = type /\ f.errs = <<>> /\ f.does = "none"
    BY DEF Found
  <2>2. <<>> \in Seq(c.pos..Past) /\ Len(<<>>) = 0
    BY EmptySeq
  <2> HIDE DEF f
  <2>3. Stands(f) /\ Begun(c, f)
    BY <1>0, <2>1 DEF Stands, Begun
  <2>4. Reported(c.pos, f)
    BY <1>1, <2>1, <2>2 DEF Reported
  <2> QED BY <2>1, <2>3, <2>4 DEF f
<1>3. CASE InFrame
  <2> DEFINE f == Found("INVALID", c, c, <<c.pos>>, "pop")
  <2>1. /\ f.from = c /\ f.to = c /\ f.end = c.pos /\ f.type = "INVALID" /\ f.errs = <<c.pos>> /\ f.does = "pop"
    BY DEF Found
  <2>2. <<c.pos>> \in Seq(c.pos..Past) /\ Len(<<c.pos>>) = 1
    <3>1. c.pos \in c.pos..Past
      BY <1>0
    <3> QED BY <3>1, OneReport
  <2>3. ScanAtEnd(c) = f
    BY <1>3 DEF ScanAtEnd
  <2> HIDE DEF f
  <2>4. Stands(f) /\ Begun(c, f)
    BY <1>0, <2>1 DEF Stands, Begun
  <2>5. Reported(c.pos, f)
    BY <1>1, <2>1, <2>2 DEF Reported
  <2> QED BY <2>1, <2>3, <2>4, <2>5 DEF Told, Hollow
<1>4. CASE ~InFrame /\ canEndStatement
  <2> DEFINE f == Found("SEMICOLON", c, c, <<>>, "none")
  <2>1. ScanAtEnd(c) = f
    BY <1>4 DEF ScanAtEnd
  <2>2. /\ Stands(f) /\ Begun(c, f) /\ Reported(c.pos, f) /\ f.type = "SEMICOLON" /\ f.end = Past
        /\ f.does = "none" /\ f.from.pos = f.end
    BY <1>2
  <2> HIDE DEF f
  <2> QED BY <1>4, <2>1, <2>2 DEF Told, Hollow
<1>5. CASE ~InFrame /\ ~canEndStatement
  <2> DEFINE f == Found("EOF", c, c, <<>>, "none")
  <2>1. ScanAtEnd(c) = f
    BY <1>5 DEF ScanAtEnd
  <2>2. /\ Stands(f) /\ Begun(c, f) /\ Reported(c.pos, f) /\ f.type = "EOF" /\ f.end = Past
        /\ f.does = "none" /\ f.from.pos = f.end
    BY <1>2
  <2> HIDE DEF f
  <2> QED BY <1>5, <2>1, <2>2 DEF Told, Hollow
<1> QED BY <1>3, <1>4, <1>5

\* What stands where no blank and no comment does makes a token, or an end.
LEMMA TokenTold ==
  ASSUME source \in Seq(STRING), \A i \in 1..Len(source) : At(i) # "EOF", NEW c, Right(c),
         At(c.pos) \notin Blank
  PROVE  Told(c, ScanToken(c))
<1> DEFINE p == c.pos
<1>0. p \in Nat /\ 1 <= p /\ Past \in Nat /\ p <= Past /\ Past = Len(source) + 1 /\ Len(source) \in Nat
  BY RightFields, TextPast
<1>1. p # Past => Printed(p)
  <2>1. p # Past => p \in 1..Len(source)
    BY <1>0
  <2> QED BY <2>1, Characters DEF Printed
<1>2. \/ p = Past /\ ScanToken(c) = ScanAtEnd(c)
      \/ At(p) \in HighByte /\ ScanToken(c) = Bad(c, p + 1)
      \/ At(p) = Quote /\ ScanToken(c) = ScanString(c, "STRING")
      \/ At(p) = "BACKQUOTE" /\ ScanToken(c) = ScanRawString(c)
      \/ At(p) = "f" /\ At(p + 1) = Quote /\ ScanToken(c) = ScanFstringStart(c)
      \/ At(p) = "b" /\ At(p + 1) = Quote /\ ScanToken(c) = ScanString(c, "BYTES")
      \/ At(p) \in IdentStart /\ ScanToken(c) = ScanIdentifier(c)
      \/ Utf8Length(p) > 0 /\ ScanToken(c) = ScanIdentifier(c)
      \/ (At(p) \in Digit \/ (At(p) = "." /\ At(p + 1) \in Digit)) /\ ScanToken(c) = ScanNumber(c)
      \/ p # Past /\ ScanToken(c) = ScanOperator(c)
  BY DEF ScanToken
<1>3. p = Past => Told(c, ScanAtEnd(c))
  BY EndTold
<1>4. At(p) \in HighByte => Told(c, Bad(c, p + 1))
  <2>1. SUFFICES ASSUME At(p) \in HighByte PROVE Ordinary(c, Bad(c, p + 1))
    BY OrdinaryTold
  <2>2. Printed(p)
    BY <2>1, PrintedIn
  <2> QED BY <2>2, OneBad
<1>5. At(p) = Quote => Told(c, ScanString(c, "STRING"))
  BY StringOrdinary, OrdinaryTold
<1>6. At(p) = "BACKQUOTE" => Told(c, ScanRawString(c))
  BY RawOrdinary, OrdinaryTold
<1>7. At(p) = "f" /\ At(p + 1) = Quote => Told(c, ScanFstringStart(c))
  BY StartOrdinary, OrdinaryTold
<1>8. At(p) = "b" /\ At(p + 1) = Quote => Told(c, ScanString(c, "BYTES"))
  BY StringOrdinary, OrdinaryTold
<1>9. At(p) \in IdentStart \/ Utf8Length(p) > 0 => Told(c, ScanIdentifier(c))
  BY IdentifierOrdinary, OrdinaryTold
<1>10. At(p) \in Digit \/ (At(p) = "." /\ At(p + 1) \in Digit) => Told(c, ScanNumber(c))
  BY NumberOrdinary, OrdinaryTold
<1>11. p # Past => Told(c, ScanOperator(c))
  BY <1>1, OperatorTold
<1> QED BY <1>2, <1>3, <1>4, <1>5, <1>6, <1>7, <1>8, <1>9, <1>10, <1>11

(********************************* the scan *********************************)

\* A text of characters, none of which is the mark of its end.
Plaintext == source \in Seq(STRING) /\ \A i \in 1..Len(source) : At(i) # "EOF"

LEMMA EndIsBare ==
  ASSUME source \in Seq(STRING)
  PROVE  At(Past) \notin Blank /\ ~OpensComment(Past)
BY TextPast, Characters DEF OpensComment

LEMMA TriviaPassed ==
  ASSUME source \in Seq(STRING), Right(cursor)
  PROVE  /\ TriviaEnd \in Nat /\ cursor.pos <= TriviaEnd /\ TriviaEnd <= Past
         /\ TriviaOnly(cursor.pos, TriviaEnd)
         /\ At(TriviaEnd) \notin Blank /\ ~OpensComment(TriviaEnd) /\ SkipTrivia[TriviaEnd] = TriviaEnd
         /\ ~Split(TriviaEnd)
<1> DEFINE p == cursor.pos
           t == SkipTrivia[p]
<1>0. p \in Nat /\ Past \in Nat /\ p <= Past
  BY RightFields
<1>1. TriviaFound(p)
  <2>1. p \in 0..Past
    BY <1>0
  <2> QED BY <2>1, TriviaSkipped
<1>2. t \in p..(Past + 1)
  BY <1>1 DEF TriviaFound
<1>3. TriviaEnd = IF t > Past THEN Past ELSE t
  BY DEF TriviaEnd
<1>4. TriviaOnly(p, TriviaEnd) /\ (t <= Past => At(t) \notin Blank /\ ~OpensComment(t))
  BY <1>1, <1>3 DEF TriviaFound
<1> HIDE DEF t
<1>5. TriviaEnd \in Nat /\ p <= TriviaEnd /\ TriviaEnd <= Past
  BY <1>0, <1>2, <1>3
<1>6. At(TriviaEnd) \notin Blank /\ ~OpensComment(TriviaEnd)
  <2>1. CASE t > Past
    BY <1>3, <2>1, EndIsBare
  <2>2. CASE ~(t > Past)
    <3>1. t <= Past
      BY <1>0, <1>2, <2>2
    <3> QED BY <1>3, <1>4, <2>2, <3>1
  <2> QED BY <2>1, <2>2
<1>7. SkipTrivia[TriviaEnd] = TriviaEnd
  BY <1>5, <1>6, TriviaTo
<1>8. ~Split(TriviaEnd)
  BY <1>6, Characters, NotSplit
<1> QED BY <1>4, <1>5, <1>6, <1>7, <1>8

\* The cursor moved past the trivia, and what is reported on the way.
LEMMA TriviaWalked ==
  ASSUME source \in Seq(STRING), Right(cursor)
  PROVE  Right(Walk(cursor, TriviaEnd)) /\ Walk(cursor, TriviaEnd).pos = TriviaEnd
BY TriviaPassed, WalkArrives DEF Arrives

Unclosed == mode # "TEXT" /\ SkipTrivia[cursor.pos] > Past

LEMMA TriviaReported ==
  ASSUME source \in Seq(STRING), Right(cursor)
  PROVE  /\ TriviaReports \in Seq(cursor.pos..Past)
         /\ Len(TriviaReports) = Returns(cursor.pos, TriviaEnd) + (IF SkipTrivia[cursor.pos] > Past THEN 1 ELSE 0)
<1> DEFINE p == cursor.pos
           r == ReturnReports(p, TriviaEnd)
<1>0. p \in Nat /\ Past \in Nat /\ p <= Past
  BY RightFields
<1>1. TriviaEnd \in Nat /\ p <= TriviaEnd /\ TriviaEnd <= Past
  BY TriviaPassed
<1>2. r \in Seq(p..TriviaEnd) /\ Len(r) = Returns(p, TriviaEnd)
  BY <1>0, <1>1, ReportsReturns
<1> HIDE DEF r
<1>3. r \in Seq(p..Past)
  <2>1. p..TriviaEnd \subseteq p..Past
    BY <1>0, <1>1
  <2> QED BY <1>2, <2>1, SeqWider
<1>4. Returns(p, TriviaEnd) \in Nat
  BY <1>0, <1>1, ReturnsFinite
<1>5. CASE SkipTrivia[p] > Past
  <2>1. TriviaReports = r \o <<Past>>
    BY <1>5 DEF TriviaReports, r
  <2>2. Past \in p..Past
    BY <1>0
  <2>3. r \o <<Past>> \in Seq(p..Past) /\ Len(r \o <<Past>>) = Len(r) + 1
    BY <1>3, <2>2, ReportMore
  <2> QED BY <1>2, <1>5, <2>1, <2>3
<1>6. CASE ~(SkipTrivia[p] > Past)
  <2>1. TriviaReports = r \o <<>>
    BY <1>6 DEF TriviaReports, r
  <2>2. r \o <<>> = r
    BY <1>3, ConcatEmptySeq
  <2>3. TriviaReports = r
    BY <2>1, <2>2
  <2> QED BY <1>2, <1>3, <1>4, <1>6, <2>3
<1> QED BY <1>5, <1>6

\* What a scan makes of the cursor and the list of reports.
Passed(s) ==
  /\ Right(s.from) /\ Right(s.to) /\ s.end \in Nat
  /\ cursor.pos <= s.from.pos /\ s.from.pos <= s.end /\ s.end <= s.to.pos /\ s.type # "none"
  /\ Reports(s) \in Seq(cursor.pos..Past)
  /\ Len(Reports(s)) = Returns(cursor.pos, s.to.pos) + ((IF Unclosed THEN 1 ELSE 0)
                                                         + (IF s.type = "INVALID" THEN 1 ELSE 0))
Inline(s) ==
  /\ mode = "TEXT" /\ s.from = cursor /\ s.to.pos = s.end /\ Hollow(s)
  /\ s.type \notin {"EOF", "SEMICOLON", "FSTRING_FORMAT"}
Newlined(s) ==
  /\ mode # "TEXT" /\ canEndStatement /\ s.type = "SEMICOLON" /\ s.does = "none"
  /\ s.from.pos = s.end /\ At(s.end) \in NewlineChar /\ s.to.pos = TriviaEnd
Direct(s) ==
  /\ mode # "TEXT" /\ ~(NewlineSeen /\ canEndStatement) /\ s.to.pos = s.end /\ Hollow(s)
  /\ \/ s.from.pos = TriviaEnd
     \/ s.from.pos = TriviaEnd + 1 /\ At(TriviaEnd) = ":" /\ s.type \in {"FSTRING_FORMAT", "INVALID"}
  /\ s.type = "EOF" => s.from.pos = s.end

LEMMA ToldReported ==
  ASSUME source \in Seq(STRING), NEW c, Right(c), NEW s, Told(c, s)
  PROVE  /\ Right(s.from) /\ Right(s.to) /\ s.end = s.to.pos /\ s.end \in Nat
         /\ c.pos <= s.from.pos /\ s.from.pos <= s.end
         /\ s.errs \in Seq(c.pos..Past) /\ Len(s.errs) = Returns(c.pos, s.end) + (IF s.type = "INVALID" THEN 1 ELSE 0)
         /\ \/ s.from.pos = c.pos
            \/ s.from.pos = c.pos + 1 /\ At(c.pos) = ":" /\ s.type \in {"FSTRING_FORMAT", "INVALID"}
<1>1. c \in Cursor /\ c.pos \in Nat
  BY RightFields
<1>2. Right(s.from) /\ Right(s.to) /\ s.end = s.to.pos /\ s.from.pos <= s.end
  BY DEF Told, Stands
<1>3. s.to.pos \in Nat
  BY <1>2, RightFields
<1>4. Advance(c, 1).pos = c.pos + 1
  BY <1>1, AdvanceFields
<1>5. \/ s.from.pos = c.pos
      \/ s.from.pos = c.pos + 1 /\ At(c.pos) = ":" /\ s.type \in {"FSTRING_FORMAT", "INVALID"}
  <2>1. \/ s.from = c
        \/ s.from = Advance(c, 1) /\ At(c.pos) = ":" /\ s.type \in {"FSTRING_FORMAT", "INVALID"}
    BY DEF Told, Begun
  <2>2. CASE s.from = c
    BY <2>2
  <2>3. CASE s.from = Advance(c, 1) /\ At(c.pos) = ":" /\ s.type \in {"FSTRING_FORMAT", "INVALID"}
    BY <1>4, <2>3
  <2> QED BY <2>1, <2>2, <2>3
<1>6. c.pos <= s.from.pos
  BY <1>1, <1>5
<1>7. s.errs \in Seq(c.pos..Past) /\ Len(s.errs) = Returns(c.pos, s.end) + (IF s.type = "INVALID" THEN 1 ELSE 0)
  BY DEF Told, Reported
<1> QED BY <1>2, <1>3, <1>5, <1>6, <1>7

LEMMA TextPasses ==
  ASSUME source \in Seq(STRING), Right(cursor), mode = "TEXT"
  PROVE  Passed(Scan) /\ Inline(Scan)
<1> DEFINE s == Scan
<1>1. s = ScanFstringText(cursor) /\ Reports(s) = s.errs
  BY DEF Scan, Reports
<1> HIDE DEF s
<1>2. Told(cursor, s) /\ s.from = cursor /\ s.type \notin {"EOF", "SEMICOLON", "FSTRING_FORMAT"}
  BY <1>1, TextScanTold DEF TextTold
<1>3. /\ Right(s.from) /\ Right(s.to) /\ s.end = s.to.pos /\ s.end \in Nat
      /\ cursor.pos <= s.from.pos /\ s.from.pos <= s.end
      /\ s.errs \in Seq(cursor.pos..Past)
      /\ Len(s.errs) = Returns(cursor.pos, s.end) + (IF s.type = "INVALID" THEN 1 ELSE 0)
  BY <1>2, ToldReported
<1>4. Inline(s)
  BY <1>2, <1>3 DEF Inline, Told
<1>5. Passed(s)
  <2>1. ~Unclosed
    BY DEF Unclosed
  <2>2. s.end <= s.to.pos
    BY <1>3
  <2>3. s.type # "none"
    BY <1>2 DEF Told
  <2> QED BY <1>1, <1>3, <2>1, <2>2, <2>3 DEF Passed
<1> QED BY <1>4, <1>5 DEF s

LEMMA AutoPasses ==
  ASSUME source \in Seq(STRING), Right(cursor), mode # "TEXT", NewlineSeen, canEndStatement
  PROVE  Passed(Scan) /\ Newlined(Scan)
<1> DEFINE s  == Scan
           p  == cursor.pos
           u  == Until(p, NewlineChar)
           at == Walk(cursor, u)
           to == Walk(cursor, TriviaEnd)
<1>0. p \in Nat /\ Past \in Nat /\ p <= Past /\ ~Split(p)
  BY RightFields DEF Right
<1>1. TriviaEnd \in Nat /\ p <= TriviaEnd /\ TriviaEnd <= Past /\ Right(to) /\ to.pos = TriviaEnd
  BY TriviaPassed, TriviaWalked
<1>2. /\ u \in p..Past /\ (u = Past \/ At(u) \in NewlineChar)
      /\ \A r \in p..(u - 1) : At(r) \notin NewlineChar
  BY <1>0, UntilStops
<1> HIDE DEF u
<1>3. PICK i \in p..(TriviaEnd - 1) : At(i) \in NewlineChar
  BY DEF NewlineSeen
<1>4. u \in Nat /\ p <= u /\ u < TriviaEnd /\ u <= Past
  BY <1>0, <1>1, <1>2, <1>3
<1>5. At(u) \in NewlineChar
  BY <1>1, <1>2, <1>4
<1>6. ~Split(u)
  <2>1. CASE u = p
    BY <1>0, <2>1
  <2>2. CASE u # p
    <3>1. u - 1 \in p..(u - 1)
      BY <1>0, <1>4, <2>2
    <3> QED BY <1>2, <3>1, NotSplit
  <2> QED BY <2>1, <2>2
<1>7. Right(at) /\ at.pos = u
  BY <1>4, <1>6, WalkArrives DEF Arrives
<1> DEFINE f == Found("SEMICOLON", at, to, <<>>, "none")
<1>8. s = [f EXCEPT !.end = at.pos]
  BY DEF Scan, AutoSemicolon, u
<1>9. s.from = at /\ s.to = to /\ s.type = "SEMICOLON" /\ s.errs = <<>> /\ s.does = "none" /\ s.end = at.pos
  BY <1>8 DEF Found
<1> HIDE DEF s, at, to
<1>10. s.from.pos = u /\ s.end = u /\ s.to.pos = TriviaEnd
  BY <1>1, <1>7, <1>9
<1>11. Newlined(s)
  BY <1>5, <1>9, <1>10 DEF Newlined
<1>12. Reports(s) = TriviaReports
  <2>1. TriviaReports \in Seq(p..Past)
    BY TriviaReported
  <2>2. Reports(s) = TriviaReports \o <<>>
    BY <1>9 DEF Reports
  <2> QED BY <2>1, <2>2, ConcatEmptySeq
<1>13. Passed(s)
  <2>1. p <= u /\ u <= u /\ u <= TriviaEnd
    BY <1>1, <1>4
  <2>2. Returns(p, TriviaEnd) \in Nat
    BY <1>0, <1>1, ReturnsFinite
  <2>3. Unclosed <=> SkipTrivia[p] > Past
    BY DEF Unclosed
  <2>4. /\ Reports(s) \in Seq(p..Past)
        /\ Len(Reports(s)) = Returns(p, s.to.pos) + ((IF Unclosed THEN 1 ELSE 0) + (IF s.type = "INVALID" THEN 1 ELSE 0))
    BY <1>9, <1>10, <1>12, <2>2, <2>3, TriviaReported
  <2> QED BY <1>1, <1>4, <1>7, <1>9, <1>10, <2>1, <2>4 DEF Passed
<1> QED BY <1>11, <1>13 DEF s

LEMMA DirectPasses ==
  ASSUME Plaintext, Right(cursor), mode # "TEXT", ~(NewlineSeen /\ canEndStatement)
  PROVE  Passed(Scan) /\ Direct(Scan)
<1> DEFINE s == Scan
           p == cursor.pos
           c == Walk(cursor, TriviaEnd)
<1>0. p \in Nat /\ Past \in Nat /\ p <= Past /\ source \in Seq(STRING)
  BY RightFields DEF Plaintext
<1>1. /\ TriviaEnd \in Nat /\ p <= TriviaEnd /\ TriviaEnd <= Past /\ At(TriviaEnd) \notin Blank
      /\ Right(c) /\ c.pos = TriviaEnd
  BY <1>0, TriviaPassed, TriviaWalked
<1>2. s = ScanToken(c) /\ Reports(s) = TriviaReports \o s.errs
  BY DEF Scan, Reports
<1> HIDE DEF s, c
<1>3. Told(c, s)
  BY <1>0, <1>1, <1>2, TokenTold DEF Plaintext
<1>4. /\ Right(s.from) /\ Right(s.to) /\ s.end = s.to.pos /\ s.end \in Nat
      /\ c.pos <= s.from.pos /\ s.from.pos <= s.end
      /\ s.errs \in Seq(c.pos..Past)
      /\ Len(s.errs) = Returns(c.pos, s.end) + (IF s.type = "INVALID" THEN 1 ELSE 0)
  BY <1>0, <1>1, <1>3, ToldReported
<1>5. \/ s.from.pos = c.pos
      \/ s.from.pos = c.pos + 1 /\ At(c.pos) = ":" /\ s.type \in {"FSTRING_FORMAT", "INVALID"}
  BY <1>0, <1>1, <1>3, ToldReported
<1>6. Direct(s)
  BY <1>1, <1>3, <1>4, <1>5 DEF Direct, Told
<1>7. s.errs \in Seq(p..Past)
  <2>1. c.pos..Past \subseteq p..Past
    BY <1>0, <1>1
  <2> QED BY <1>4, <2>1, SeqWider
<1>8. s.from.pos \in Nat /\ p <= s.from.pos /\ TriviaEnd <= s.end
  <2>1. s.from.pos \in Nat
    BY <1>0, <1>4, RightFields
  <2> QED BY <1>0, <1>1, <1>4, <2>1
<1>9. /\ Returns(p, s.end) = Returns(p, TriviaEnd) + Returns(TriviaEnd, s.end)
      /\ Returns(p, TriviaEnd) \in Nat /\ Returns(TriviaEnd, s.end) \in Nat
  <2>1. p \in Nat /\ TriviaEnd \in Nat /\ s.end \in Nat /\ p <= TriviaEnd /\ TriviaEnd <= s.end
    BY <1>0, <1>1, <1>4, <1>8
  <2>2. Returns(p, s.end) = Returns(p, TriviaEnd) + Returns(TriviaEnd, s.end)
    BY <2>1, ReturnsAdd
  <2>3. Returns(p, TriviaEnd) \in Nat /\ Returns(TriviaEnd, s.end) \in Nat
    BY <2>1, ReturnsFinite
  <2> QED BY <2>2, <2>3
<1>10. Unclosed <=> SkipTrivia[p] > Past
  BY DEF Unclosed
<1>11. TriviaReports \in Seq(p..Past)
       /\ Len(TriviaReports) = Returns(p, TriviaEnd) + (IF SkipTrivia[p] > Past THEN 1 ELSE 0)
  BY <1>0, TriviaReported
<1>12. Reports(s) \in Seq(p..Past) /\ Len(Reports(s)) = Len(TriviaReports) + Len(s.errs)
  BY <1>2, <1>7, <1>11, ConcatProperties
<1>13. Len(Reports(s)) = Returns(p, s.to.pos) + ((IF Unclosed THEN 1 ELSE 0) + (IF s.type = "INVALID" THEN 1 ELSE 0))
  <2>1. Len(s.errs) = Returns(TriviaEnd, s.end) + (IF s.type = "INVALID" THEN 1 ELSE 0)
    BY <1>1, <1>4
  <2> DEFINE u == IF Unclosed THEN 1 ELSE 0
             v == IF s.type = "INVALID" THEN 1 ELSE 0
  <2>2. Len(TriviaReports) = Returns(p, TriviaEnd) + u /\ u \in Nat
    BY <1>10, <1>11
  <2>3. v \in Nat /\ Len(s.errs) = Returns(TriviaEnd, s.end) + v
    BY <2>1
  <2> HIDE DEF u, v
  <2>4. Len(Reports(s)) = Returns(p, s.end) + (u + v)
    BY <1>9, <1>12, <2>2, <2>3
  <2> QED BY <1>4, <2>4 DEF u, v
<1>14. s.end <= s.to.pos
  BY <1>4
<1>15. Passed(s)
  BY <1>3, <1>4, <1>8, <1>12, <1>13, <1>14 DEF Passed, Told
<1> QED BY <1>6, <1>15 DEF s

LEMMA ScanPasses ==
  ASSUME Plaintext, Right(cursor)
  PROVE  Passed(Scan) /\ (Inline(Scan) \/ Newlined(Scan) \/ Direct(Scan))
BY TextPasses, AutoPasses, DirectPasses DEF Plaintext

(********************************* a step ***********************************)

IsList(s) == \E S : s \in Seq(S)

LEMMA ListAppend ==
  ASSUME NEW s, IsList(s), NEW t
  PROVE  /\ IsList(Append(s, t)) /\ Len(s) \in Nat /\ Len(Append(s, t)) = Len(s) + 1
         /\ Append(s, t)[Len(s) + 1] = t /\ \A k \in 1..Len(s) : Append(s, t)[k] = s[k]
<1>1. PICK S : s \in Seq(S)
  BY DEF IsList
<1>2. s \in Seq(S \cup {t})
  BY <1>1, SeqWider
<1>3. t \in S \cup {t}
  OBVIOUS
<1>4. /\ Append(s, t) \in Seq(S \cup {t}) /\ Len(Append(s, t)) = Len(s) + 1
      /\ Append(s, t)[Len(s) + 1] = t /\ \A k \in 1..Len(s) : Append(s, t)[k] = s[k]
  BY <1>2, <1>3
<1> QED BY <1>1, <1>4 DEF IsList

\* What no step changes.
LEMMA SameText ==
  ASSUME source' = source
  PROVE  Past' = Past /\ SkipTrivia' = SkipTrivia /\ HasBom' = HasBom
<1>1. Past' = Past
  BY DEF Past
<1>2. SkipTrivia' = SkipTrivia
  BY DEF SkipTrivia, Until, SkipBlockComment, Closes, At, Past
<1>3. HasBom' = HasBom
  BY DEF HasBom, At
<1> QED BY <1>1, <1>2, <1>3

LEMMA RightStill ==
  ASSUME source' = source, NEW c, Right(c), cursor' = c
  PROVE  Right(cursor)'
BY DEF Right, Split, IsReturn, IsFeed, Placed, LineBreaks, BareReturn, At, Past

LEMMA PlainStill ==
  ASSUME source' = source, Plaintext
  PROVE  Plaintext'
BY DEF Plaintext, At

\* One token more.
Grown(t) == /\ Tokens' = Append(Tokens, t) /\ K \in Nat /\ K' = K + 1 /\ Newest' = t
            /\ \A k \in 1..K : Tokens'[k] = Tokens[k]

LEMMA TokensGrow ==
  ASSUME IsList(handed), peeked = None, NEW t, t.type # "none", Deliver(t)
  PROVE  Grown(t) /\ IsList(handed)'
<1>0. None.type = "none"
  BY DEF None
<1>1. t # None
  BY <1>0
<1>2. Tokens = handed
  BY DEF Tokens
<1>3. CASE handed' = Append(handed, t) /\ peeked' = None
  <2>1. Tokens' = Append(Tokens, t)
    BY <1>2, <1>3 DEF Tokens
  <2>2. IsList(handed)'
    BY <1>3, ListAppend DEF IsList
  <2> QED BY <1>2, <2>1, <2>2, ListAppend DEF Grown, K, Newest
<1>4. CASE peeked' = t /\ UNCHANGED handed
  <2>1. Tokens' = Append(Tokens, t)
    BY <1>1, <1>2, <1>4 DEF Tokens, None
  <2>2. IsList(handed)'
    BY <1>4 DEF IsList
  <2> QED BY <1>2, <2>1, <2>2, ListAppend DEF Grown, K, Newest
<1> QED BY <1>3, <1>4 DEF Deliver

LEMMA TokensKept ==
  ASSUME IsList(handed), HandPeeked
  PROVE  Tokens' = Tokens /\ IsList(handed)'
<1>1. peeked # None /\ handed' = Append(handed, peeked) /\ peeked' = None
  BY DEF HandPeeked
<1>2. Tokens' = Tokens
  BY <1>1 DEF Tokens, None
<1>3. IsList(handed)'
  BY <1>1, ListAppend DEF IsList
<1> QED BY <1>2, <1>3

\* The invariant of the reading: where the cursor stands, and that the list has its bound.
Reading == /\ Plaintext /\ Right(cursor) /\ IsList(handed)
           /\ diags \in Nat /\ diags <= MaxDiags /\ theirs \in Nat

\* What a scan does to what is read.
Taken(s) == LET t == Token(s.type, s.from, s.end)
            IN  /\ Passed(s) /\ (Inline(s) \/ Newlined(s) \/ Direct(s)) /\ Grown(t)
                /\ diags + Len(Reports(s)) <= MaxDiags /\ diags' = diags + Len(Reports(s)) /\ cursor' = s.to
                /\ canEndStatement' = (TokenEndsStatement(s.type) /\ ~(mode = "TEXT" /\ s.type = "STRING"))
                /\ UNCHANGED <<source, theirs, hitDiagCap>>
Capped(d) == /\ Right(d) /\ cursor.pos <= d.pos /\ cursor' = d /\ Grown(Token("EOF", d, d.pos))
             /\ diags' = MaxDiags /\ hitDiagCap' = TRUE /\ canEndStatement' = FALSE /\ UNCHANGED <<source, theirs>>

Handles(s) == \/ Plain(s) \/ PushFrame(s) \/ PopFstringFrame(s) \/ OpenInterpolation(s)
              \/ OpenBracket(s) \/ CloseBracket(s) \/ OpenBrace(s) \/ CloseBrace(s)

LEMMA HandlesScanned == ASSUME NEW s, Handles(s) PROVE Scanned(s)
BY DEF Handles, Plain, PushFrame, PopFstringFrame, OpenInterpolation, OpenBracket, CloseBracket, OpenBrace, CloseBrace

LEMMA TokenFields ==
  ASSUME NEW type, NEW from, NEW end
  PROVE  LET t == Token(type, from, end)
         IN  /\ t.type = type /\ t.start = from.pos /\ t.end = end /\ t.line = from.line /\ t.col = from.col
             /\ t.text = (mode = "TEXT")
BY DEF Token

LEMMA ScanTakes ==
  ASSUME Reading, ScanNext
  PROVE  \/ Handles(Scan) /\ Taken(Scan) /\ ~hitDiagCap /\ IsList(handed)'
         \/ HitDiagCap(Scan) /\ (\E d : Capped(d)) /\ IsList(handed)'
<1> DEFINE s == Scan
<1>1. Passed(s) /\ (Inline(s) \/ Newlined(s) \/ Direct(s))
  BY ScanPasses DEF Reading
<1>2. /\ peeked = None /\ ~hitDiagCap
      /\ Handles(s) \/ HitDiagCap(s)
  BY DEF ScanNext, Handles
<1> HIDE DEF s
<1>3. CASE Handles(s)
  <2>1. Scanned(s)
    BY <1>3, HandlesScanned
  <2> DEFINE t == Token(s.type, s.from, s.end)
  <2>2. Deliver(t)
    BY <2>1 DEF Scanned
  <2>3. t.type # "none"
    BY <1>1, TokenFields DEF Passed
  <2> HIDE DEF t
  <2>4. Grown(t) /\ IsList(handed)'
    BY <1>2, <2>2, <2>3, TokensGrow DEF Reading
  <2>5. Taken(s)
    BY <1>1, <2>1, <2>4 DEF Taken, Scanned, t
  <2> QED BY <1>2, <1>3, <2>4, <2>5 DEF s
<1>4. CASE HitDiagCap(s)
  <2> DEFINE k == MaxDiags - diags + 1
             r == Reports(s)
             d == Walk(cursor, r[k])
             t == Token("EOF", d, d.pos)
  <2>1. /\ diags + Len(r) > MaxDiags /\ cursor' = d /\ Deliver(t)
        /\ diags' = MaxDiags /\ hitDiagCap' = TRUE /\ canEndStatement' = FALSE /\ UNCHANGED <<source, theirs>>
    BY <1>4 DEF HitDiagCap
  <2>2. r \in Seq(cursor.pos..Past)
    BY <1>1 DEF Passed
  <2> HIDE DEF r
  <2>3. MaxDiags \in Nat /\ diags \in Nat /\ diags <= MaxDiags /\ Len(r) \in Nat
    BY <2>2, LexerAssumption DEF Reading
  <2>4. k \in 1..Len(r)
    BY <2>1, <2>3
  <2> HIDE DEF k
  <2>5. r[k] \in cursor.pos..Past
    BY <2>2, <2>4, ElementOfSeq
  <2>6. source \in Seq(STRING) /\ Right(cursor)
    BY DEF Reading, Plaintext
  <2>7. r[k] \in Nat /\ r[k] <= Past /\ cursor.pos <= r[k]
    BY <2>5, <2>6, RightFields
  <2>8. Right(d) /\ cursor.pos <= d.pos
    <3>1. Arrives(cursor, r[k])
      BY <2>6, <2>7, WalkArrives
    <3> QED BY <2>6, <3>1, RightFields DEF Arrives
  <2> HIDE DEF d
  <2>9. t.type # "none"
    BY TokenFields
  <2> HIDE DEF t
  <2>10. Grown(t) /\ IsList(handed)'
    BY <1>2, <2>1, <2>9, TokensGrow DEF Reading
  <2>11. Capped(d)
    BY <2>1, <2>8, <2>10 DEF Capped, t
  <2> QED BY <1>4, <2>10, <2>11 DEF s
<1> QED BY <1>2, <1>3, <1>4

\* A step that scans nothing.
Idle == /\ Tokens' = Tokens /\ IsList(handed)'
        /\ UNCHANGED <<source, cursor, canEndStatement, mode, frames, hitDiagCap>>
        /\ \/ UNCHANGED <<diags, theirs>>
           \/ diags < MaxDiags /\ diags' = diags + 1 /\ theirs' = theirs + 1

LEMMA OtherIdle ==
  ASSUME Reading, HandPeeked \/ ParserReports \/ UNCHANGED vars
  PROVE  Idle
<1>1. CASE HandPeeked
  BY <1>1, TokensKept DEF Idle, HandPeeked, Reading
<1>2. CASE ParserReports
  BY <1>2 DEF Idle, ParserReports, Tokens, None, Reading, IsList
<1>3. CASE UNCHANGED vars
  BY <1>3 DEF Idle, vars, Tokens, None, Reading, IsList
<1> QED BY <1>1, <1>2, <1>3

LEMMA ReadingKept ==
  ASSUME Reading, [Next]_vars
  PROVE  Reading'
<1>0. /\ Plaintext /\ Right(cursor) /\ diags \in Nat /\ diags <= MaxDiags /\ theirs \in Nat /\ MaxDiags \in Nat
      /\ source \in Seq(STRING)
  BY LexerAssumption DEF Reading, Plaintext
<1>1. CASE ScanNext
  <2>1. CASE Taken(Scan) /\ IsList(handed)'
    <3> DEFINE s == Scan
    <3>1. /\ Passed(s) /\ diags + Len(Reports(s)) <= MaxDiags /\ diags' = diags + Len(Reports(s)) /\ cursor' = s.to
          /\ source' = source /\ theirs' = theirs
      BY <2>1 DEF Taken
    <3> HIDE DEF s
    <3>2. Right(s.to) /\ Reports(s) \in Seq(cursor.pos..Past)
      BY <3>1 DEF Passed
    <3>3. Len(Reports(s)) \in Nat
      BY <3>2
    <3>4. Right(cursor)'
      BY <3>1, <3>2, RightStill
    <3>5. diags' \in Nat /\ diags' <= MaxDiags
      BY <1>0, <3>1, <3>3
    <3>6. Plaintext'
      BY <1>0, <3>1, PlainStill
    <3> QED BY <1>0, <2>1, <3>1, <3>4, <3>5, <3>6 DEF Reading
  <2>2. CASE (\E d : Capped(d)) /\ IsList(handed)'
    <3>1. PICK d : Capped(d)
      BY <2>2
    <3>2. Right(cursor)' /\ Plaintext'
      BY <1>0, <3>1, RightStill, PlainStill DEF Capped
    <3> QED BY <1>0, <2>2, <3>1, <3>2 DEF Reading, Capped
  <2> QED BY <1>1, <2>1, <2>2, ScanTakes
<1>2. CASE HandPeeked \/ ParserReports \/ UNCHANGED vars
  <2>1. Idle
    BY <1>2, OtherIdle
  <2>2. Right(cursor)' /\ Plaintext'
    BY <1>0, <2>1, RightStill, PlainStill DEF Idle
  <2>3. diags' \in Nat /\ diags' <= MaxDiags /\ theirs' \in Nat
    BY <1>0, <2>1 DEF Idle
  <2> QED BY <2>1, <2>2, <2>3 DEF Reading, Idle
<1> QED BY <1>1, <1>2 DEF Next, Step

LEMMA StartRight ==
  ASSUME source \in Seq(STRING)
  PROVE  Right([pos |-> 1, line |-> 1, col |-> 1])
<1> DEFINE c == [pos |-> 1, line |-> 1, col |-> 1]
<1>1. c \in Cursor /\ c.pos = 1 /\ c.line = 1 /\ c.col = 1
  BY DEF Cursor
<1>2. LineBreaks(1) = {} /\ Cardinality(LineBreaks(1)) = 0
  <2>1. LineBreaks(1) = {}
    BY LineBreaksFinite
  <2> QED BY <2>1, FS_EmptySet
<1>3. Placed(1, 1, 1)
  BY <1>2 DEF Placed
<1>4. ~Split(1)
  BY DEF Split
<1>5. 1 \in 1..Past
  BY TextPast
<1> QED BY <1>1, <1>3, <1>4, <1>5 DEF Right

\* A byte order mark has no newline.
LEMMA BomClear ==
  ASSUME source \in Seq(STRING), HasBom
  PROVE  Clear(1, 4)
<1>1. At(1) \in HighByte /\ At(2) \in HighByte /\ At(3) \in HighByte
  BY DEF HasBom, HighByte, Lead, Trail
<1>2. Printed(1) /\ Printed(2) /\ Printed(3)
  BY <1>1, PrintedIn
<1>3. \A i \in 1..(1 + 3 - 1) : i = 1 \/ i = 2 \/ i = 3
  OBVIOUS
<1>4. \A i \in 1..(1 + 3 - 1) : Printed(i)
  BY <1>2, <1>3
<1> DEFINE p == 1
<1>5. Clear(p, p + 3)
  <2>1. p \in Nat /\ 3 \in Nat /\ 3 > 0 /\ \A i \in p..(p + 3 - 1) : Printed(i)
    BY <1>4
  <2>2. p + 3 = 4
    OBVIOUS
  <2> HIDE DEF p
  <2> QED BY <2>1, ClearPrinted
<1> QED BY <1>5

LEMMA InitReading == Init => Reading
<1> SUFFICES ASSUME Init PROVE Reading
  OBVIOUS
<1>1. source \in Sources /\ handed = <<>> /\ theirs = 0 /\ diags = (IF HasBom THEN 1 ELSE 0)
      /\ cursor = (IF HasBom THEN [pos |-> 4, line |-> 1, col |-> 4] ELSE [pos |-> 1, line |-> 1, col |-> 1])
  BY DEF Init
<1>2. source \in Seq(STRING) /\ \A i \in 1..Len(source) : source[i] # "EOF"
  BY <1>1, LexerAssumption
<1>3. Plaintext
  <2>1. \A i \in 1..Len(source) : At(i) = source[i]
    BY <1>2 DEF At
  <2> QED BY <1>2, <2>1 DEF Plaintext
<1>4. IsList(handed)
  <2>1. <<>> \in Seq({})
    BY EmptySeq
  <2> QED BY <1>1, <2>1 DEF IsList
<1>5. diags \in Nat /\ diags <= MaxDiags /\ theirs \in Nat
  BY <1>1, LexerAssumption
<1>6. Right(cursor)
  <2> DEFINE c == [pos |-> 1, line |-> 1, col |-> 1]
  <2>1. Right(c)
    BY <1>2, StartRight
  <2>2. CASE ~HasBom
    BY <1>1, <2>1, <2>2
  <2>3. CASE HasBom
    <3>1. Clear(c.pos, 4)
      BY <1>2, <2>3, BomClear
    <3>2. Advance(c, 4 - c.pos) = [pos |-> 4, line |-> 1, col |-> 4]
      BY DEF Advance
    <3> HIDE DEF c
    <3>3. Right(Advance(c, 4 - c.pos))
      BY <1>2, <2>1, <3>1, AlongStands
    <3> QED BY <1>1, <2>3, <3>2, <3>3
  <2> QED BY <2>2, <2>3
<1> QED BY <1>3, <1>4, <1>5, <1>6 DEF Reading

(******************************** the positions ******************************)

LEMMA PositionIs ==
  PositionExact <=> (K > 0 => Placed(Newest.start, Newest.line, Newest.col))
BY DEF PositionExact, Placed

LEMMA PositionGrown ==
  ASSUME source' = source, NEW t, Grown(t), Placed(t.start, t.line, t.col)
  PROVE  PositionExact'
<1>1. Newest' = t
  BY DEF Grown
<1>2. Placed(Newest.start, Newest.line, Newest.col)'
  BY <1>1 DEF Placed, LineBreaks, BareReturn, At
<1> QED BY <1>2 DEF PositionExact, Placed

LEMMA PositionKept ==
  ASSUME Reading, PositionExact, [Next]_vars
  PROVE  PositionExact'
<1>1. CASE ScanNext
  <2>1. CASE Taken(Scan)
    <3> DEFINE s == Scan
               t == Token(s.type, s.from, s.end)
    <3>1. Grown(t) /\ source' = source /\ Passed(s)
      BY <2>1 DEF Taken
    <3>2. t.start = s.from.pos /\ t.line = s.from.line /\ t.col = s.from.col
      BY TokenFields
    <3> HIDE DEF s, t
    <3>3. Placed(t.start, t.line, t.col)
      BY <3>1, <3>2 DEF Passed, Right
    <3> QED BY <3>1, <3>3, PositionGrown
  <2>2. CASE \E d : Capped(d)
    <3>1. PICK d : Capped(d)
      BY <2>2
    <3> DEFINE t == Token("EOF", d, d.pos)
    <3>2. Grown(t) /\ source' = source /\ Right(d)
      BY <3>1 DEF Capped
    <3>3. t.start = d.pos /\ t.line = d.line /\ t.col = d.col
      BY TokenFields
    <3> HIDE DEF t
    <3>4. Placed(t.start, t.line, t.col)
      BY <3>2, <3>3 DEF Right
    <3> QED BY <3>2, <3>4, PositionGrown
  <2> QED BY <1>1, <2>1, <2>2, ScanTakes
<1>2. CASE HandPeeked \/ ParserReports \/ UNCHANGED vars
  <2>1. Tokens' = Tokens /\ source' = source
    BY <1>2, OtherIdle DEF Idle
  <2> QED BY <2>1 DEF PositionExact, LineBreaks, BareReturn, At, Newest, K
<1> QED BY <1>1, <1>2 DEF Next, Step

\* For every text: the line and the column of a token are those of its first byte.
THEOREM LexerPositionExact == Spec => []PositionExact
<1>1. Init => Reading /\ PositionExact
  <2>1. Init => handed = <<>> /\ peeked = None
    BY DEF Init
  <2>2. Init => K = 0
    BY <2>1 DEF K, Tokens
  <2>3. Init => PositionExact
    BY <2>2 DEF PositionExact
  <2> QED BY <2>3, InitReading
<1>2. (Reading /\ PositionExact) /\ [Next]_vars => (Reading /\ PositionExact)'
  BY ReadingKept, PositionKept
<1> QED BY <1>1, <1>2, PTL DEF Spec

(******************************* the semicolons ******************************)

\* Where the reading stands, as the newest token tells it.
Following ==
  /\ EndOf(K) \in Nat /\ EndOf(K) <= cursor.pos
  /\ ~hitDiagCap =>
       /\ canEndStatement <=> K > 0 /\ EndsStatement(Newest)
       /\ ~(K > 0 /\ Inserted(Newest)) => cursor.pos = EndOf(K)
       /\ K > 0 /\ Inserted(Newest) =>
            /\ mode # "TEXT" /\ SkipTrivia[cursor.pos] = cursor.pos
            /\ EndOf(K - 1) \in Nat /\ EndOf(K - 1) <= cursor.pos /\ TriviaOnly(EndOf(K - 1), cursor.pos)

LEMMA EnderNotInserted ==
  ASSUME NEW t, EndsStatement(t)
  PROVE  ~Inserted(t)
BY DEF EndsStatement, Inserted, DocumentedEnders

LEMMA GrownTokens ==
  ASSUME source' = source, NEW t, Grown(t)
  PROVE  /\ EndOf(K)' = t.end /\ EndOf(K - 1)' = EndOf(K)
         /\ K > 0 => Tokens'[K' - 1] = Newest
         /\ K > 0 => EndOf(K - 2)' = EndOf(K - 1)
<1>1. /\ K \in Nat /\ K' = K + 1 /\ Newest' = t /\ Tokens'[K'] = t /\ \A k \in 1..K : Tokens'[k] = Tokens[k]
  BY DEF Grown, Newest
<1>2. HasBom' = HasBom
  BY SameText
<1>3. EndOf(K)' = t.end
  BY <1>1 DEF EndOf
<1>4. K' - 1 = K
  BY <1>1
<1>5. K > 0 => Tokens'[K] = Tokens[K] /\ K # 0
  BY <1>1
<1>6. EndOf(K - 1)' = EndOf(K)
  <2>1. CASE K = 0
    BY <1>2, <1>4, <2>1 DEF EndOf
  <2>2. CASE K > 0
    BY <1>4, <1>5, <2>2 DEF EndOf
  <2> QED BY <1>1, <2>1, <2>2
<1>7. K > 0 => Tokens'[K' - 1] = Newest
  BY <1>4, <1>5 DEF Newest
<1>8. K > 0 => EndOf(K - 2)' = EndOf(K - 1)
  <2>1. SUFFICES ASSUME K > 0 PROVE EndOf(K - 2)' = EndOf(K - 1)
    OBVIOUS
  <2>2. K' - 2 = K - 1
    BY <1>1
  <2>3. CASE K - 1 = 0
    BY <1>2, <2>2, <2>3 DEF EndOf
  <2>4. CASE K - 1 # 0
    <3>1. K - 1 \in 1..K
      BY <1>1, <2>1, <2>4
    <3>2. Tokens'[K - 1] = Tokens[K - 1]
      BY <1>1, <3>1
    <3> QED BY <2>2, <2>4, <3>2 DEF EndOf
  <2> QED BY <2>3, <2>4
<1> QED BY <1>3, <1>6, <1>7, <1>8

LEMMA TriviaStill ==
  ASSUME source' = source, NEW a, NEW b, TriviaOnly(a, b), EndOf(K - 1)' = a, cursor'.pos = b
  PROVE  TriviaOnly(EndOf(K - 1), cursor.pos)'
BY DEF TriviaOnly, Piece, Closes, At, Past

LEMMA EndsTaken ==
  ASSUME NEW s, Taken(s)
  PROVE  LET t == Token(s.type, s.from, s.end)
         IN  /\ canEndStatement' <=> EndsStatement(t)
             /\ Inserted(t) <=> s.type = "SEMICOLON" /\ s.from.pos = s.end
<1> DEFINE t == Token(s.type, s.from, s.end)
<1>1. t.type = s.type /\ t.start = s.from.pos /\ t.end = s.end /\ t.text = (mode = "TEXT")
  BY TokenFields
<1>2. canEndStatement' = (TokenEndsStatement(s.type) /\ ~(mode = "TEXT" /\ s.type = "STRING"))
  BY DEF Taken
<1> HIDE DEF t
<1>3. TokenEndsStatement(s.type) <=> s.type \in DocumentedEnders
  BY DEF TokenEndsStatement, Enders, DocumentedEnders
<1>4. canEndStatement' <=> EndsStatement(t)
  <2>1. canEndStatement' <=> s.type \in DocumentedEnders /\ ~(mode = "TEXT" /\ s.type = "STRING")
    BY <1>2, <1>3, Zenon
  <2>2. t.text <=> mode = "TEXT"
    BY <1>1, Zenon
  <2> QED BY <1>1, <2>1, <2>2, Zenon DEF EndsStatement
<1>5. Inserted(t) <=> s.type = "SEMICOLON" /\ s.from.pos = s.end
  BY <1>1 DEF Inserted
<1> QED BY <1>4, <1>5 DEF t

\* A semicolon that is inserted stands behind a token that ends a statement.
LEMMA InsertedTaken ==
  ASSUME Reading, Following, ~hitDiagCap, NEW s, Taken(s), s.type = "SEMICOLON", s.from.pos = s.end
  PROVE  /\ K > 0 /\ EndsStatement(Newest) /\ cursor.pos = EndOf(K)
         /\ s.does = "none" /\ mode # "TEXT" /\ s.to.pos = TriviaEnd
         /\ s.end = Past \/ At(s.end) \in NewlineChar
<1>1. Inline(s) \/ Newlined(s) \/ Direct(s)
  BY DEF Taken
<1>2. /\ canEndStatement /\ s.does = "none" /\ mode # "TEXT" /\ s.to.pos = TriviaEnd
      /\ s.end = Past \/ At(s.end) \in NewlineChar
  <2>1. CASE Inline(s)
    BY <2>1 DEF Inline
  <2>2. CASE Newlined(s)
    BY <2>2 DEF Newlined
  <2>3. CASE Direct(s)
    BY <2>3 DEF Direct, Hollow
  <2> QED BY <1>1, <2>1, <2>2, <2>3
<1>3. K > 0 /\ EndsStatement(Newest)
  BY <1>2 DEF Following
<1>4. ~Inserted(Newest)
  BY <1>3, EnderNotInserted
<1>5. cursor.pos = EndOf(K)
  BY <1>4 DEF Following
<1> QED BY <1>2, <1>3, <1>5

LEMMA FollowingTaken ==
  ASSUME Reading, Following, ~hitDiagCap, NEW s, Taken(s), Handles(s)
  PROVE  Following'
<1> DEFINE t == Token(s.type, s.from, s.end)
<1>1. Grown(t) /\ source' = source /\ hitDiagCap' = hitDiagCap /\ cursor' = s.to /\ Passed(s)
  BY DEF Taken
<1>2. canEndStatement' <=> EndsStatement(t)
  BY EndsTaken
<1>3. Inserted(t) <=> s.type = "SEMICOLON" /\ s.from.pos = s.end
  BY EndsTaken
<1>4. t.end = s.end
  BY TokenFields
<1> HIDE DEF t
<1>5. EndOf(K)' = s.end /\ EndOf(K - 1)' = EndOf(K) /\ Newest' = t /\ K' > 0
  <2>1. EndOf(K)' = t.end /\ EndOf(K - 1)' = EndOf(K)
    BY <1>1, GrownTokens
  <2>2. Newest' = t /\ K' > 0
    BY <1>1 DEF Grown
  <2> QED BY <1>4, <2>1, <2>2
<1>6. EndOf(K)' \in Nat /\ EndOf(K)' <= cursor'.pos
  BY <1>1, <1>5 DEF Passed
<1>7. (canEndStatement <=> K > 0 /\ EndsStatement(Newest))'
  BY <1>2, <1>5 DEF EndsStatement
<1>8. ASSUME ~Inserted(t) PROVE cursor'.pos = EndOf(K)'
  <2>1. ~Newlined(s)
    BY <1>3, <1>8 DEF Newlined
  <2>2. Inline(s) \/ Direct(s)
    BY <2>1 DEF Taken
  <2>3. s.to.pos = s.end
    BY <2>2 DEF Inline, Direct
  <2> QED BY <1>1, <1>5, <2>3
<1>9. ASSUME Inserted(t)
      PROVE  /\ mode' # "TEXT" /\ SkipTrivia'[cursor'.pos] = cursor'.pos /\ TriviaOnly(EndOf(K - 1), cursor.pos)'
             /\ EndOf(K - 1)' \in Nat /\ EndOf(K - 1)' <= cursor'.pos
  <2>1. cursor.pos = EndOf(K) /\ s.does = "none" /\ mode # "TEXT" /\ s.to.pos = TriviaEnd
    BY <1>3, <1>9, InsertedTaken
  <2>2. mode' = mode
    BY <2>1 DEF Handles, Plain, PushFrame, PopFstringFrame, OpenInterpolation, OpenBracket, CloseBracket, OpenBrace,
                CloseBrace
  <2>3. TriviaOnly(cursor.pos, TriviaEnd) /\ SkipTrivia[TriviaEnd] = TriviaEnd
    BY TriviaPassed DEF Reading, Plaintext
  <2>4. TriviaOnly(EndOf(K - 1), cursor.pos)'
    BY <1>1, <1>5, <2>1, <2>3, TriviaStill
  <2>5. SkipTrivia' = SkipTrivia
    BY <1>1, SameText
  <2>6. cursor.pos <= TriviaEnd /\ EndOf(K) \in Nat
    BY TriviaPassed DEF Reading, Plaintext, Following
  <2> QED BY <1>1, <1>5, <2>1, <2>2, <2>4, <2>3, <2>5, <2>6
<1>10. Inserted(Newest)' <=> Inserted(t)
  BY <1>5 DEF Inserted
<1> QED BY <1>1, <1>5, <1>6, <1>7, <1>8, <1>9, <1>10 DEF Following

LEMMA SemicolonTaken ==
  ASSUME Reading, Following, ~hitDiagCap, NEW s, Taken(s)
  PROVE  SemicolonExact'
<1> DEFINE t == Token(s.type, s.from, s.end)
<1>1. Grown(t) /\ source' = source /\ hitDiagCap' = hitDiagCap /\ Passed(s)
  BY DEF Taken
<1>2. Inserted(t) <=> s.type = "SEMICOLON" /\ s.from.pos = s.end
  BY EndsTaken
<1>3. t.type = s.type /\ t.start = s.from.pos /\ t.end = s.end
  BY TokenFields
<1> HIDE DEF t
<1>4. Newest' = t /\ K' = K + 1 /\ K \in Nat /\ (K > 0 => Tokens'[K' - 1] = Newest)
  BY <1>1, GrownTokens DEF Grown
<1>5. ASSUME Inserted(t)
      PROVE  K > 0 /\ EndsStatement(Newest) /\ (t.start = Past \/ At(t.start) \in NewlineChar)
  BY <1>2, <1>3, <1>5, InsertedTaken
<1>6. ASSUME K > 0, ~Inserted(t), EndsStatement(Newest)
      PROVE  t.type # "EOF" /\ \A i \in Newest.end..(t.start - 1) : At(i) \notin NewlineChar
  <2>1. canEndStatement /\ cursor.pos = Newest.end
    <3>1. ~Inserted(Newest)
      BY <1>6, EnderNotInserted
    <3>2. canEndStatement /\ cursor.pos = EndOf(K)
      BY <1>6, <3>1 DEF Following
    <3>3. EndOf(K) = Newest.end
      BY <1>6 DEF EndOf, Newest
    <3> QED BY <3>2, <3>3
  <2>2. cursor.pos \in Nat /\ Right(cursor) /\ source \in Seq(STRING)
    BY RightFields DEF Reading, Plaintext
  <2>3. Inline(s) \/ Direct(s)
    <3>1. ~Newlined(s)
      BY <1>2, <1>6 DEF Newlined
    <3> QED BY <3>1 DEF Taken
  <2>4. CASE Inline(s)
    <3>1. t.start = cursor.pos /\ t.type # "EOF"
      BY <1>3, <2>4 DEF Inline
    <3> QED BY <2>1, <2>2, <3>1
  <2>5. CASE Direct(s)
    <3>1. t.type # "EOF"
      BY <1>3, <2>1, <2>5 DEF Direct, Hollow
    <3>2. \A i \in cursor.pos..(TriviaEnd - 1) : At(i) \notin NewlineChar
      BY <2>1, <2>5 DEF Direct, NewlineSeen
    <3>3. TriviaEnd \in Nat
      BY <2>2, TriviaPassed
    <3>4. \/ t.start = TriviaEnd
          \/ t.start = TriviaEnd + 1 /\ At(TriviaEnd) = ":"
      BY <1>3, <2>5 DEF Direct
    <3>5. CASE t.start = TriviaEnd
      BY <2>1, <3>1, <3>2, <3>5
    <3>6. CASE t.start = TriviaEnd + 1 /\ At(TriviaEnd) = ":"
      <4>1. At(TriviaEnd) \notin NewlineChar
        BY <3>6, Characters
      <4>2. \A i \in cursor.pos..(t.start - 1) : i = TriviaEnd \/ i \in cursor.pos..(TriviaEnd - 1)
        BY <2>2, <3>3, <3>6
      <4> QED BY <2>1, <3>1, <3>2, <4>1, <4>2
    <3> QED BY <3>4, <3>5, <3>6
  <2> QED BY <2>3, <2>4, <2>5
<1>7. Inserted(Newest)' <=> Inserted(t)
  BY <1>4 DEF Inserted
<1>8. Past' = Past
  BY <1>1, SameText
<1>9. (K > 0 /\ Inserted(Newest) =>
         /\ K > 1 /\ EndsStatement(Tokens[K - 1])
         /\ Newest.start = Past \/ At(Newest.start) \in NewlineChar)'
  <2>1. SUFFICES ASSUME Inserted(t)
                 PROVE  (/\ K > 1 /\ EndsStatement(Tokens[K - 1])
                         /\ Newest.start = Past \/ At(Newest.start) \in NewlineChar)'
    BY <1>7
  <2>2. K > 0 /\ EndsStatement(Newest) /\ (t.start = Past \/ At(t.start) \in NewlineChar)
    BY <1>5, <2>1
  <2>3. K' > 1 /\ EndsStatement(Tokens[K - 1])'
    BY <1>4, <2>2 DEF EndsStatement
  <2>4. (Newest.start = Past \/ At(Newest.start) \in NewlineChar)'
    BY <1>1, <1>4, <1>8, <2>2 DEF At
  <2> QED BY <2>3, <2>4
<1>10. (K > 1 /\ ~Inserted(Newest) /\ EndsStatement(Tokens[K - 1]) /\ ~hitDiagCap =>
          /\ Newest.type # "EOF"
          /\ \A i \in Tokens[K - 1].end..(Newest.start - 1) : At(i) \notin NewlineChar)'
  <2>1. SUFFICES ASSUME K' > 1, ~Inserted(t), EndsStatement(Tokens[K - 1])'
                 PROVE  (/\ Newest.type # "EOF"
                         /\ \A i \in Tokens[K - 1].end..(Newest.start - 1) : At(i) \notin NewlineChar)'
    BY <1>7
  <2>2. K > 0 /\ Tokens'[K' - 1] = Newest
    BY <1>4, <2>1
  <2>3. EndsStatement(Newest)
    BY <2>1, <2>2 DEF EndsStatement
  <2>4. t.type # "EOF" /\ \A i \in Newest.end..(t.start - 1) : At(i) \notin NewlineChar
    BY <1>6, <2>1, <2>2, <2>3
  <2> QED BY <1>1, <1>4, <2>2, <2>4 DEF At
<1> QED BY <1>9, <1>10 DEF SemicolonExact

\* What an idle step leaves as it was.
LEMMA FollowingIdle ==
  ASSUME Reading, Following, Idle
  PROVE  Following' /\ (SemicolonExact => SemicolonExact')
<1>1. Tokens' = Tokens /\ UNCHANGED <<source, cursor, canEndStatement, mode, hitDiagCap>>
  BY DEF Idle
<1>2. Past' = Past /\ SkipTrivia' = SkipTrivia /\ HasBom' = HasBom
  BY <1>1, SameText
<1>3. K' = K /\ Newest' = Newest
  BY <1>1 DEF K, Newest
<1>4. EndOf(K)' = EndOf(K) /\ EndOf(K - 1)' = EndOf(K - 1)
  BY <1>1, <1>2, <1>3 DEF EndOf
<1>5. TriviaOnly(EndOf(K - 1), cursor.pos) => TriviaOnly(EndOf(K - 1), cursor.pos)'
  BY <1>1, <1>4, TriviaStill
<1>6. Following'
  BY <1>1, <1>2, <1>3, <1>4, <1>5 DEF Following, EndsStatement, Inserted
<1>7. SemicolonExact => SemicolonExact'
  BY <1>1, <1>2, <1>3 DEF SemicolonExact, EndsStatement, Inserted, At
<1> QED BY <1>6, <1>7

LEMMA FollowingCapped ==
  ASSUME Reading, NEW d, Capped(d)
  PROVE  Following' /\ SemicolonExact'
<1> DEFINE t == Token("EOF", d, d.pos)
<1>1. Grown(t) /\ source' = source /\ hitDiagCap' = TRUE /\ cursor' = d /\ Right(d)
  BY DEF Capped
<1>2. t.type = "EOF" /\ t.end = d.pos
  BY TokenFields
<1> HIDE DEF t
<1>3. Newest' = t /\ EndOf(K)' = d.pos /\ d.pos \in Nat
  BY <1>1, <1>2, GrownTokens, RightFields DEF Grown, Reading, Plaintext
<1>4. EndOf(K)' \in Nat /\ EndOf(K)' <= cursor'.pos
  BY <1>1, <1>3
<1>5. ~Inserted(Newest)'
  BY <1>2, <1>3 DEF Inserted
<1> QED BY <1>1, <1>4, <1>5 DEF Following, SemicolonExact

LEMMA FollowingKept ==
  ASSUME Reading, Following, [Next]_vars
  PROVE  Following' /\ (SemicolonExact => SemicolonExact')
<1>1. CASE ScanNext
  <2>1. CASE Handles(Scan) /\ Taken(Scan) /\ ~hitDiagCap
    BY <2>1, FollowingTaken, SemicolonTaken
  <2>2. CASE \E d : Capped(d)
    BY <2>2, FollowingCapped
  <2> QED BY <1>1, <2>1, <2>2, ScanTakes
<1>2. CASE HandPeeked \/ ParserReports \/ UNCHANGED vars
  BY <1>2, OtherIdle, FollowingIdle
<1> QED BY <1>1, <1>2 DEF Next, Step

LEMMA InitFollowing == Init => Following /\ K = 0
<1> SUFFICES ASSUME Init PROVE Following /\ K = 0
  OBVIOUS
<1>1. /\ handed = <<>> /\ peeked = None /\ canEndStatement = FALSE
      /\ cursor.pos = (IF HasBom THEN 4 ELSE 1)
  BY DEF Init
<1>2. Tokens = <<>> /\ K = 0
  BY <1>1 DEF Tokens, K
<1>3. EndOf(K) = cursor.pos
  BY <1>1, <1>2 DEF EndOf
<1> QED BY <1>1, <1>2, <1>3 DEF Following

\* For every text: a semicolon is inserted where a newline or the end follows a token that
\* ends a statement, and nowhere else.
THEOREM LexerSemicolonExact == Spec => []SemicolonExact
<1>1. Init => Reading /\ Following /\ SemicolonExact
  <2>1. Init => SemicolonExact
    BY InitFollowing DEF SemicolonExact
  <2> QED BY <2>1, InitReading, InitFollowing
<1>2. (Reading /\ Following /\ SemicolonExact) /\ [Next]_vars => (Reading /\ Following /\ SemicolonExact)'
  BY ReadingKept, FollowingKept
<1> QED BY <1>1, <1>2, PTL DEF Spec

(********************************* the bytes *********************************)

\* What BytesAccounted says of a token t: the one before it ends at e, its trivia begins at a.
Accounts(t, e, a) ==
  /\ e <= t.start /\ t.start <= t.end /\ t.end <= Past
  /\ \/ t.text /\ t.start = e
     \/ ~t.text /\ Inserted(t) /\ \E b \in t.start..Past : TriviaOnly(a, b)
     \/ ~t.text /\ ~Inserted(t) /\ TriviaOnly(a, t.start)
     \/ /\ ~t.text /\ At(t.start - 1) = ":" /\ t.type \in {"FSTRING_FORMAT", "INVALID"}
        /\ a < t.start /\ TriviaOnly(a, t.start - 1)
  /\ ~t.text /\ t.start < t.end /\ t.type \notin {"FSTRING_FORMAT", "INVALID"}
       => At(t.start) \notin Blank /\ ~OpensComment(t.start)
  /\ t.type = "EOF" => t.start = Past

LEMMA AccountsStill ==
  ASSUME source' = source, NEW t, NEW e, NEW a, Accounts(t, e, a), Newest' = t, EndOf(K - 1)' = e, Behind' = a,
         t.type = "EOF" => ~InFrame'
  PROVE  BytesAccounted'
<1>1. Past' = Past
  BY SameText
<1>2. (EndOf(K - 1) <= Newest.start /\ Newest.start <= Newest.end /\ Newest.end <= Past)'
  BY <1>1 DEF Accounts
<1>3. (~Newest.text /\ Newest.start < Newest.end /\ Newest.type \notin {"FSTRING_FORMAT", "INVALID"}
         => At(Newest.start) \notin Blank /\ ~OpensComment(Newest.start))'
  BY DEF Accounts, OpensComment, At
<1>4. (Newest.type = "EOF" => Newest.start = Past /\ ~InFrame)'
  BY <1>1 DEF Accounts
<1>5. (\/ Newest.text /\ Newest.start = EndOf(K - 1)
       \/ ~Newest.text /\ Inserted(Newest) /\ \E b \in Newest.start..Past : TriviaOnly(Behind, b)
       \/ ~Newest.text /\ ~Inserted(Newest) /\ TriviaOnly(Behind, Newest.start)
       \/ /\ ~Newest.text /\ OpensTheFormat(Newest.start - 1)
          /\ Behind < Newest.start /\ TriviaOnly(Behind, Newest.start - 1))'
  <2>1. CASE t.text /\ t.start = e
    BY <2>1
  <2>2. CASE ~t.text /\ Inserted(t) /\ \E b \in t.start..Past : TriviaOnly(a, b)
    <3>1. (\E b \in Newest.start..Past : TriviaOnly(Behind, b))'
      BY <1>1, <2>2 DEF TriviaOnly, Piece, Closes, At, Past
    <3> QED BY <2>2, <3>1 DEF Inserted
  <2>3. CASE ~t.text /\ ~Inserted(t) /\ TriviaOnly(a, t.start)
    <3>1. TriviaOnly(Behind, Newest.start)'
      BY <2>3 DEF TriviaOnly, Piece, Closes, At, Past
    <3> QED BY <2>3, <3>1 DEF Inserted
  <2>4. CASE /\ ~t.text /\ At(t.start - 1) = ":" /\ t.type \in {"FSTRING_FORMAT", "INVALID"}
             /\ a < t.start /\ TriviaOnly(a, t.start - 1)
    <3>1. TriviaOnly(Behind, Newest.start - 1)'
      BY <2>4 DEF TriviaOnly, Piece, Closes, At, Past
    <3>2. OpensTheFormat(Newest.start - 1)'
      BY <2>4 DEF OpensTheFormat, At
    <3> QED BY <2>4, <3>1, <3>2
  <2> QED BY <2>1, <2>2, <2>3, <2>4 DEF Accounts
<1> QED BY <1>2, <1>3, <1>4, <1>5 DEF BytesAccounted

\* Where the trivia before the next token begins.
NextBehind == IF K > 0 /\ Inserted(Newest) THEN EndOf(K - 1) ELSE EndOf(K)

LEMMA BehindGrown ==
  ASSUME source' = source, NEW t, Grown(t)
  PROVE  Behind' = NextBehind
<1>1. K \in Nat /\ K' = K + 1 /\ EndOf(K - 1)' = EndOf(K)
  BY GrownTokens DEF Grown
<1>2. K > 0 => Tokens'[K' - 1] = Newest /\ EndOf(K - 2)' = EndOf(K - 1)
  BY GrownTokens
<1>3. K' > 1 <=> K > 0
  BY <1>1
<1>4. K > 0 => (Inserted(Tokens[K - 1])' <=> Inserted(Newest))
  BY <1>2 DEF Inserted
<1> QED BY <1>1, <1>2, <1>3, <1>4 DEF Behind, NextBehind

LEMMA BehindTrivia ==
  ASSUME Reading, Following, ~hitDiagCap, mode # "TEXT"
  PROVE  /\ NextBehind \in Nat /\ NextBehind <= TriviaEnd /\ TriviaOnly(NextBehind, TriviaEnd)
         /\ TriviaEnd \in Nat /\ TriviaEnd <= Past /\ cursor.pos <= TriviaEnd /\ cursor.pos \in Nat /\ Past \in Nat
<1>1. source \in Seq(STRING) /\ Right(cursor)
  BY DEF Reading, Plaintext
<1>2. cursor.pos \in Nat /\ cursor.pos <= Past /\ Past \in Nat
  BY <1>1, RightFields
<1>3. TriviaEnd \in Nat /\ TriviaEnd <= Past /\ cursor.pos <= TriviaEnd /\ TriviaOnly(cursor.pos, TriviaEnd)
  BY <1>1, TriviaPassed
<1>4. CASE K > 0 /\ Inserted(Newest)
  <2>1. /\ SkipTrivia[cursor.pos] = cursor.pos /\ EndOf(K - 1) \in Nat /\ EndOf(K - 1) <= cursor.pos
        /\ TriviaOnly(EndOf(K - 1), cursor.pos)
    BY <1>4 DEF Following
  <2>2. TriviaEnd = cursor.pos
    BY <1>2, <2>1 DEF TriviaEnd
  <2> QED BY <1>2, <1>3, <1>4, <2>1, <2>2 DEF NextBehind
<1>5. CASE ~(K > 0 /\ Inserted(Newest))
  <2>1. cursor.pos = EndOf(K)
    BY <1>5 DEF Following
  <2> QED BY <1>2, <1>3, <1>5, <2>1 DEF NextBehind
<1> QED BY <1>4, <1>5

\* A token read in the text of an f-string stands right behind the one before it.
LEMMA InlineAccounts ==
  ASSUME Reading, Following, ~hitDiagCap, NEW s, Passed(s), Inline(s)
  PROVE  Accounts(Token(s.type, s.from, s.end), EndOf(K), NextBehind)
<1> DEFINE t == Token(s.type, s.from, s.end)
<1>1. t.type = s.type /\ t.start = s.from.pos /\ t.end = s.end /\ t.text = (mode = "TEXT")
  BY TokenFields
<1> HIDE DEF t
<1>2. mode = "TEXT" /\ s.from = cursor /\ s.to.pos = s.end /\ s.type # "EOF"
  BY DEF Inline
<1>3. t.text
  BY <1>1, <1>2, Zenon
<1>4. ~(K > 0 /\ Inserted(Newest))
  BY <1>2 DEF Following
<1>5. cursor.pos = EndOf(K)
  BY <1>4 DEF Following
<1>6. source \in Seq(STRING) /\ Right(s.to) /\ s.from.pos <= s.end
  BY DEF Reading, Plaintext, Passed
<1>7. s.to.pos <= Past /\ cursor.pos \in Nat
  BY <1>6, RightFields DEF Reading
<1>8. t.start = EndOf(K) /\ EndOf(K) <= t.start /\ t.start <= t.end /\ t.end <= Past /\ t.type # "EOF"
  BY <1>1, <1>2, <1>5, <1>6, <1>7
<1>9. Accounts(t, EndOf(K), NextBehind)
  BY <1>3, <1>8, Zenon DEF Accounts
<1> QED BY <1>9 DEF t

\* A semicolon that stands for a newline is in the midst of the trivia.
LEMMA NewlinedAccounts ==
  ASSUME Reading, Following, ~hitDiagCap, NEW s, Passed(s), Newlined(s)
  PROVE  Accounts(Token(s.type, s.from, s.end), EndOf(K), NextBehind)
<1> DEFINE t == Token(s.type, s.from, s.end)
<1>1. t.type = s.type /\ t.start = s.from.pos /\ t.end = s.end /\ t.text = (mode = "TEXT")
  BY TokenFields
<1> HIDE DEF t
<1>2. mode # "TEXT" /\ s.type = "SEMICOLON" /\ s.from.pos = s.end /\ s.to.pos = TriviaEnd
  BY DEF Newlined
<1>3. ~t.text
  BY <1>1, <1>2, Zenon
<1>4. TriviaOnly(NextBehind, TriviaEnd) /\ TriviaEnd \in Nat /\ TriviaEnd <= Past /\ cursor.pos \in Nat /\ Past \in Nat
  BY <1>2, BehindTrivia
<1>5. s.end \in Nat /\ s.end <= TriviaEnd /\ cursor.pos <= s.from.pos /\ EndOf(K) \in Nat /\ EndOf(K) <= cursor.pos
  BY <1>2 DEF Passed, Following
<1>6. EndOf(K) <= t.start /\ t.start <= t.end /\ t.end <= Past /\ TriviaEnd \in t.start..Past /\ ~(t.start < t.end)
  BY <1>1, <1>2, <1>4, <1>5
<1>7. Inserted(t) /\ t.type # "EOF"
  BY <1>1, <1>2 DEF Inserted
<1>8. Accounts(t, EndOf(K), NextBehind)
  BY <1>3, <1>4, <1>6, <1>7, Zenon DEF Accounts
<1> QED BY <1>8 DEF t

\* Any other token stands behind the trivia, or behind the colon that follows it.
LEMMA DirectAccounts ==
  ASSUME Reading, Following, ~hitDiagCap, NEW s, Passed(s), Direct(s)
  PROVE  Accounts(Token(s.type, s.from, s.end), EndOf(K), NextBehind)
<1> DEFINE t == Token(s.type, s.from, s.end)
           a == NextBehind
<1>1. t.type = s.type /\ t.start = s.from.pos /\ t.end = s.end /\ t.text = (mode = "TEXT")
  BY TokenFields
<1> HIDE DEF t
<1>2. /\ mode # "TEXT" /\ s.to.pos = s.end
      /\ \/ s.from.pos = TriviaEnd
         \/ s.from.pos = TriviaEnd + 1 /\ At(TriviaEnd) = ":" /\ s.type \in {"FSTRING_FORMAT", "INVALID"}
  BY DEF Direct
<1>3. ~t.text
  BY <1>1, <1>2, Zenon
<1>4. /\ a \in Nat /\ a <= TriviaEnd /\ TriviaOnly(a, TriviaEnd) /\ TriviaEnd \in Nat /\ TriviaEnd <= Past
      /\ cursor.pos \in Nat /\ Past \in Nat
  BY <1>2, BehindTrivia
<1>5. source \in Seq(STRING) /\ Right(cursor) /\ Right(s.to)
  BY DEF Reading, Plaintext, Passed
<1>6. /\ s.end \in Nat /\ cursor.pos <= s.from.pos /\ s.from.pos <= s.end /\ EndOf(K) \in Nat /\ EndOf(K) <= cursor.pos
      /\ s.to.pos <= Past
  BY <1>5, RightFields DEF Passed, Following
<1>7. s.from.pos \in Nat
  BY <1>2, <1>4
<1>8. EndOf(K) <= t.start /\ t.start <= t.end /\ t.end <= Past
  BY <1>1, <1>2, <1>4, <1>6, <1>7
<1>9. t.type = "EOF" => t.start = Past
  <2>1. SUFFICES ASSUME s.type = "EOF" PROVE s.from.pos = Past
    BY <1>1
  <2>2. s.from.pos = s.end
    BY <2>1 DEF Direct
  <2> QED BY <2>1, <2>2 DEF Direct, Hollow
<1> HIDE DEF a
<1>10. CASE s.from.pos = TriviaEnd
  <2>1. At(t.start) \notin Blank /\ ~OpensComment(t.start)
    BY <1>1, <1>5, <1>10, TriviaPassed
  <2>2. TriviaOnly(a, t.start) /\ t.start \in t.start..Past
    BY <1>1, <1>4, <1>10
  <2> QED BY <1>3, <1>8, <1>9, <2>1, <2>2, Zenon DEF Accounts, a, t
<1>11. CASE s.from.pos = TriviaEnd + 1 /\ At(TriviaEnd) = ":" /\ s.type \in {"FSTRING_FORMAT", "INVALID"}
  <2>1. t.start - 1 = TriviaEnd /\ a < t.start /\ t.type \in {"FSTRING_FORMAT", "INVALID"}
    BY <1>1, <1>4, <1>11
  <2>2. At(t.start - 1) = ":" /\ TriviaOnly(a, t.start - 1)
    BY <1>4, <1>11, <2>1
  <2> QED BY <1>3, <1>8, <1>9, <2>1, <2>2, Zenon DEF Accounts, a, t
<1> QED BY <1>2, <1>10, <1>11

LEMMA BytesTaken ==
  ASSUME Reading, Following, ~hitDiagCap, NEW s, Taken(s), Handles(s)
  PROVE  BytesAccounted'
<1> DEFINE t == Token(s.type, s.from, s.end)
<1>1. Grown(t) /\ source' = source /\ Passed(s) /\ (Inline(s) \/ Newlined(s) \/ Direct(s))
  BY DEF Taken
<1>2. Accounts(t, EndOf(K), NextBehind)
  BY <1>1, InlineAccounts, NewlinedAccounts, DirectAccounts
<1>3. t.type = s.type
  BY TokenFields
<1> HIDE DEF t
<1>4. Newest' = t /\ EndOf(K - 1)' = EndOf(K) /\ Behind' = NextBehind
  BY <1>1, GrownTokens, BehindGrown DEF Grown
<1>5. t.type = "EOF" => ~InFrame'
  <2>1. SUFFICES ASSUME s.type = "EOF" PROVE ~InFrame'
    BY <1>3
  <2>2. Direct(s)
    BY <1>1, <2>1 DEF Inline, Newlined
  <2>3. s.from.pos = s.end
    BY <2>1, <2>2 DEF Direct
  <2>4. ~InFrame /\ s.does = "none"
    BY <2>1, <2>2, <2>3 DEF Direct, Hollow
  <2>5. frames' = frames
    BY <2>4 DEF Handles, Plain, PushFrame, PopFstringFrame, OpenInterpolation, OpenBracket, CloseBracket, OpenBrace,
                CloseBrace
  <2> QED BY <2>4, <2>5 DEF InFrame
<1> QED BY <1>1, <1>2, <1>4, <1>5, AccountsStill

LEMMA BytesKept ==
  ASSUME Reading, Following, BytesAccounted, [Next]_vars
  PROVE  BytesAccounted'
<1>1. CASE ScanNext
  <2>1. CASE Handles(Scan) /\ Taken(Scan) /\ ~hitDiagCap
    BY <2>1, BytesTaken
  <2>2. CASE \E d : Capped(d)
    BY <2>2 DEF Capped, BytesAccounted
  <2> QED BY <1>1, <2>1, <2>2, ScanTakes
<1>2. CASE HandPeeked \/ ParserReports \/ UNCHANGED vars
  <2>1. Tokens' = Tokens /\ UNCHANGED <<source, frames, hitDiagCap>>
    BY <1>2, OtherIdle DEF Idle
  <2>2. Past' = Past /\ HasBom' = HasBom
    BY <2>1, SameText
  <2>3. K' = K /\ Newest' = Newest
    BY <2>1 DEF K, Newest
  <2>4. EndOf(K - 1)' = EndOf(K - 1) /\ EndOf(K - 2)' = EndOf(K - 2)
    BY <2>1, <2>2, <2>3 DEF EndOf
  <2>5. Behind' = Behind
    BY <2>1, <2>3, <2>4 DEF Behind, Inserted
  <2>6. SUFFICES ASSUME K > 0, ~hitDiagCap PROVE BytesAccounted'
    BY <2>1, <2>3 DEF BytesAccounted
  <2>7. Accounts(Newest, EndOf(K - 1), Behind) /\ (Newest.type = "EOF" => ~InFrame)
    BY <2>6 DEF BytesAccounted, Accounts, OpensTheFormat
  <2>8. Newest.type = "EOF" => ~InFrame'
    BY <2>1, <2>7 DEF InFrame
  <2> QED BY <2>1, <2>3, <2>4, <2>5, <2>7, <2>8, AccountsStill
<1> QED BY <1>1, <1>2 DEF Next, Step

\* For every text: no byte is lost or read twice, and EOF comes at the end with every f-string closed.
THEOREM LexerBytesAccounted == Spec => []BytesAccounted
<1>1. Init => Reading /\ Following /\ BytesAccounted
  <2>1. Init => BytesAccounted
    BY InitFollowing DEF BytesAccounted
  <2> QED BY <2>1, InitReading, InitFollowing
<1>2. (Reading /\ Following /\ BytesAccounted) /\ [Next]_vars => (Reading /\ Following /\ BytesAccounted)'
  BY ReadingKept, FollowingKept, BytesKept
<1> QED BY <1>1, <1>2, PTL DEF Spec

(******************************* the diagnostics *****************************)

Invalids == {k \in 1..K : Tokens[k].type = "INVALID"}
Opens    == {k \in 1..K : UnclosedBefore(k)}
Counted  == Cardinality(Invalids) + Returns(1, cursor.pos) + Cardinality(Opens) + (IF HasBom THEN 1 ELSE 0)

LEMMA DiagnosedIs == /\ DiagnosedOnce <=> (~hitDiagCap => diags - theirs = Counted)
                     /\ DiagnosedOnce' <=> (~hitDiagCap' => diags' - theirs' = Counted')
BY DEF DiagnosedOnce, Counted, Invalids, Opens, Returns, ReturnsIn

\* The next number joins a set of the numbers before it, or does not.
LEMMA CountNext ==
  ASSUME NEW n \in Nat, NEW S, S \subseteq 1..n, NEW T, NEW P \in BOOLEAN,
         T = IF P THEN S \cup {n + 1} ELSE S
  PROVE  /\ Cardinality(S) \in Nat /\ Cardinality(T) \in Nat
         /\ Cardinality(T) = Cardinality(S) + (IF P THEN 1 ELSE 0)
<1>1. IsFiniteSet(S) /\ Cardinality(S) \in Nat
  <2>1. IsFiniteSet(1..n)
    BY FS_Interval
  <2> QED BY <2>1, FS_Subset, FS_CardinalityType
<1>2. n + 1 \notin S
  OBVIOUS
<1>3. Cardinality(S \cup {n + 1}) = Cardinality(S) + 1
  BY <1>1, <1>2, FS_AddElement
<1> QED BY <1>1, <1>3

LEMMA NextUnclosed ==
  ASSUME Reading, Following, ~hitDiagCap, source' = source, NEW t, Grown(t), t.text = (mode = "TEXT")
  PROVE  UnclosedBefore(K)' <=> Unclosed
<1>1. K \in Nat /\ K' = K + 1 /\ Newest' = t /\ Tokens'[K'] = t
  BY DEF Grown, Newest
<1>2. SkipTrivia' = SkipTrivia /\ Past' = Past
  BY SameText
<1>3. EndOf(K - 1)' = EndOf(K) /\ (K > 0 => Tokens'[K' - 1] = Newest)
  BY GrownTokens
<1>4. t.text <=> mode = "TEXT"
  BY Zenon
<1>5. cursor.pos \in Nat /\ cursor.pos <= Past /\ Past \in Nat
  BY RightFields DEF Reading, Plaintext
<1>6. /\ K' > 1 <=> K > 0
      /\ K > 0 => (Inserted(Tokens[K - 1])' <=> Inserted(Newest))
  BY <1>1, <1>3 DEF Inserted
<1>7. UnclosedBefore(K)' <=> ~t.text /\ SkipTrivia[EndOf(K)] > Past /\ ~(K > 0 /\ Inserted(Newest))
  <2>1. UnclosedBefore(K)' <=> /\ ~t.text /\ SkipTrivia'[EndOf(K - 1)'] > Past'
                               /\ ~(K' > 1 /\ Inserted(Tokens[K - 1])')
    BY <1>1 DEF UnclosedBefore
  <2> QED BY <1>2, <1>3, <1>6, <2>1
<1>8. CASE K > 0 /\ Inserted(Newest)
  <2>1. SkipTrivia[cursor.pos] = cursor.pos
    BY <1>8 DEF Following
  <2>2. ~Unclosed
    BY <1>5, <2>1 DEF Unclosed
  <2> QED BY <1>7, <1>8, <2>2
<1>9. CASE ~(K > 0 /\ Inserted(Newest))
  <2>1. cursor.pos = EndOf(K)
    BY <1>9 DEF Following
  <2> QED BY <1>4, <1>7, <1>9, <2>1 DEF Unclosed
<1> QED BY <1>8, <1>9

LEMMA InvalidsGrown ==
  ASSUME NEW t, Grown(t)
  PROVE  /\ Cardinality(Invalids) \in Nat /\ Cardinality(Invalids)' \in Nat
         /\ Cardinality(Invalids)' = Cardinality(Invalids) + (IF t.type = "INVALID" THEN 1 ELSE 0)
<1>1. K \in Nat /\ K' = K + 1 /\ Tokens'[K + 1] = t /\ \A k \in 1..K : Tokens'[k] = Tokens[k]
  BY DEF Grown, Newest
<1>2. Invalids \subseteq 1..K
  BY DEF Invalids
<1>3. Invalids' = IF t.type = "INVALID" THEN Invalids \cup {K + 1} ELSE Invalids
  <2>1. Invalids' = {k \in 1..(K + 1) : Tokens'[k].type = "INVALID"}
    BY <1>1 DEF Invalids
  <2>2. \A k \in 1..(K + 1) : k \in 1..K \/ k = K + 1
    BY <1>1
  <2>3. \A k \in 1..K : k \in 1..(K + 1) /\ k # K + 1
    BY <1>1
  <2>4. K + 1 \in 1..(K + 1)
    BY <1>1
  <2> QED BY <1>1, <2>1, <2>2, <2>3, <2>4 DEF Invalids
<1>4. /\ Cardinality(Invalids) \in Nat /\ Cardinality(Invalids') \in Nat
      /\ Cardinality(Invalids') = Cardinality(Invalids) + (IF t.type = "INVALID" THEN 1 ELSE 0)
  <2>1. (t.type = "INVALID") \in BOOLEAN
    OBVIOUS
  <2> QED BY <1>1, <1>2, <1>3, <2>1, CountNext
<1> QED BY <1>4

LEMMA OpensGrown ==
  ASSUME Reading, Following, ~hitDiagCap, source' = source, NEW t, Grown(t), t.text = (mode = "TEXT")
  PROVE  /\ Cardinality(Opens) \in Nat /\ Cardinality(Opens)' \in Nat
         /\ Cardinality(Opens)' = Cardinality(Opens) + (IF Unclosed THEN 1 ELSE 0)
<1>1. K \in Nat /\ K' = K + 1 /\ Tokens'[K + 1] = t /\ \A k \in 1..K : Tokens'[k] = Tokens[k]
  BY DEF Grown, Newest
<1>2. Opens \subseteq 1..K
  BY DEF Opens
<1>3. SkipTrivia' = SkipTrivia /\ Past' = Past /\ HasBom' = HasBom
  BY SameText
<1> DEFINE Then(k) == /\ ~Tokens'[k].text
                      /\ SkipTrivia[IF k - 1 = 0 THEN (IF HasBom THEN 4 ELSE 1) ELSE Tokens'[k - 1].end] > Past
                      /\ ~(k > 1 /\ Tokens'[k - 1].type = "SEMICOLON" /\ Tokens'[k - 1].start = Tokens'[k - 1].end)
<1>4. Opens' = {k \in 1..(K + 1) : Then(k)}
  BY <1>1, <1>3 DEF Opens, UnclosedBefore, EndOf, Inserted
<1>5. Then(K + 1) <=> Unclosed
  <2>1. UnclosedBefore(K)' <=> Then(K + 1)
    BY <1>1, <1>3 DEF UnclosedBefore, EndOf, Inserted
  <2> QED BY <2>1, NextUnclosed
<1>6. ASSUME NEW k \in 1..K PROVE Then(k) <=> UnclosedBefore(k)
  <2>1. Tokens'[k] = Tokens[k]
    BY <1>1
  <2>2. CASE k = 1
    BY <2>1, <2>2 DEF UnclosedBefore, EndOf, Inserted
  <2>3. CASE k # 1
    <3>1. k - 1 \in 1..K
      BY <1>1, <2>3
    <3>2. Tokens'[k - 1] = Tokens[k - 1]
      BY <1>1, <3>1
    <3> QED BY <2>1, <2>3, <3>2 DEF UnclosedBefore, EndOf, Inserted
  <2> QED BY <2>2, <2>3
<1> HIDE DEF Then
<1>7. Opens' = IF Unclosed THEN Opens \cup {K + 1} ELSE Opens
  <2>2. \A k \in 1..(K + 1) : k \in 1..K \/ k = K + 1
    BY <1>1
  <2>3. \A k \in 1..K : k \in 1..(K + 1) /\ k # K + 1
    BY <1>1
  <2>4. K + 1 \in 1..(K + 1)
    BY <1>1
  <2> QED BY <1>4, <1>5, <1>6, <2>2, <2>3, <2>4 DEF Opens
<1>8. /\ Cardinality(Opens) \in Nat /\ Cardinality(Opens') \in Nat
      /\ Cardinality(Opens') = Cardinality(Opens) + (IF Unclosed THEN 1 ELSE 0)
  <2>1. Unclosed \in BOOLEAN
    BY DEF Unclosed
  <2> QED BY <1>1, <1>2, <1>7, <2>1, CountNext
<1> QED BY <1>8

LEMMA ReturnsStill ==
  ASSUME source' = source, NEW p, cursor'.pos = p
  PROVE  Returns(1, cursor.pos)' = Returns(1, p)
BY DEF Returns, ReturnsIn, BareReturn, At

LEMMA DiagnosedTaken ==
  ASSUME Reading, Following, DiagnosedOnce, ~hitDiagCap, NEW s, Taken(s)
  PROVE  DiagnosedOnce'
<1> DEFINE t == Token(s.type, s.from, s.end)
           i == Cardinality(Invalids)
           o == Cardinality(Opens)
           r == Returns(1, cursor.pos)
           w == Returns(cursor.pos, s.to.pos)
           u == IF Unclosed THEN 1 ELSE 0
           v == IF s.type = "INVALID" THEN 1 ELSE 0
           b == IF HasBom THEN 1 ELSE 0
           n == Len(Reports(s))
<1>1. /\ Grown(t) /\ source' = source /\ theirs' = theirs /\ hitDiagCap' = hitDiagCap /\ Passed(s)
      /\ diags' = diags + n /\ cursor' = s.to
  BY DEF Taken
<1>2. t.type = s.type /\ t.text = (mode = "TEXT")
  BY TokenFields
<1> HIDE DEF t
<1>3. i \in Nat /\ Cardinality(Invalids)' = i + v
  BY <1>1, <1>2, InvalidsGrown
<1>4. o \in Nat /\ Cardinality(Opens)' = o + u
  BY <1>1, <1>2, OpensGrown
<1>5. source \in Seq(STRING) /\ Right(cursor) /\ Right(s.to)
  BY <1>1 DEF Reading, Plaintext, Passed
<1>6. cursor.pos \in Nat /\ 1 <= cursor.pos /\ s.to.pos \in Nat
  BY <1>5, RightFields
<1>7. cursor.pos <= s.to.pos
  <2>1. s.from.pos \in Nat
    BY <1>1, <1>5, RightFields DEF Passed
  <2> QED BY <1>1, <1>6, <2>1 DEF Passed
<1>8. Returns(1, s.to.pos) = r + w /\ r \in Nat /\ w \in Nat
  BY <1>6, <1>7, ReturnsAdd, ReturnsFinite
<1>9. Returns(1, cursor.pos)' = Returns(1, s.to.pos)
  BY <1>1, ReturnsStill
<1>10. n = w + (u + v)
  BY <1>1 DEF Passed
<1>11. HasBom' = HasBom
  BY <1>1, SameText
<1>12. diags - theirs = i + r + o + b
  BY DiagnosedIs DEF Counted
<1>13. diags \in Nat /\ theirs \in Nat /\ u \in Nat /\ v \in Nat /\ b \in Nat
  BY DEF Reading
<1>14. Counted' = (i + v) + Returns(1, s.to.pos) + (o + u) + b
  BY <1>3, <1>4, <1>9, <1>11 DEF Counted
<1> HIDE DEF i, o, r, w, u, v, b, n
<1>15. diags' - theirs' = Counted'
  BY <1>1, <1>3, <1>4, <1>8, <1>10, <1>12, <1>13, <1>14
<1> QED BY <1>15, DiagnosedIs

LEMMA DiagnosedKept ==
  ASSUME Reading, Following, DiagnosedOnce, [Next]_vars
  PROVE  DiagnosedOnce'
<1>1. CASE ScanNext
  <2>1. CASE Taken(Scan) /\ ~hitDiagCap
    BY <2>1, DiagnosedTaken
  <2>2. CASE \E d : Capped(d)
    BY <2>2 DEF Capped, DiagnosedOnce
  <2> QED BY <1>1, <2>1, <2>2, ScanTakes
<1>2. CASE HandPeeked \/ ParserReports \/ UNCHANGED vars
  <2>1. /\ Tokens' = Tokens /\ UNCHANGED <<source, cursor, hitDiagCap>>
        /\ \/ UNCHANGED <<diags, theirs>>
           \/ diags' = diags + 1 /\ theirs' = theirs + 1
    BY <1>2, OtherIdle DEF Idle
  <2>2. SkipTrivia' = SkipTrivia /\ Past' = Past /\ HasBom' = HasBom
    BY <2>1, SameText
  <2>3. Invalids' = Invalids
    BY <2>1 DEF Invalids, K
  <2>4. Opens' = Opens
    BY <2>1, <2>2 DEF Opens, UnclosedBefore, EndOf, Inserted, K
  <2>5. Returns(1, cursor.pos)' = Returns(1, cursor.pos)
    BY <2>1, ReturnsStill
  <2>6. Counted' = Counted
    BY <2>2, <2>3, <2>4, <2>5 DEF Counted
  <2>7. diags' - theirs' = diags - theirs
    BY <2>1 DEF Reading
  <2> QED BY <2>1, <2>6, <2>7, DiagnosedIs
<1> QED BY <1>1, <1>2 DEF Next, Step

LEMMA InitDiagnosed == Init => DiagnosedOnce
<1> SUFFICES ASSUME Init PROVE DiagnosedOnce
  OBVIOUS
<1>1. /\ diags = (IF HasBom THEN 1 ELSE 0) /\ theirs = 0
      /\ cursor.pos = (IF HasBom THEN 4 ELSE 1)
  BY DEF Init
<1>2. source \in Seq(STRING) /\ K = 0
  BY InitReading, InitFollowing DEF Reading, Plaintext
<1>3. Cardinality(Invalids) = 0 /\ Cardinality(Opens) = 0
  <2>1. Invalids = {} /\ Opens = {}
    BY <1>2 DEF Invalids, Opens
  <2> QED BY <2>1, FS_EmptySet
<1>4. Returns(1, cursor.pos) = 0
  <2>1. CASE HasBom
    <3>1. Clear(1, 4) /\ 1 \in Nat
      BY <1>2, <2>1, BomClear
    <3> QED BY <1>1, <1>2, <2>1, <3>1, NoReturns
  <2>2. CASE ~HasBom
    <3>1. ReturnsIn(1, 1) = {}
      BY DEF ReturnsIn
    <3> QED BY <1>1, <2>2, <3>1, FS_EmptySet DEF Returns
  <2> QED BY <2>1, <2>2
<1>5. diags - theirs = Counted
  BY <1>1, <1>3, <1>4 DEF Counted
<1> QED BY <1>5, DiagnosedIs

\* For every text: every mistake is reported once, and nothing is reported without one.
THEOREM LexerDiagnosedOnce == Spec => []DiagnosedOnce
<1>1. Init => Reading /\ Following /\ DiagnosedOnce
  BY InitReading, InitFollowing, InitDiagnosed
<1>2. (Reading /\ Following /\ DiagnosedOnce) /\ [Next]_vars => (Reading /\ Following /\ DiagnosedOnce)'
  BY ReadingKept, FollowingKept, DiagnosedKept
<1> QED BY <1>1, <1>2, PTL DEF Spec

(********************************* the stream ********************************)

Vacant(t) == t.start = t.end
Bracing   == mode = "NORMAL" /\ InFrame /\ At(cursor.pos) = "}"

\* At the brace that closes an interpolation the next token has a byte.
LEMMA BraceScanned ==
  ASSUME Plaintext, Right(cursor), Bracing
  PROVE  Scan.from.pos # Scan.end
<1> DEFINE p == cursor.pos
           c == Walk(cursor, TriviaEnd)
<1>0. p \in Nat /\ p <= Past /\ Past \in Nat /\ source \in Seq(STRING)
  BY RightFields DEF Plaintext
<1>1. At(p) = "}" /\ InFrame /\ mode = "NORMAL"
  BY DEF Bracing
<1>2. At(p) \notin Blank /\ At(p) # Quote /\ ~OpensComment(p)
  BY <1>1 DEF Blank, Quote, NewlineChar, OpensComment
<1>3. TriviaEnd = p
  <2>1. SkipTrivia[p] = p
    BY <1>0, <1>2, TriviaTo
  <2> QED BY <1>0, <2>1 DEF TriviaEnd
<1>4. Right(c) /\ c.pos = p
  BY <1>0, <1>3, TriviaWalked
<1>5. ~NewlineSeen
  BY <1>0, <1>3 DEF NewlineSeen
<1>6. Scan = ScanToken(c)
  BY <1>1, <1>5 DEF Scan
<1> HIDE DEF c
<1>7. ScanToken(c) = ScanOperator(c)
  <2>1. At(p) # "EOF" /\ At(p) # "BACKQUOTE" /\ At(p) \notin {"f", "b", "."}
    BY <1>1
  <2>2. At(p) \notin HighByte /\ At(p) \notin IdentStart /\ At(p) \notin Digit
    BY <1>1 DEF HighByte, Lead, Trail, IdentStart, Letter, Digit
  <2>3. p # Past
    BY <1>0, <2>1, TextPast
  <2> QED BY <1>2, <1>4, <2>1, <2>2, <2>3 DEF ScanToken
<1> DEFINE f == Found("}", c, Advance(c, 1), <<>>, "}")
<1>8. ScanOperator(c) = f
  BY <1>1, <1>4 DEF ScanOperator, OpensFormat, IsOperator
<1>9. f.from = c /\ f.end = Advance(c, 1).pos
  BY DEF Found
<1> HIDE DEF f
<1>10. Scan.from = c /\ Scan.end = Advance(c, 1).pos
  BY <1>6, <1>7, <1>8, <1>9
<1>11. Advance(c, 1).pos = p + 1
  BY <1>4 DEF Advance
<1> QED BY <1>0, <1>4, <1>10, <1>11

\* What a token without bytes costs: a frame, the statement it ends, or the brace comes next.
Costs ==
  \/ Len(frames)' = Len(frames) - 1 /\ Len(frames) > 0 /\ ~canEndStatement'
  \/ Len(frames)' = Len(frames) /\ canEndStatement /\ ~canEndStatement'
  \/ Len(frames)' = Len(frames) /\ Len(frames) > 0 /\ ~canEndStatement' /\ Bracing'

LEMMA VacantCosts ==
  ASSUME Reading, FramesInv, Taken(Scan), Handles(Scan), Scan.from.pos = Scan.end, Scan.type # "EOF"
  PROVE  Costs
<1> DEFINE s == Scan
           t == Token(s.type, s.from, s.end)
<1>0. /\ frames \in Seq(Frame) /\ Len(frames) \in Nat /\ mode \in {"NORMAL", "TEXT"}
      /\ mode = "TEXT" => InFrame
  BY DEF FramesInv, FrameTypes, FramesPaired
<1>1. InFrame <=> Len(frames) > 0
  BY <1>0 DEF InFrame
<1>2. /\ mode = "TEXT" => TextOrder(s)
      /\ mode = "NORMAL" => NormalOrder(s)
  BY <1>0, ScanDoes
<1>3. canEndStatement' <=> EndsStatement(t)
  BY EndsTaken
<1>4. t.type = s.type
  BY TokenFields
<1> HIDE DEF s, t
<1>5. s.type \in {"INVALID", "FSTRING_FORMAT", "SEMICOLON"} => ~canEndStatement'
  BY <1>3, <1>4 DEF EndsStatement, DocumentedEnders
<1>6. /\ source' = source /\ cursor' = s.to
      /\ Inline(s) \/ Newlined(s) \/ Direct(s)
  BY DEF Taken, s
<1>7. Handles(s) /\ s.from.pos = s.end /\ s.type # "EOF"
  BY DEF s
<1>8. s.does = "none" => frames' = frames /\ mode' = mode
  BY <1>7 DEF Handles, Plain, PushFrame, PopFstringFrame, OpenInterpolation, OpenBracket, CloseBracket, OpenBrace,
              CloseBrace
<1>9. ASSUME s.type = "INVALID", s.does = "pop" PROVE Costs
  <2>1. frames' = SubSeq(frames, 1, Len(frames) - 1)
    BY <1>7, <1>9 DEF Handles, Plain, PushFrame, PopFstringFrame, OpenInterpolation, OpenBracket, CloseBracket,
                      OpenBrace, CloseBrace
  <2>2. Len(frames) > 0
    BY <1>0, <1>1, <1>2, <1>9 DEF NormalOrder
  <2>3. Len(frames') = Len(frames) - 1
    <3> DEFINE n == Len(frames) - 1
    <3>1. n \in 0..Len(frames) /\ n \in Int
      BY <1>0, <2>2
    <3>2. Len(SubSeq(frames, 1, n)) = IF 1 <= n THEN n - 1 + 1 ELSE 0
      <4>1. 1 \in Int /\ n \in Int /\ \A i \in 1..n : frames[i] \in Frame
        BY <1>0, <3>1, ElementOfSeq
      <4> QED BY <4>1, SubSeqProperties
    <3>3. frames' = SubSeq(frames, 1, n) /\ n \in Nat /\ n = Len(frames) - 1
      BY <1>0, <2>1, <2>2
    <3> HIDE DEF n
    <3>4. Len(SubSeq(frames, 1, n)) = n
      BY <3>2, <3>3
    <3> QED BY <3>3, <3>4
  <2> QED BY <1>5, <1>9, <2>2, <2>3 DEF Costs
<1>10. ASSUME s.type = "FSTRING_FORMAT", At(s.end) = "}", s.does = "none", InFrame, s.to.pos = s.end, mode # "TEXT"
       PROVE  Costs
  <2>1. frames' = frames /\ mode' = mode /\ mode = "NORMAL"
    BY <1>0, <1>8, <1>10
  <2>2. Bracing'
    BY <1>6, <1>10, <2>1 DEF Bracing, InFrame, At
  <2> QED BY <1>1, <1>5, <1>10, <2>1, <2>2 DEF Costs
<1>11. ASSUME s.type = "SEMICOLON", s.does = "none", canEndStatement PROVE Costs
  BY <1>5, <1>8, <1>11 DEF Costs
<1>12. CASE Inline(s)
  BY <1>7, <1>9, <1>12 DEF Inline, Hollow
<1>13. CASE Newlined(s)
  BY <1>11, <1>13 DEF Newlined
<1>14. CASE Direct(s)
  BY <1>7, <1>9, <1>10, <1>11, <1>14 DEF Direct, Hollow
<1> QED BY <1>6, <1>12, <1>13, <1>14 DEF s

LastVacant(n) == n \in 0..K /\ \A i \in (K - n + 1)..K : Vacant(Tokens[i])
\* As many tokens without bytes as there may yet be, one for each open f-string and one for a statement.
Affords(n) == n + Len(frames) + (IF canEndStatement THEN 1 ELSE 0) <= MaxFrames + 1
Patient == ~(K > 0 /\ Newest.type = "EOF") =>
             \A n \in Nat : LastVacant(n) => Affords(n) \/ (n <= MaxFrames + 1 /\ Bracing)
\* What the parser is promised of the k-th token.
InOrder(k) ==
  /\ Tokens[k].start \in Nat /\ Tokens[k].end \in Nat /\ EndOf(k - 1) \in Nat /\ 1 <= EndOf(k - 1)
  /\ EndOf(k - 1) <= Tokens[k].start /\ Tokens[k].start <= Tokens[k].end /\ Tokens[k].end <= Past
  /\ Tokens[k].type = "EOF" => Vacant(Tokens[k])
  /\ k > MaxFrames + 1 => \/ Tokens[k].type = "EOF"
                          \/ \E i \in (k - (MaxFrames + 1))..k : ~Vacant(Tokens[i])
Ordered == (\A k \in 1..K : InOrder(k)) /\ EndOf(K) \in Nat /\ 1 <= EndOf(K)

\* The tokens before the new one, and their promises, stay.
LEMMA OrderGrown ==
  ASSUME source' = source, NEW t, Grown(t), Ordered, InOrder(K)', 1 <= t.end, t.end \in Nat
  PROVE  Ordered'
<1>1. K \in Nat /\ K' = K + 1 /\ \A k \in 1..K : Tokens'[k] = Tokens[k]
  BY DEF Grown
<1>2. Past' = Past /\ HasBom' = HasBom
  BY SameText
<1>3. EndOf(K)' = t.end
  BY GrownTokens
<1>4. ASSUME NEW k \in 1..K' PROVE InOrder(k)'
  <2>1. CASE k = K'
    BY <2>1
  <2>2. CASE k # K'
    <3>1. k \in 1..K /\ InOrder(k)
      BY <1>1, <2>2 DEF Ordered
    <3>2. EndOf(k - 1)' = EndOf(k - 1)
      <4>1. k - 1 = 0 \/ k - 1 \in 1..K
        BY <1>1, <3>1
      <4> QED BY <1>1, <1>2, <4>1 DEF EndOf
    <3>3. Tokens'[k] = Tokens[k]
      BY <1>1, <3>1
    <3>4. ASSUME k > MaxFrames + 1, NEW i \in (k - (MaxFrames + 1))..k PROVE Tokens'[i] = Tokens[i]
      <4>1. MaxFrames \in Nat
        BY LexerAssumption
      <4>2. i \in 1..K
        BY <1>1, <3>1, <3>4, <4>1
      <4> QED BY <1>1, <4>2
    <3> QED BY <1>2, <3>1, <3>2, <3>3, <3>4 DEF InOrder, Vacant
  <2> QED BY <2>1, <2>2
<1> QED BY <1>3, <1>4 DEF Ordered

LEMMA VacantGrown ==
  ASSUME NEW t, Grown(t), NEW n \in Nat, LastVacant(n)'
  PROVE  n = 0 \/ (Vacant(t) /\ n - 1 \in Nat /\ LastVacant(n - 1))
<1>1. K \in Nat /\ K' = K + 1 /\ Tokens'[K'] = t /\ \A k \in 1..K : Tokens'[k] = Tokens[k]
  BY DEF Grown, Newest
<1>2. n \in 0..(K + 1) /\ \A i \in (K' - n + 1)..K' : Vacant(Tokens'[i])
  BY <1>1 DEF LastVacant, Vacant
<1>3. SUFFICES ASSUME n # 0 PROVE Vacant(t) /\ n - 1 \in Nat /\ LastVacant(n - 1)
  OBVIOUS
<1>4. K' \in (K' - n + 1)..K'
  BY <1>1, <1>3
<1>5. Vacant(t)
  BY <1>1, <1>2, <1>4
<1>6. n - 1 \in 0..K
  BY <1>1, <1>2, <1>3
<1>7. ASSUME NEW i \in (K - (n - 1) + 1)..K PROVE Vacant(Tokens[i])
  <2>1. i \in (K' - n + 1)..K' /\ i \in 1..K
    BY <1>1, <1>6, <1>7
  <2> QED BY <1>1, <1>2, <2>1
<1> QED BY <1>5, <1>6, <1>7 DEF LastVacant

LEMMA PatientTaken ==
  ASSUME Reading, FramesInv, FramesInv', Patient, ~(K > 0 /\ Newest.type = "EOF"), Taken(Scan), Handles(Scan)
  PROVE  Patient'
<1> DEFINE s == Scan
           t == Token(s.type, s.from, s.end)
<1>1. Grown(t) /\ (Vacant(t) <=> s.from.pos = s.end) /\ t.type = s.type
  BY TokenFields DEF Taken, Vacant
<1>2. K' > 0 /\ Newest' = t
  BY <1>1 DEF Grown
<1>3. Len(frames) \in Nat /\ Len(frames') \in Nat /\ Len(frames') <= MaxFrames /\ MaxFrames \in Nat
  BY LexerAssumption DEF FramesInv, FrameTypes, FramesPaired
<1>4. SUFFICES ASSUME s.type # "EOF", NEW n \in Nat, LastVacant(n)'
               PROVE  Affords(n)' \/ (n <= MaxFrames + 1 /\ Bracing')
  BY <1>1, <1>2 DEF Patient
<1>5. n = 0 \/ (Vacant(t) /\ n - 1 \in Nat /\ LastVacant(n - 1))
  BY <1>1, <1>4, VacantGrown
<1>6. CASE n = 0
  BY <1>3, <1>6 DEF Affords
<1>7. CASE Vacant(t) /\ n - 1 \in Nat /\ LastVacant(n - 1)
  <2>1. Costs
    BY <1>1, <1>4, <1>7, VacantCosts
  <2>2. ~Bracing
    BY <1>1, <1>7, BraceScanned DEF Reading
  <2>3. Affords(n - 1)
    BY <1>7, <2>2 DEF Patient
  <2> QED BY <1>3, <1>7, <2>1, <2>3 DEF Costs, Affords
<1> QED BY <1>5, <1>6, <1>7

LEMMA OrderTaken ==
  ASSUME Reading, FramesInv, FramesInv', Following, Ordered, Patient, Patient', Taken(Scan)
  PROVE  Ordered'
<1> DEFINE s == Scan
           t == Token(s.type, s.from, s.end)
<1>1. Grown(t) /\ source' = source /\ cursor' = s.to /\ Passed(s) /\ (Inline(s) \/ Newlined(s) \/ Direct(s))
  BY DEF Taken
<1>2. t.type = s.type /\ t.start = s.from.pos /\ t.end = s.end
  BY TokenFields
<1>3. s.type = "EOF" => s.from.pos = s.end
  BY <1>1 DEF Inline, Newlined, Direct
<1> HIDE DEF s, t
<1>4. K \in Nat /\ K' = K + 1 /\ Newest' = t /\ Tokens'[K'] = t
  BY <1>1 DEF Grown, Newest
<1>5. Past' = Past /\ EndOf(K)' = t.end /\ EndOf(K - 1)' = EndOf(K)
  BY <1>1, SameText, GrownTokens
<1>6. source \in Seq(STRING) /\ Right(cursor) /\ Right(s.from) /\ Right(s.to)
  BY <1>1 DEF Reading, Plaintext, Passed
<1>7. /\ s.from.pos \in Nat /\ s.to.pos <= Past /\ s.to.pos \in Nat /\ Past \in Nat /\ cursor.pos \in Nat
      /\ s.end \in Nat /\ cursor.pos <= s.from.pos /\ s.from.pos <= s.end /\ s.end <= s.to.pos
  BY <1>1, <1>6, RightFields DEF Passed
<1>8. EndOf(K) \in Nat /\ 1 <= EndOf(K) /\ EndOf(K) <= cursor.pos
  BY DEF Ordered, Following
<1>9. /\ t.start \in Nat /\ t.end \in Nat /\ EndOf(K) <= t.start /\ t.start <= t.end /\ t.end <= Past
      /\ t.type = "EOF" => Vacant(t)
  BY <1>2, <1>3, <1>7, <1>8 DEF Vacant
<1>10. Len(frames)' \in Nat
  BY DEF FramesInv, FrameTypes
<1>11. (K > MaxFrames + 1 => \/ Newest.type = "EOF"
                             \/ \E i \in (K - (MaxFrames + 1))..K : ~Vacant(Tokens[i]))'
  <2>1. SUFFICES ASSUME K' > MaxFrames + 1, ~(t.type = "EOF")
                 PROVE  (\E i \in (K - (MaxFrames + 1))..K : ~Vacant(Tokens[i]))'
    BY <1>4
  <2>2. (K \in Nat /\ K > MaxFrames + 1 /\ Len(frames) \in Nat /\ Patient /\ ~(K > 0 /\ Newest.type = "EOF"))'
    BY <1>4, <1>10, <2>1
  <2>3. (\A i \in (K - (MaxFrames + 1))..K : Vacant(Tokens[i]))' => LastVacant(MaxFrames + 2)'
    BY <2>2, LexerAssumption DEF LastVacant, Vacant
  <2>4. ~Affords(MaxFrames + 2)' /\ ~(MaxFrames + 2 <= MaxFrames + 1) /\ MaxFrames + 2 \in Nat
    BY <2>2, LexerAssumption DEF Affords
  <2> QED BY <2>2, <2>3, <2>4 DEF Patient, Vacant
<1>12. InOrder(K)'
  BY <1>4, <1>5, <1>8, <1>9, <1>11 DEF InOrder, Vacant, Newest
<1> QED BY <1>1, <1>8, <1>9, <1>12, OrderGrown

LEMMA OrderCapped ==
  ASSUME Reading, Following, Ordered, NEW d, Capped(d)
  PROVE  Ordered' /\ Patient'
<1> DEFINE t == Token("EOF", d, d.pos)
<1>1. Grown(t) /\ source' = source /\ Right(d) /\ cursor.pos <= d.pos
  BY DEF Capped
<1>2. t.type = "EOF" /\ t.start = d.pos /\ t.end = d.pos
  BY TokenFields
<1> HIDE DEF t
<1>3. K \in Nat /\ K' = K + 1 /\ Newest' = t /\ Tokens'[K'] = t
  BY <1>1 DEF Grown, Newest
<1>4. Past' = Past /\ EndOf(K)' = t.end /\ EndOf(K - 1)' = EndOf(K)
  BY <1>1, SameText, GrownTokens
<1>5. d.pos \in Nat /\ d.pos <= Past /\ cursor.pos \in Nat
  BY <1>1, RightFields DEF Reading, Plaintext
<1>6. EndOf(K) \in Nat /\ 1 <= EndOf(K) /\ EndOf(K) <= d.pos
  BY <1>1, <1>5 DEF Ordered, Following
<1>7. InOrder(K)'
  BY <1>2, <1>3, <1>4, <1>5, <1>6 DEF InOrder, Vacant
<1>8. Ordered'
  BY <1>1, <1>2, <1>5, <1>6, <1>7, OrderGrown
<1>9. Patient'
  BY <1>2, <1>3 DEF Patient
<1> QED BY <1>8, <1>9

LEMMA OrderIdle ==
  ASSUME Reading, Ordered, Patient, Idle
  PROVE  Ordered' /\ Patient'
<1>1. Tokens' = Tokens /\ UNCHANGED <<source, cursor, canEndStatement, mode, frames>>
  BY DEF Idle
<1>2. Past' = Past /\ HasBom' = HasBom /\ K' = K /\ Newest' = Newest
  BY <1>1, SameText DEF K, Newest
<1>3. Ordered'
  BY <1>1, <1>2 DEF Ordered, InOrder, EndOf, Vacant
<1>4. Patient'
  BY <1>1, <1>2 DEF Patient, LastVacant, Vacant, Affords, Bracing, InFrame, At
<1> QED BY <1>3, <1>4

\* A scan is made only when none gave EOF before.
LEMMA NotOver ==
  ASSUME ScanNext
  PROVE  ~(K > 0 /\ Newest.type = "EOF") /\ peeked = None /\ Tokens = handed /\ ~Ended
BY DEF ScanNext, Ended, Tokens, K, Newest

LEMMA OrderKept ==
  ASSUME Reading, FramesInv, Following, Ordered, Patient, [Next]_vars
  PROVE  Ordered' /\ Patient'
<1>1. CASE ScanNext
  <2>1. CASE Handles(Scan) /\ Taken(Scan)
    <3>1. FramesInv'
      BY NextFrames
    <3>2. Patient'
      BY <1>1, <2>1, <3>1, NotOver, PatientTaken
    <3> QED BY <2>1, <3>1, <3>2, OrderTaken
  <2>2. CASE \E d : Capped(d)
    BY <2>2, OrderCapped
  <2> QED BY <1>1, <2>1, <2>2, ScanTakes
<1>2. CASE HandPeeked \/ ParserReports \/ UNCHANGED vars
  BY <1>2, OtherIdle, OrderIdle
<1> QED BY <1>1, <1>2 DEF Next, Step

\* What the stream sees of a token, and of a list of them.
Seen(t)  == [start |-> t.start, end |-> t.end, last |-> t.type = "EOF"]
Sight(h) == [k \in 1..Len(h) |-> Seen(h[k])]

LEMMA SightAppend ==
  ASSUME NEW h, IsList(h), NEW t
  PROVE  /\ Sight(Append(h, t)) = Append(Sight(h), Seen(t))
         /\ Len(h) \in Nat /\ Len(Sight(h)) = Len(h) /\ Len(Sight(Append(h, t))) = Len(h) + 1
         /\ \A k \in 1..Len(h) : Sight(Append(h, t))[k] = Seen(h[k]) /\ Sight(h)[k] = Seen(h[k])
         /\ Sight(Append(h, t))[Len(h) + 1] = Seen(t)
<1> DEFINE g == Append(h, t)
           n == Len(h)
           S == {Seen(g[k]) : k \in 1..(n + 1)}
<1>1. n \in Nat /\ Len(g) = n + 1 /\ g[n + 1] = t /\ \A k \in 1..n : g[k] = h[k]
  BY ListAppend
<1> HIDE DEF g
<1>2. Sight(g) \in Seq(S) /\ Len(Sight(g)) = n + 1 /\ \A k \in 1..(n + 1) : Sight(g)[k] = Seen(g[k])
  <2>1. Sight(g) = [k \in 1..(n + 1) |-> Seen(g[k])]
    BY <1>1 DEF Sight
  <2> HIDE DEF n
  <2> QED BY <1>1, <2>1
<1>3. Sight(h) \in Seq(S) /\ Len(Sight(h)) = n /\ \A k \in 1..n : Sight(h)[k] = Seen(h[k])
  <2>1. Sight(h) = [k \in 1..n |-> Seen(h[k])]
    BY DEF Sight
  <2>2. \A k \in 1..n : Seen(h[k]) \in S
    BY <1>1
  <2> HIDE DEF n, S
  <2> QED BY <1>1, <2>1, <2>2
<1>4. Seen(t) \in S
  BY <1>1
<1> HIDE DEF S, n
<1>5. /\ Append(Sight(h), Seen(t)) \in Seq(S) /\ Len(Append(Sight(h), Seen(t))) = n + 1
      /\ Append(Sight(h), Seen(t))[n + 1] = Seen(t)
      /\ \A k \in 1..n : Append(Sight(h), Seen(t))[k] = Sight(h)[k]
  BY <1>1, <1>3, <1>4
<1>6. Sight(g) = Append(Sight(h), Seen(t))
  <2>1. \A k \in 1..(n + 1) : k = n + 1 \/ k \in 1..n
    BY <1>1
  <2>2. \A k \in 1..(n + 1) : Sight(g)[k] = Append(Sight(h), Seen(t))[k]
    BY <1>1, <1>2, <1>3, <1>5, <2>1
  <2> QED BY <1>2, <1>5, <2>2, SeqEqual
<1>7. Sight(g)[n + 1] = Seen(t)
  BY <1>1, <1>2
<1>8. \A k \in 1..n : Sight(g)[k] = Seen(h[k])
  BY <1>1, <1>2
<1> QED BY <1>1, <1>2, <1>3, <1>6, <1>7, <1>8 DEF g, n

\* What the stream gives, said of what it sees.
Gives(g, h) ==
  /\ ~(g # <<>> /\ g[Len(g)].last)
  /\ \E start \in (IF g = <<>> THEN 1 ELSE g[Len(g)].end)..Past : \E end \in start..Past : \E last \in BOOLEAN :
       /\ h = Append(g, [start |-> start, end |-> end, last |-> last])
       /\ last => start = end
  /\ Len(g) >= MaxFrames + 1 =>
       \/ h[Len(h)].last
       \/ \E i \in (Len(h) - (MaxFrames + 1))..Len(h) : ~(h[i].start = h[i].end)

LEMMA GivesIs ==
  ASSUME source' = source, Gives(Sight(handed), Sight(handed'))
  PROVE  Stream!Give
<1>1. Past' = Past
  BY SameText
<1> QED BY <1>1 DEF Gives, Sight, Seen, Stream!Give, Stream!Over, Stream!Reached, Stream!IsEmpty

\* A token handed out that is in order is one the stream may give.
LEMMA HandsGive ==
  ASSUME source' = source, IsList(handed), ~Ended, NEW t, handed' = Append(handed, t),
         Tokens' = handed', Ordered', Past \in Nat
  PROVE  Stream!Give
<1> DEFINE n == Len(handed)
           M == MaxFrames + 1
           g == Sight(handed)
           h == Sight(handed')
<1>1. /\ n \in Nat /\ Len(handed') = n + 1 /\ handed'[n + 1] = t /\ \A k \in 1..n : handed'[k] = handed[k]
  BY ListAppend
<1>2. /\ h = Append(g, Seen(t)) /\ Len(g) = n /\ Len(h) = n + 1 /\ h[n + 1] = Seen(t)
      /\ \A k \in 1..n : h[k] = Seen(handed[k]) /\ g[k] = Seen(handed[k])
  BY SightAppend
<1>3. K' = n + 1 /\ Past' = Past /\ M \in Nat
  BY <1>1, SameText, LexerAssumption DEF K
<1>4. InOrder(K)'
  BY <1>1, <1>3 DEF Ordered
<1>5. n # 0 => EndOf(K - 1)' = handed[n].end
  <2>1. n # 0 => n \in 1..n
    BY <1>1
  <2> QED BY <1>1, <1>3, <2>1 DEF EndOf
<1>6. g = <<>> <=> n = 0
  <2>1. g = <<>> => Len(g) = 0
    OBVIOUS
  <2>2. n = 0 => g = <<>>
    <3>1. n = 0 => g = [k \in 1..0 |-> Seen(handed[k])]
      BY DEF Sight
    <3> QED BY <3>1
  <2> QED BY <1>2, <2>1, <2>2
<1>7. \A u : Seen(u).start = u.start /\ Seen(u).end = u.end /\ (Seen(u).last <=> u.type = "EOF")
  BY DEF Seen
<1>8. /\ t.start \in Nat /\ t.end \in Nat /\ EndOf(K - 1)' \in Nat /\ 1 <= EndOf(K - 1)'
      /\ EndOf(K - 1)' <= t.start /\ t.start <= t.end /\ t.end <= Past
      /\ t.type = "EOF" => t.start = t.end
      /\ n + 1 > M => t.type = "EOF" \/ \E i \in (n + 1 - M)..(n + 1) : ~(handed'[i].start = handed'[i].end)
  BY <1>1, <1>3, <1>4 DEF InOrder, Vacant
<1> HIDE DEF g, h, M
<1>9. ~(g # <<>> /\ g[Len(g)].last)
  <2>1. SUFFICES ASSUME n # 0 PROVE ~g[n].last
    BY <1>2, <1>6
  <2>2. handed # <<>>
    BY <2>1
  <2>3. handed[n].type # "EOF"
    BY <2>2 DEF Ended
  <2>4. g[n] = Seen(handed[n])
    BY <1>1, <1>2, <2>1
  <2> QED BY <1>7, <2>3, <2>4
<1>10. t.start \in (IF g = <<>> THEN 1 ELSE g[Len(g)].end)..Past
  <2>1. CASE n = 0
    BY <1>3, <1>6, <1>8, <2>1
  <2>2. CASE n # 0
    <3>1. g[Len(g)].end = handed[n].end
      BY <1>1, <1>2, <1>7, <2>2
    <3> QED BY <1>5, <1>6, <1>8, <2>2, <3>1
  <2> QED BY <2>1, <2>2
<1>11. \E start \in (IF g = <<>> THEN 1 ELSE g[Len(g)].end)..Past : \E end \in start..Past : \E last \in BOOLEAN :
         /\ h = Append(g, [start |-> start, end |-> end, last |-> last])
         /\ last => start = end
  <2> DEFINE l == t.type = "EOF"
  <2>1. h = Append(g, [start |-> t.start, end |-> t.end, last |-> l])
    BY <1>2 DEF Seen
  <2>2. t.end \in t.start..Past /\ l \in BOOLEAN /\ (l => t.start = t.end)
    BY <1>8
  <2> HIDE DEF l
  <2> QED BY <1>10, <2>1, <2>2
<1>12. ASSUME n >= M
       PROVE  h[Len(h)].last \/ \E i \in (Len(h) - M)..Len(h) : ~(h[i].start = h[i].end)
  <2>1. CASE t.type = "EOF"
    BY <1>2, <1>7, <2>1
  <2>2. CASE t.type # "EOF"
    <3>1. PICK i \in (n + 1 - M)..(n + 1) : ~(handed'[i].start = handed'[i].end)
      BY <1>1, <1>3, <1>8, <1>12, <2>2
    <3>2. i = n + 1 \/ i \in 1..n
      BY <1>1, <1>3, <1>12
    <3>3. h[i] = Seen(handed'[i])
      BY <1>1, <1>2, <3>2
    <3>4. ~(h[i].start = h[i].end)
      BY <1>7, <3>1, <3>3
    <3>5. i \in (Len(h) - M)..Len(h)
      <4>1. n \in Nat /\ M \in Nat /\ Len(h) = n + 1
        BY <1>1, <1>2, <1>3
      <4> HIDE DEF n, M, h
      <4> QED BY <3>1, <4>1
    <3> QED BY <3>4, <3>5
  <2> QED BY <2>1, <2>2
<1>13. Gives(g, h)
  BY <1>2, <1>9, <1>11, <1>12 DEF Gives, M
<1> QED BY <1>13, GivesIs DEF g, h

\* Every step hands out a token, or nothing the stream sees.
LEMMA StreamStep ==
  ASSUME Reading, Ordered', [Next]_vars
  PROVE  [Stream!Give]_(Stream!streamVars)
<1>0. IsList(handed) /\ Past \in Nat
  BY TextPast DEF Reading, Plaintext
<1>1. ASSUME UNCHANGED <<source, handed>> PROVE UNCHANGED Stream!streamVars
  BY <1>1, SameText DEF Stream!streamVars
<1>2. CASE ScanNext
  <2>1. ~Ended /\ peeked = None /\ source' = source /\ \E t : Deliver(t)
    <3>1. Scanned(Scan) \/ HitDiagCap(Scan)
      BY <1>2, HandlesScanned DEF ScanNext, Handles
    <3>2. source' = source /\ \E t : Deliver(t)
      BY <3>1 DEF Scanned, HitDiagCap
    <3> QED BY <1>2, <3>2 DEF ScanNext
  <2>2. PICK t : Deliver(t)
    BY <2>1
  <2>3. CASE handed' = Append(handed, t) /\ peeked' = None
    <3>1. Tokens' = handed'
      BY <2>3 DEF Tokens
    <3> QED BY <1>0, <2>1, <2>3, <3>1, HandsGive
  <2>4. CASE peeked' = t /\ UNCHANGED handed
    BY <1>1, <2>1, <2>4
  <2> QED BY <2>2, <2>3, <2>4 DEF Deliver
<1>3. CASE HandPeeked
  <2>1. ~Ended /\ source' = source /\ handed' = Append(handed, peeked) /\ peeked' = None
    BY <1>3 DEF HandPeeked
  <2>2. Tokens' = handed'
    BY <2>1 DEF Tokens
  <2> QED BY <1>0, <2>1, <2>2, HandsGive
<1>4. CASE ParserReports \/ UNCHANGED vars
  BY <1>1, <1>4 DEF ParserReports, vars
<1> QED BY <1>2, <1>3, <1>4 DEF Next, Step

LEMMA InitOrder == Init => Ordered /\ Patient /\ Stream!Init
<1> SUFFICES ASSUME Init PROVE Ordered /\ Patient /\ Stream!Init
  OBVIOUS
<1>1. K = 0 /\ EndOf(0) \in Nat /\ 1 <= EndOf(0)
  BY InitFollowing DEF EndOf
<1>2. Ordered
  BY <1>1 DEF Ordered
<1>3. frames = <<>> /\ canEndStatement = FALSE /\ handed = <<>> /\ Len(frames) = 0 /\ Len(handed) = 0
  BY DEF Init
<1>4. Patient
  BY <1>1, <1>3, LexerAssumption DEF Patient, LastVacant, Affords
<1>5. Past \in Nat \ {0}
  BY InitReading, TextPast DEF Reading, Plaintext
<1>6. Stream!Init
  BY <1>3, <1>5 DEF Stream!Init
<1> QED BY <1>2, <1>4, <1>6

\* What ms_lexer.h promises the parser, but for the end, which needs a parser that goes on
\* asking: the tokens come in the order of the text, EOF is the last, and never are more of
\* them without bytes in a row than f-strings may be open and one.
THEOREM LexerKeepsStream == Spec => Stream!Safe
<1> DEFINE I == Reading /\ FramesInv /\ Following /\ Ordered /\ Patient
<1>1. Init => I /\ Stream!Init
  BY InitReading, InitFrames, InitFollowing, InitOrder
<1>2. I /\ [Next]_vars => I'
  BY ReadingKept, NextFrames, FollowingKept, OrderKept
<1>3. I /\ I' /\ [Next]_vars => [Stream!Give]_(Stream!streamVars)
  BY StreamStep
<1> QED BY <1>1, <1>2, <1>3, PTL DEF Spec, Stream!Safe

(******************************* the decoder ********************************)

HexOrder == <<{"0"}, {"1"}, {"2"}, {"3"}, {"4"}, {"5"}, {"6"}, {"7"}, {"8"}, {"9"}, {"a", "A"}, {"b", "B"}, {"c", "C"},
              {"d", "D"}, {"e", "E"}, {"f", "F"}>>

LEMMA HexValueIs ==
  ASSUME NEW d \in HexDigit
  PROVE  /\ HexValue[d] \in 0..15
         /\ d = "0" <=> HexValue[d] = 0
         /\ d = "1" <=> HexValue[d] = 1
         /\ d \in {"d", "D"} <=> HexValue[d] = 13
         /\ d \in Digit \ {"8", "9"} <=> HexValue[d] < 8
<1>1. HexValue[d] = (CHOOSE i \in 1..16 : d \in HexOrder[i]) - 1
  BY DEF HexValue, HexOrder
<1>2. /\ HexOrder[1] = {"0"} /\ HexOrder[2] = {"1"} /\ HexOrder[3] = {"2"} /\ HexOrder[4] = {"3"}
      /\ HexOrder[5] = {"4"} /\ HexOrder[6] = {"5"} /\ HexOrder[7] = {"6"} /\ HexOrder[8] = {"7"}
      /\ HexOrder[9] = {"8"} /\ HexOrder[10] = {"9"} /\ HexOrder[11] = {"a", "A"} /\ HexOrder[12] = {"b", "B"}
      /\ HexOrder[13] = {"c", "C"} /\ HexOrder[14] = {"d", "D"} /\ HexOrder[15] = {"e", "E"}
      /\ HexOrder[16] = {"f", "F"}
  BY DEF HexOrder
<1>3. \A i \in 1..16 : i \in {1, 2, 3, 4, 5, 6, 7, 8, 9, 10, 11, 12, 13, 14, 15, 16}
  OBVIOUS
<1>4. \E i \in 1..16 : d \in HexOrder[i]
  BY <1>2 DEF HexDigit, Digit
<1> DEFINE v == CHOOSE i \in 1..16 : d \in HexOrder[i]
<1>5. v \in 1..16 /\ d \in HexOrder[v]
  BY <1>4
<1> HIDE DEF v
<1>6. v \in {1, 2, 3, 4, 5, 6, 7, 8, 9, 10, 11, 12, 13, 14, 15, 16}
  BY <1>3, <1>5
<1>7. HexValue[d] = v - 1
  BY <1>1 DEF v
<1>8. /\ v \in 1..16 /\ d = "0" <=> v = 1
      /\ d = "1" <=> v = 2
      /\ d \in {"d", "D"} <=> v = 14
  BY <1>2, <1>5, <1>6
<1>9. d \in Digit \ {"8", "9"} <=> v < 9
  BY <1>2, <1>5, <1>6 DEF Digit
<1> QED BY <1>5, <1>7, <1>8, <1>9

LEMMA SurrogateIs ==
  ASSUME NEW p \in Nat, HexDigits(p, 4), ~Surrogate(p)
  PROVE  Hex4(p) \notin 55296..57343
<1>1. /\ At(p) \in HexDigit /\ At(p + 1) \in HexDigit /\ At(p + 2) \in HexDigit /\ At(p + 3) \in HexDigit
  BY DEF HexDigits
<1> DEFINE a == HexValue[At(p)]
           b == HexValue[At(p + 1)]
           c == HexValue[At(p + 2)]
           d == HexValue[At(p + 3)]
<1>2. a \in 0..15 /\ b \in 0..15 /\ c \in 0..15 /\ d \in 0..15
  BY <1>1, HexValueIs
<1>3. ~(a = 13 /\ b >= 8)
  <2>1. At(p) \in {"d", "D"} <=> a = 13
    BY <1>1, HexValueIs
  <2>2. At(p + 1) \in Digit \ {"8", "9"} <=> b < 8
    BY <1>1, HexValueIs
  <2> QED BY <1>2, <2>1, <2>2 DEF Surrogate
<1>4. Hex4(p) = 4096 * a + 256 * b + 16 * c + d
  BY DEF Hex4
<1> HIDE DEF a, b, c, d
<1> QED BY <1>2, <1>3, <1>4, SMTT(40)

\* What the scan passes as an escape the decoder takes, and no more and no less of it.
LEMMA EscapeDecodes ==
  ASSUME NEW p \in Nat, ScanEscape(p) > 0
  PROVE  DecodeEscape(p) = ScanEscape(p)
<1>0. /\ SimpleEscape \cap {"x", "u", "U"} = {} /\ "x" # "u" /\ "x" # "U" /\ "u" # "U"
  BY DEF SimpleEscape, Backslash, Quote
<1>1. \/ ScanEscape(p) = 2 /\ At(p + 1) \in SimpleEscape
      \/ ScanEscape(p) = 4 /\ At(p + 1) = "x" /\ HexDigits(p + 2, 2)
      \/ ScanEscape(p) = 6 /\ At(p + 1) = "u" /\ HexDigits(p + 2, 4) /\ ~Surrogate(p + 2)
      \/ /\ ScanEscape(p) = 10 /\ At(p + 1) = "U" /\ HexDigits(p + 2, 8) /\ At(p + 2) = "0" /\ At(p + 3) = "0"
         /\ \/ At(p + 4) = "0" /\ ~(At(p + 5) = "0" /\ Surrogate(p + 6))
            \/ At(p + 4) = "1" /\ At(p + 5) = "0"
  BY DEF ScanEscape
<1>2. CASE ScanEscape(p) = 2 /\ At(p + 1) \in SimpleEscape
  BY <1>0, <1>2 DEF DecodeEscape
<1>3. CASE ScanEscape(p) = 4 /\ At(p + 1) = "x" /\ HexDigits(p + 2, 2)
  BY <1>0, <1>3 DEF DecodeEscape
<1>4. CASE ScanEscape(p) = 6 /\ At(p + 1) = "u" /\ HexDigits(p + 2, 4) /\ ~Surrogate(p + 2)
  <2>1. p + 2 \in Nat
    OBVIOUS
  <2>2. Hex4(p + 2) \notin 55296..57343
    BY <1>4, <2>1, SurrogateIs
  <2>3. EncodesUtf8(0, Hex4(p + 2))
    BY <2>2 DEF EncodesUtf8
  <2> QED BY <1>0, <1>4, <2>3 DEF DecodeEscape
<1>5. CASE /\ ScanEscape(p) = 10 /\ At(p + 1) = "U" /\ HexDigits(p + 2, 8) /\ At(p + 2) = "0" /\ At(p + 3) = "0"
           /\ \/ At(p + 4) = "0" /\ ~(At(p + 5) = "0" /\ Surrogate(p + 6))
              \/ At(p + 4) = "1" /\ At(p + 5) = "0"
  <2>1. \A i \in (p + 2)..(p + 9) : At(i) \in HexDigit
    <3>1. \A i \in (p + 2)..(p + 2 + 8 - 1) : At(i) \in HexDigit
      BY <1>5 DEF HexDigits
    <3> QED BY <3>1
  <2>2. p + 6 \in Nat /\ HexDigits(p + 6, 4)
    BY <2>1 DEF HexDigits
  <2>3. At(p + 4) \in HexDigit /\ At(p + 5) \in HexDigit /\ "0" \in HexDigit
    BY <2>1 DEF HexDigit, Digit
  <2> DEFINE a == HexValue[At(p + 4)]
             b == HexValue[At(p + 5)]
  <2>4. /\ b \in 0..15 /\ (b = 0 <=> At(p + 5) = "0") /\ HexValue["0"] = 0
        /\ a = 0 <=> At(p + 4) = "0"
        /\ a = 1 <=> At(p + 4) = "1"
        /\ a \in 0..15
    BY <2>3, HexValueIs
  <2>5. Hex4(p + 2) = 4096 * 0 + 256 * 0 + 16 * a + b
    <3>1. p + 2 + 1 = p + 3 /\ p + 2 + 2 = p + 4 /\ p + 2 + 3 = p + 5
      OBVIOUS
    <3> QED BY <1>5, <2>4, <3>1 DEF Hex4
  <2> HIDE DEF a, b
  <2>6. ~Surrogate(p + 6) => Hex4(p + 6) \notin 55296..57343
    BY <2>2, SurrogateIs
  <2>7. Hex4(p + 2) = 16 * a + b
    BY <2>4, <2>5
  <2>8. Hex4(p + 2) <= 16 /\ ~(Hex4(p + 2) = 0 /\ Hex4(p + 6) \in 55296..57343)
    <3>1. CASE At(p + 4) = "0" /\ ~(At(p + 5) = "0" /\ Surrogate(p + 6))
      <4>1. a = 0
        BY <2>4, <3>1
      <4>2. Hex4(p + 2) = b
        BY <2>4, <2>7, <4>1
      <4> QED BY <2>4, <2>6, <3>1, <4>2
    <3>2. CASE At(p + 4) = "1" /\ At(p + 5) = "0"
      <4>1. a = 1 /\ b = 0
        BY <2>4, <3>2
      <4>2. Hex4(p + 2) = 16
        BY <2>7, <4>1
      <4> QED BY <4>2
    <3> QED BY <1>5, <3>1, <3>2
  <2>9. EncodesUtf8(Hex4(p + 2), Hex4(p + 6))
    BY <2>8 DEF EncodesUtf8
  <2> QED BY <1>0, <1>5, <2>9 DEF DecodeEscape
<1> QED BY <1>1, <1>2, <1>3, <1>4, <1>5

\* Where the decoder stops, and where it goes on to.
DecoderStops(q, e, braces) ==
  \/ q >= e
  \/ At(q) = Backslash /\ ~(DecodeEscape(q) > 0)
  \/ At(q) # Backslash /\ braces /\ At(q) \in {"{", "}"} /\ At(q + 1) # At(q)
DecoderNext(q, braces) ==
  IF At(q) = Backslash THEN q + DecodeEscape(q)
  ELSE IF braces /\ At(q) \in {"{", "}"} THEN q + 2 ELSE q + 1
DecoderRound(g, q, e, braces) ==
  CASE q >= e -> q
    [] q < e /\ At(q) = Backslash -> IF DecodeEscape(q) > 0 THEN g[q + DecodeEscape(q)] ELSE q
    [] q < e /\ braces /\ At(q) \in {"{", "}"} -> IF At(q + 1) = At(q) THEN g[q + 2] ELSE q
    [] OTHER -> g[q + 1]

LEMMA DecoderFurther ==
  ASSUME NEW e \in Nat, NEW braces \in BOOLEAN, NEW q \in Nat, ~DecoderStops(q, e, braces)
  PROVE  q < e /\ DecoderNext(q, braces) \in Nat /\ q < DecoderNext(q, braces)
<1>1. DecodeEscape(q) \in Nat
  BY DEF DecodeEscape
<1>2. q < e
  <2>1. ~(q >= e)
    BY Zenon DEF DecoderStops
  <2> QED BY ONLY <2>1, q \in Nat, e \in Nat
<1>3. CASE At(q) = Backslash
  BY <1>1, <1>2, <1>3 DEF DecoderStops, DecoderNext
<1>4. CASE At(q) # Backslash
  <2>1. DecoderNext(q, braces) \in {q + 1, q + 2}
    BY <1>4 DEF DecoderNext
  <2> QED BY <1>2, <2>1
<1> QED BY <1>3, <1>4

LEMMA DecoderTo ==
  ASSUME NEW e \in Nat, NEW braces \in BOOLEAN
  PROVE  \A p \in Nat :
           UnescapeImpl(p, e, braces) = IF DecoderStops(p, e, braces) THEN p
                                        ELSE UnescapeImpl(DecoderNext(p, braces), e, braces)
<1> DEFINE D == {q \in Nat : ~DecoderStops(q, e, braces)}
           next == [q \in Nat |-> IF q \in D THEN DecoderNext(q, braces) ELSE q]
           stop == [q \in Nat |-> q]
<1>2. \A q \in Nat : (IF q \in D THEN DecoderNext(q, braces) ELSE q) \in Nat
  BY DecoderFurther
<1>3. next \in [Nat -> Nat] /\ stop \in [Nat -> Nat] /\ D \in SUBSET Nat
  BY <1>2
<1>4. \A q \in D : next[q] = DecoderNext(q, braces) /\ q < e /\ q < next[q]
  BY DecoderFurther
<1>5. \A q \in Nat : stop[q] = q
  OBVIOUS
<1> HIDE DEF next, stop
<1>6. PICK f : Loop(f, Nat, D, next, stop)
  BY <1>3, <1>4, ScanExists
<1>7. ASSUME NEW q \in Nat
      PROVE  f[q] = IF DecoderStops(q, e, braces) THEN q ELSE f[DecoderNext(q, braces)]
  BY <1>4, <1>5, <1>6 DEF Loop
<1>8. f \in [Nat -> Nat]
  BY <1>6 DEF Loop
<1>0. \A q \in Nat : q >= e <=> ~(q < e)
  OBVIOUS
<1>9. ASSUME NEW q \in Nat, NEW g
      PROVE  DecoderRound(g, q, e, braces) = IF DecoderStops(q, e, braces) THEN q ELSE g[DecoderNext(q, braces)]
  <2>2. CASE q >= e
    <3>1. ~(q < e)
      BY <2>2
    <3> QED BY <2>2, <3>1 DEF DecoderStops, DecoderRound
  <2>3. CASE q < e /\ At(q) = Backslash
    <3>1. ~(q >= e) /\ Backslash \notin {"{", "}"}
      BY <2>3 DEF Backslash
    <3> QED BY <2>3, <3>1, Zenon DEF DecoderStops, DecoderNext, DecoderRound
  <2>4. CASE q < e /\ At(q) # Backslash /\ braces /\ At(q) \in {"{", "}"}
    <3>1. ~(q >= e)
      BY <1>0, <2>4, Zenon
    <3> QED BY <2>4, <3>1, Zenon DEF DecoderStops, DecoderNext, DecoderRound
  <2>5. CASE q < e /\ At(q) # Backslash /\ ~(braces /\ At(q) \in {"{", "}"})
    <3>1. ~(q >= e)
      BY <1>0, <2>5, Zenon
    <3> QED BY <2>5, <3>1, Zenon DEF DecoderStops, DecoderNext, DecoderRound
  <2> QED BY <1>0, <2>2, <2>3, <2>4, <2>5, Zenon
<1>10. f = [q \in Nat |-> DecoderRound(f, q, e, braces)]
  BY <1>7, <1>8, <1>9
<1>11. PICK g : g = [q \in Nat |-> DecoderRound(g, q, e, braces)] /\ \A p : UnescapeImpl(p, e, braces) = g[p]
  BY <1>10 DEF UnescapeImpl, DecoderRound
<1>12. \A q \in Nat : g[q] = DecoderRound(g, q, e, braces)
  BY <1>11
<1>13. \A q \in Nat : g[q] = IF DecoderStops(q, e, braces) THEN q ELSE g[DecoderNext(q, braces)]
  BY <1>9, <1>12
<1> QED BY <1>11, <1>13

\* A step of the scan over the body of a string is a step of the decoder.
LEMMA BodyDecodes ==
  ASSUME source \in Seq(STRING), NEW text \in BOOLEAN, NEW q \in Nat, NEW e \in Nat, q < e, ~BodyStops(q, TRUE, text)
  PROVE  ~DecoderStops(q, e, text) /\ DecoderNext(q, text) = BodyNext(q, TRUE, text)
<1>0. ~(q >= e) /\ Backslash \notin {"{", "}"}
  BY DEF Backslash
<1>1. At(q) = Backslash => ScanEscape(q) > 0 /\ DecodeEscape(q) = ScanEscape(q) /\ DecodeEscape(q) > 0
  <2>1. SUFFICES ASSUME At(q) = Backslash
                 PROVE  ScanEscape(q) > 0 /\ DecodeEscape(q) = ScanEscape(q) /\ DecodeEscape(q) > 0
    OBVIOUS
  <2>2. ScanEscape(q) > 0
    BY <2>1 DEF BodyStops
  <2>3. DecodeEscape(q) = ScanEscape(q)
    BY <2>2, EscapeDecodes
  <2> QED BY <2>2, <2>3
<1>2. text /\ At(q) \in {"{", "}"} => At(q + 1) = At(q)
  BY DEF BodyStops
<1>3. ~DecoderStops(q, e, text)
  BY <1>0, <1>1, <1>2, Zenon DEF DecoderStops
<1>4. DecoderNext(q, text) = BodyNext(q, TRUE, text)
  <2>1. CASE At(q) = Backslash
    <3>1. At(q) \notin {"{", "}"}
      BY <1>0, <2>1
    <3> QED BY <1>1, <2>1, <3>1, Zenon DEF DecoderNext, BodyNext
  <2>2. CASE At(q) # Backslash
    BY <2>2, Zenon DEF DecoderNext, BodyNext
  <2> QED BY <2>1, <2>2
<1> QED BY <1>3, <1>4

\* What the scan of the body of a string passes without a mistake, the decoder takes to its end.
LEMMA BodyDecoded ==
  ASSUME source \in Seq(STRING), NEW text \in BOOLEAN
  PROVE  \A p \in 0..Past : UnescapeImpl(p, Body(p, TRUE, text), text) = Body(p, TRUE, text)
<1> DEFINE end(p) == Body(p, TRUE, text)
           T == {p \in 0..Past : UnescapeImpl(p, end(p), text) = end(p)}
<1>0. Past \in Nat
  BY TextPast
<1>1. ASSUME NEW p \in 0..Past, \A q \in (p + 1)..Past : q \in T
      PROVE  UnescapeImpl(p, end(p), text) = end(p)
  <2>0. p \in Nat /\ p <= Past
    BY <1>0
  <2>1. CASE BodyStops(p, TRUE, text)
    <3>1. end(p) = p
      BY <2>0, <2>1, BodyTo
    <3> HIDE DEF end
    <3>2. DecoderStops(p, p, text)
      BY <2>0 DEF DecoderStops
    <3>3. UnescapeImpl(p, p, text) = p
      BY <2>0, <3>2, DecoderTo
    <3> QED BY <3>1, <3>3
  <2>2. CASE ~BodyStops(p, TRUE, text)
    <3> DEFINE q == BodyNext(p, TRUE, text)
    <3>1. end(p) = end(q)
      BY <2>0, <2>2, BodyTo
    <3>2. q \in Nat /\ p < q /\ Clear(p, q)
      BY <2>0, <2>2, BodyFurther
    <3> HIDE DEF q
    <3>3. q \in (p + 1)..Past /\ q \in 0..Past
      BY <1>0, <2>0, <3>2 DEF Clear
    <3>4. UnescapeImpl(q, end(q), text) = end(q)
      BY <1>1, <3>3
    <3>5. end(q) \in Nat /\ q <= end(q)
      <4>1. Clear(q, end(q))
        BY <3>3, BodyClear
      <4> HIDE DEF end
      <4> QED BY <3>2, <4>1 DEF Clear
    <3> HIDE DEF end
    <3>6. end(p) \in Nat /\ p < end(p)
      BY <2>0, <3>1, <3>2, <3>5
    <3>7. ~DecoderStops(p, end(p), text) /\ DecoderNext(p, text) = q
      BY <2>0, <2>2, <3>6, BodyDecodes DEF q
    <3>8. UnescapeImpl(p, end(p), text) = UnescapeImpl(q, end(p), text)
      BY <2>0, <3>6, <3>7, DecoderTo
    <3> QED BY <3>1, <3>4, <3>8
  <2> QED BY <2>1, <2>2
<1>2. \A p \in 0..Past : (\A q \in (p + 1)..Past : q \in T) => p \in T
  BY <1>1
<1> HIDE DEF T
<1>3. \A p \in 0..Past : p \in T
  BY <1>0, <1>2, DownInduces
<1> QED BY <1>3 DEF T

\* A string that is scanned whole is decoded whole.
LEMMA StringDecoded ==
  ASSUME source \in Seq(STRING), NEW c, Right(c), NEW type \in {"STRING", "BYTES"},
         IF type = "BYTES" THEN At(c.pos) = "b" /\ At(c.pos + 1) = Quote ELSE At(c.pos) = Quote
  PROVE  LET s == ScanString(c, type)
             b == c.pos + (IF type = "BYTES" THEN 2 ELSE 1)
         IN  /\ s.from = c /\ s.type \in {type, "INVALID"}
             /\ s.type = type => UnescapeImpl(b, s.end - 1, FALSE) = s.end - 1
<1> DEFINE p   == c.pos
           b   == p + (IF type = "BYTES" THEN 2 ELSE 1)
           s   == Body(b, TRUE, FALSE)
           e   == IF At(s) = Backslash THEN Body(s + 1, FALSE, FALSE) ELSE s
           end == IF At(e) = Quote THEN e + 1 ELSE e
           f   == ScanString(c, type)
<1>0. p \in Nat /\ Past \in Nat /\ p <= Past /\ c \in Cursor
  BY RightFields
<1>1. b \in 0..Past
  <2>1. CASE type = "BYTES"
    <3>2. Printed(p + 1)
      BY <2>1, PrintedIn
    <3>3. p + 1 < Past
      BY <1>0, <3>2, ClearOne
    <3> QED BY <1>0, <2>1, <3>3
  <2>2. CASE type # "BYTES"
    <3>1. Printed(p)
      BY <2>2, PrintedIn
    <3>2. p < Past
      BY <1>0, <3>1, ClearOne
    <3> QED BY <1>0, <2>2, <3>2
  <2> QED BY <2>1, <2>2
<1>2. f = IF s = e /\ At(e) = Quote THEN Good(type, c, end) ELSE Bad(c, end)
  BY DEF ScanString
<1> HIDE DEF b
<1>3. s \in Nat /\ b <= s /\ UnescapeImpl(b, s, FALSE) = s
  <2>1. Clear(b, s)
    BY <1>1, BodyClear
  <2>2. b \in Nat
    BY <1>0, <1>1
  <2>3. UnescapeImpl(b, s, FALSE) = s
    BY <1>1, BodyDecoded
  <2> HIDE DEF s
  <2>4. s \in b..Past
    BY <2>1 DEF Clear
  <2>5. s \in Nat /\ b <= s
    BY <2>2, <2>4
  <2> QED BY <2>3, <2>5
<1> HIDE DEF s, e, f
<1>4. CASE s = e /\ At(e) = Quote
  <2>1. f = Good(type, c, s + 1)
    BY <1>2, <1>4
  <2>2. f.from = c /\ f.type = type /\ f.end = Advance(c, (s + 1) - p).pos
    BY <2>1 DEF Good, Found
  <2>3. Advance(c, (s + 1) - p).pos = s + 1
    BY <1>0, <1>3 DEF Advance
  <2>4. f.end - 1 = s
    BY <1>3, <2>2, <2>3
  <2> QED BY <1>3, <2>2, <2>4 DEF b, f
<1>5. CASE ~(s = e /\ At(e) = Quote)
  <2>1. f = Bad(c, end)
    BY <1>2, <1>5
  <2>2. f.from = c /\ f.type = "INVALID"
    BY <2>1 DEF Bad, Found
  <2> QED BY <2>2 DEF f
<1> QED BY <1>4, <1>5

LEMMA TextFoundOne ==
  ASSUME NEW c, c.pos \in Nat, NEW s, NEW e \in Nat, c.pos <= e, NEW type, type = IF At(s) = Backslash THEN "INVALID" ELSE "STRING"
  PROVE  \/ TextFound(c, s, e).type \in {"INVALID", "FSTRING_END", "{"}
         \/ TextFound(c, s, e) = Found(type, c, Advance(c, e - c.pos), IF At(s) = Backslash THEN <<s>> ELSE <<>>, "none")
<1>1. \A t, to, errs, does : Found(t, c, to, errs, does).type = t
  BY DEF Found
<1>2. CASE At(e) \in NewlineChar \cup {"EOF"}
  <2>1. TextFound(c, s, e) = Found("INVALID", c, Advance(c, e - c.pos), <<IF At(s) = Backslash THEN s ELSE e>>, "pop")
    BY <1>2, TextFoundIs
  <2>2. TextFound(c, s, e).type = "INVALID"
    BY <2>1 DEF Found
  <2> QED BY <2>2, Zenon
<1>3. CASE At(e) \notin NewlineChar \cup {"EOF"} /\ e > c.pos
  BY <1>3, TextFoundIs
<1>4. CASE At(e) \notin NewlineChar \cup {"EOF"} /\ e = c.pos
  <2>1. TextFound(c, s, e) \in {Found("FSTRING_END", c, Advance(c, 1), <<>>, "pop"),
                                Found("{", c, Advance(c, 1), <<>>, "open"),
                                Found("INVALID", c, Advance(c, 1), <<c.pos + 1>>, "none")}
    BY <1>4, TextFoundIs
  <2>2. \/ TextFound(c, s, e).type = "FSTRING_END"
        \/ TextFound(c, s, e).type = "{"
        \/ TextFound(c, s, e).type = "INVALID"
    <3>1. Found("FSTRING_END", c, Advance(c, 1), <<>>, "pop").type = "FSTRING_END"
      BY <1>1, Zenon
    <3>2. Found("{", c, Advance(c, 1), <<>>, "open").type = "{"
      BY <1>1, Zenon
    <3>3. Found("INVALID", c, Advance(c, 1), <<c.pos + 1>>, "none").type = "INVALID"
      BY <1>1, Zenon
    <3> QED BY <2>1, <3>1, <3>2, <3>3, Zenon
  <2> QED BY <2>2, Zenon
<1>5. e > c.pos \/ e = c.pos
  OBVIOUS
<1> QED BY <1>2, <1>3, <1>4, <1>5, Zenon

\* And so is a segment of an f-string.
LEMMA TextDecoded ==
  ASSUME source \in Seq(STRING), NEW c, Right(c)
  PROVE  LET s == ScanFstringText(c)
         IN  /\ s.type \notin {"BYTES", "INT", "FLOAT"}
             /\ s.type = "STRING" => s.from = c /\ UnescapeImpl(c.pos, s.end, TRUE) = s.end
<1> DEFINE p   == c.pos
           s   == Body(p, TRUE, TRUE)
           bad == At(s) = Backslash
           e   == IF bad THEN Body(s + 1, FALSE, TRUE) ELSE s
           d   == Advance(c, e - p)
           r   == ScanFstringText(c)
<1>0. p \in Nat /\ Past \in Nat /\ p <= Past /\ p \in 0..Past
  BY RightFields
<1>5. r = TextFound(c, s, e)
  BY DEF ScanFstringText, TextFound
<1>1. Clear(p, s) /\ UnescapeImpl(p, s, TRUE) = s
  BY <1>0, BodyClear, BodyDecoded
<1> HIDE DEF s, r
<1>2. s \in Nat /\ p <= s /\ s <= Past
  BY <1>0, <1>1 DEF Clear
<1>3. \/ r.type \in {"INVALID", "FSTRING_END", "{"}
      \/ ~bad /\ r = Found("STRING", c, d, <<>>, "none")
  <2> HIDE DEF e
  <2> DEFINE type == IF At(s) = Backslash THEN "INVALID" ELSE "STRING"
  <2>0. e \in Nat /\ c.pos <= e
    <3>1. CASE bad
      <4>1. Printed(s)
        BY <3>1, PrintedIn
      <4>2. s < Past
        BY <1>2, <4>1, ClearOne
      <4>3. s + 1 \in 0..Past
        BY <1>0, <1>2, <4>2
      <4>4. Clear(s + 1, Body(s + 1, FALSE, TRUE))
        BY <4>3, BodyClear
      <4>5. e = Body(s + 1, FALSE, TRUE)
        BY <3>1 DEF e
      <4>6. e \in (s + 1)..Past
        BY <4>4, <4>5 DEF Clear
      <4> QED BY <1>0, <1>2, <4>6
    <3>2. CASE ~bad
      <4>1. e = s
        BY <3>2 DEF e
      <4> QED BY <1>2, <4>1
    <3> QED BY <3>1, <3>2
  <2>1. \/ TextFound(c, s, e).type \in {"INVALID", "FSTRING_END", "{"}
        \/ TextFound(c, s, e) = Found(type, c, Advance(c, e - c.pos), IF At(s) = Backslash THEN <<s>> ELSE <<>>, "none")
    BY <1>0, <2>0, TextFoundOne
  <2>2. CASE bad
    <3>1. type = "INVALID"
      BY <2>2
    <3>2. \A to, errs, does : Found(type, c, to, errs, does).type = "INVALID"
      BY <3>1 DEF Found
    <3> HIDE DEF type
    <3> QED BY <1>5, <2>1, <3>2, Zenon
  <2>3. CASE ~bad
    <3>1. type = "STRING" /\ (IF At(s) = Backslash THEN <<s>> ELSE <<>>) = <<>>
      BY <2>3
    <3> HIDE DEF type
    <3> QED BY <1>5, <2>1, <2>3, <3>1, Zenon DEF d
  <2> QED BY <2>2, <2>3
<1>4. ASSUME ~bad, r = Found("STRING", c, d, <<>>, "none")
      PROVE  r.type = "STRING" /\ r.from = c /\ UnescapeImpl(p, r.end, TRUE) = r.end
  <2>1. d = Advance(c, s - p)
    BY <1>4
  <2>2. d.pos = s
    <3>1. Advance(c, s - p).pos = p + (s - p)
      BY DEF Advance
    <3>2. \A x, y \in Nat : x + (y - x) = y
      OBVIOUS
    <3>3. p + (s - p) = s
      BY <1>0, <1>2, <3>2, Zenon
    <3> QED BY <2>1, <3>1, <3>3, Zenon
  <2> HIDE DEF d
  <2>3. r.type = "STRING" /\ r.from = c /\ r.end = s
    BY <1>4, <2>2 DEF Found
  <2> QED BY <1>1, <2>3
<1> QED BY <1>3, <1>4 DEF r

(************************* the bytes a number keeps *************************)

\* Which one of the elements of S the number a is, or would be.
Place(S, a) == Cardinality({b \in S : b < a}) + 1

LEMMA PlaceIs ==
  ASSUME NEW n \in Nat, NEW S \in SUBSET (0..n)
  PROVE  /\ Cardinality(S) \in Nat
         /\ \A a \in S : Place(S, a) \in 1..Cardinality(S)
         /\ \A a, c \in S : a < c => Place(S, a) < Place(S, c)
<1> DEFINE below(x) == {b \in S : b < x}
<1>0. \A b \in S : b \in Nat
  OBVIOUS
<1>1. IsFiniteSet(S) /\ Cardinality(S) \in Nat
  <2>1. IsFiniteSet(0..n)
    BY FS_Interval
  <2> QED BY <2>1, FS_Subset, FS_CardinalityType
<1>2. ASSUME NEW a \in S PROVE IsFiniteSet(below(a)) /\ Cardinality(below(a)) \in Nat /\ a \notin below(a)
  <2>1. below(a) \subseteq S
    OBVIOUS
  <2>2. a \notin below(a)
    BY <1>0, <1>2
  <2> HIDE DEF below
  <2> QED BY <1>1, <2>1, <2>2, FS_Subset, FS_CardinalityType
<1>3. ASSUME NEW a \in S, NEW T, IsFiniteSet(T), below(a) \subseteq T, a \in T
      PROVE  Cardinality(below(a)) < Cardinality(T)
  <2>1. IsFiniteSet(below(a)) /\ Cardinality(below(a)) \in Nat /\ a \notin below(a)
    BY <1>2
  <2>2. below(a) \cup {a} \subseteq T
    BY <1>3
  <2> HIDE DEF below
  <2>3. Cardinality(below(a) \cup {a}) = Cardinality(below(a)) + 1
    BY <2>1, FS_AddElement
  <2>4. Cardinality(below(a) \cup {a}) <= Cardinality(T) /\ Cardinality(T) \in Nat
    BY <1>3, <2>2, FS_Subset, FS_CardinalityType
  <2> QED BY <2>1, <2>3, <2>4
<1>4. ASSUME NEW a \in S PROVE Place(S, a) \in 1..Cardinality(S)
  <2>1. below(a) \subseteq S
    OBVIOUS
  <2>2. Place(S, a) = Cardinality(below(a)) + 1
    BY DEF Place
  <2> HIDE DEF below
  <2>3. Cardinality(below(a)) < Cardinality(S) /\ Cardinality(below(a)) \in Nat
    BY <1>1, <1>2, <1>3, <2>1
  <2> QED BY <1>1, <2>2, <2>3
<1>5. ASSUME NEW a \in S, NEW c \in S, a < c PROVE Place(S, a) < Place(S, c)
  <2>1. below(a) \subseteq below(c) /\ a \in below(c)
    <3>1. a \in Nat /\ c \in Nat /\ \A b \in S : b \in Nat
      BY <1>0
    <3>2. \A x \in Nat : x < a => x < c
      BY <1>5, <3>1
    <3> QED BY <1>5, <3>1, <3>2
  <2>2. Place(S, a) = Cardinality(below(a)) + 1 /\ Place(S, c) = Cardinality(below(c)) + 1
    BY DEF Place
  <2> HIDE DEF below
  <2>3. Cardinality(below(a)) < Cardinality(below(c)) /\ Cardinality(below(a)) \in Nat /\ Cardinality(below(c)) \in Nat
    BY <1>2, <1>3, <2>1
  <2> QED BY <2>2, <2>3
<1> QED BY <1>1, <1>4, <1>5

\* The elements of S, each in its place.
LEMMA KthIs ==
  ASSUME NEW n \in Nat, NEW S \in SUBSET (0..n)
  PROVE  /\ \A k \in 1..Cardinality(S) : Kth(S, k) \in S /\ Place(S, Kth(S, k)) = k
         /\ \A a \in S : Kth(S, Place(S, a)) = a
         /\ \A j, k \in 1..Cardinality(S) : j < k => Kth(S, j) < Kth(S, k)
<1>0. Cardinality(S) \in Nat /\ \A a \in S : a \in Nat
  <2>1. \A a \in S : a \in Nat
    OBVIOUS
  <2> QED BY <2>1, PlaceIs
<1>1. ASSUME NEW k \in 1..Cardinality(S) PROVE Kth(S, k) \in S /\ Place(S, Kth(S, k)) = k
  <2>1. \E a \in S : Cardinality({b \in S : b < a}) = k - 1
    BY KthElement
  <2>2. Kth(S, k) \in S /\ Cardinality({b \in S : b < Kth(S, k)}) = k - 1
    BY <2>1 DEF Kth
  <2>3. k - 1 + 1 = k
    BY <1>0
  <2> QED BY <2>2, <2>3 DEF Place
<1>2. ASSUME NEW a \in S, NEW c \in S, Place(S, a) = Place(S, c) PROVE a = c
  <2>1. ~(a < c) /\ ~(c < a)
    <3>1. Place(S, a) \in Nat
      BY <1>0, PlaceIs
    <3>2. a < c => Place(S, a) < Place(S, c)
      BY PlaceIs
    <3>3. c < a => Place(S, c) < Place(S, a)
      BY PlaceIs
    <3>4. ~(Place(S, a) < Place(S, a))
      BY <3>1
    <3> QED BY <1>2, <3>2, <3>3, <3>4
  <2> QED BY <1>0, <2>1
<1>3. ASSUME NEW a \in S PROVE Kth(S, Place(S, a)) = a
  <2>1. Place(S, a) \in 1..Cardinality(S)
    BY PlaceIs
  <2>2. Kth(S, Place(S, a)) \in S /\ Place(S, Kth(S, Place(S, a))) = Place(S, a)
    BY <1>1, <2>1
  <2> QED BY <1>2, <2>2
<1>4. ASSUME NEW j \in 1..Cardinality(S), NEW k \in 1..Cardinality(S), j < k PROVE Kth(S, j) < Kth(S, k)
  <2> DEFINE a == Kth(S, j)
             c == Kth(S, k)
  <2>1. a \in S /\ c \in S /\ Place(S, a) = j /\ Place(S, c) = k
    BY <1>1
  <2> HIDE DEF a, c
  <2>2. ~(c < a) /\ a # c
    <3>1. c < a => Place(S, c) < Place(S, a)
      BY <2>1, PlaceIs
    <3> QED BY <1>0, <1>4, <2>1, <3>1
  <2>3. a < c
    BY <1>0, <2>1, <2>2
  <2> QED BY <2>3 DEF a, c
<1> QED BY <1>1, <1>3, <1>4

Counts(i) == At(i) # "_"

\* The sequence s is the text from a up to b without its underscores; pos[k] is where its k-th byte stands.
Listed(s, pos, a, b) ==
  /\ Len(s) \in Nat
  /\ \A k \in 1..Len(s) : pos[k] \in a..(b - 1) /\ Counts(pos[k]) /\ s[k] = At(pos[k])
  /\ \A i \in a..(b - 1) : Counts(i) => \E k \in 1..Len(s) : pos[k] = i
  /\ \A j, k \in 1..Len(s) : j < k => pos[j] < pos[k]

LEMMA CleanListed ==
  ASSUME NEW t, t.start \in Nat, t.end \in Nat
  PROVE  \E pos : Listed(CleanNumber(t), pos, t.start, t.end)
<1> DEFINE a == t.start
           b == t.end
           kept == {i \in a..(b - 1) : Counts(i)}
           pos == [k \in 1..Cardinality(kept) |-> Kth(kept, k)]
           s == CleanNumber(t)
<1>1. kept \in SUBSET (0..b) /\ b \in Nat
  <2>1. \A x, y \in Nat : x..(y - 1) \subseteq 0..y
    OBVIOUS
  <2>2. a..(b - 1) \subseteq 0..b
    BY <2>1
  <2> QED BY <2>2
<1>2. s = [k \in 1..Cardinality(kept) |-> At(Kth(kept, k))]
  BY Zenon DEF CleanNumber, Counts
<1>3. kept \subseteq a..(b - 1) /\ \A i \in a..(b - 1) : i \in kept <=> Counts(i)
  OBVIOUS
<1> HIDE DEF kept, s
<1>4. /\ Cardinality(kept) \in Nat
      /\ \A i \in kept : Place(kept, i) \in 1..Cardinality(kept) /\ Kth(kept, Place(kept, i)) = i
      /\ \A k \in 1..Cardinality(kept) : Kth(kept, k) \in kept
      /\ \A j, k \in 1..Cardinality(kept) : j < k => Kth(kept, j) < Kth(kept, k)
  BY <1>1, PlaceIs, KthIs
<1>5. Len(s) = Cardinality(kept)
  BY <1>2, <1>4
<1>6. \A k \in 1..Len(s) : pos[k] = Kth(kept, k) /\ s[k] = At(pos[k])
  BY <1>2, <1>5
<1> HIDE DEF pos
<1>7. \A k \in 1..Len(s) : pos[k] \in a..(b - 1) /\ Counts(pos[k]) /\ s[k] = At(pos[k])
  BY <1>3, <1>4, <1>5, <1>6
<1>8. \A i \in a..(b - 1) : Counts(i) => \E k \in 1..Len(s) : pos[k] = i
  BY <1>3, <1>4, <1>5, <1>6
<1>9. \A j, k \in 1..Len(s) : j < k => pos[j] < pos[k]
  BY <1>4, <1>5, <1>6
<1>10. Listed(s, pos, a, b)
  BY <1>4, <1>5, <1>7, <1>8, <1>9 DEF Listed
<1> QED BY <1>10 DEF s

LEMMA FirstListed ==
  ASSUME NEW s, NEW pos, NEW a \in Nat, NEW b \in Nat, Listed(s, pos, a, b), a < b, Counts(a)
  PROVE  1 \in 1..Len(s) /\ pos[1] = a
<1>0. a \in a..(b - 1)
  OBVIOUS
<1>1. PICK k \in 1..Len(s) : pos[k] = a
  BY <1>0, Zenon DEF Listed
<1>2. Len(s) \in Nat
  BY Zenon DEF Listed
<1>3. 1 \in 1..Len(s)
  BY <1>1, <1>2
<1>4. pos[1] \in a..(b - 1) /\ (1 < k => pos[1] < pos[k])
  BY <1>3, Zenon DEF Listed
<1>5. ~(1 < k)
  BY <1>1, <1>4
<1>6. k = 1
  BY <1>1, <1>2, <1>5
<1> QED BY <1>1, <1>3, <1>6

LEMMA NextListed ==
  ASSUME NEW s, NEW pos, NEW a \in Nat, NEW b \in Nat, Listed(s, pos, a, b),
         NEW j \in 1..Len(s), NEW i \in Nat, pos[j] = i, i + 1 < b, Counts(i + 1)
  PROVE  j + 1 \in 1..Len(s) /\ pos[j + 1] = i + 1
<1>0. Len(s) \in Nat /\ pos[j] \in a..(b - 1)
  BY Zenon DEF Listed
<1>1. i + 1 \in a..(b - 1)
  BY <1>0
<1>2. PICK k \in 1..Len(s) : pos[k] = i + 1
  BY <1>1, Zenon DEF Listed
<1>3. (k < j => pos[k] < pos[j]) /\ (j < k => pos[j] < pos[k])
  BY Zenon DEF Listed
<1>4. j < k
  <2>1. pos[k] # pos[j] /\ ~(pos[k] < pos[j])
    BY <1>2
  <2>2. k # j /\ ~(k < j)
    BY <1>3, <2>1
  <2> QED BY <1>0, <2>2
<1>5. j + 1 \in 1..Len(s) /\ j < j + 1
  BY <1>0, <1>4
<1>6. pos[j] < pos[j + 1] /\ (j + 1 < k => pos[j + 1] < pos[k]) /\ pos[j + 1] \in a..(b - 1)
  BY <1>5, Zenon DEF Listed
<1>7. ~(j + 1 < k)
  <2>1. pos[j + 1] \in Int /\ i < pos[j + 1]
    BY <1>6
  <2>2. ~(pos[j + 1] < i + 1)
    BY <2>1
  <2> QED BY <1>2, <1>6, <2>2
<1>8. k = j + 1
  BY <1>0, <1>4, <1>7
<1> QED BY <1>2, <1>5, <1>8

IsDigit(i) == At(i) \in Digit
IsDot(i)   == At(i) = "."
IsExp(i)   == At(i) \in {"e", "E"}
IsSign(i)  == At(i) \in {"+", "-"}

LEMMA NumberBytes ==
  ASSUME NEW i
  PROVE  IsDigit(i) \/ IsDot(i) \/ IsExp(i) \/ IsSign(i) => Counts(i)
BY Zenon DEF IsDigit, IsDot, IsExp, IsSign, Counts, Digit

\* The parts of a number with a point or an exponent.
Mantissa(p, m) ==
  /\ p < m
  /\ \A i \in p..(m - 1) : IsDigit(i) \/ IsDot(i) \/ ~Counts(i)
  /\ \E i \in p..(m - 1) : IsDigit(i)
  /\ \A i, j \in p..(m - 1) : IsDot(i) /\ IsDot(j) => i = j
  /\ Counts(m - 1)
Exponent(m, e) ==
  /\ IsExp(m)
  /\ \E d \in {m + 1, m + 2} : /\ d < e /\ IsDigit(d) /\ \A i \in d..(e - 1) : IsDigit(i) \/ ~Counts(i)
                               /\ d = m + 2 => IsSign(m + 1)
Floating(p, e) == \E m \in Nat : Mantissa(p, m) /\ m <= e /\ (m = e \/ Exponent(m, e))

LEMMA ListedIs ==
  ASSUME NEW s, NEW pos, NEW a \in Nat, NEW b \in Nat, Listed(s, pos, a, b)
  PROVE  /\ Len(s) \in Nat
         /\ \A k \in 1..Len(s) : /\ pos[k] \in a..(b - 1) /\ pos[k] \in Int /\ a <= pos[k] /\ pos[k] < b
                                 /\ Counts(pos[k]) /\ s[k] = At(pos[k])
         /\ \A j, k \in 1..Len(s) : (j < k <=> pos[j] < pos[k]) /\ (j = k <=> pos[j] = pos[k])
<1>1. /\ Len(s) \in Nat
      /\ \A k \in 1..Len(s) : pos[k] \in a..(b - 1) /\ Counts(pos[k]) /\ s[k] = At(pos[k])
      /\ \A j, k \in 1..Len(s) : j < k => pos[j] < pos[k]
  BY DEF Listed
<1>2. \A k \in 1..Len(s) : pos[k] \in Int /\ a <= pos[k] /\ pos[k] < b
  BY <1>1
<1>3. ASSUME NEW j \in 1..Len(s), NEW k \in 1..Len(s)
      PROVE  (j < k <=> pos[j] < pos[k]) /\ (j = k <=> pos[j] = pos[k])
  <2>1. pos[j] \in Int /\ pos[k] \in Int
    BY <1>2
  <2>2. j < k \/ j = k \/ k < j
    BY <1>1
  <2>3. (j < k => pos[j] < pos[k]) /\ (k < j => pos[k] < pos[j])
    BY <1>1
  <2> QED BY <1>1, <2>1, <2>2, <2>3
<1> QED BY <1>1, <1>2, <1>3

LEMMA FloatingParses ==
  ASSUME NEW p \in Nat, NEW e \in Nat, Floating(p, e), NEW s, NEW pos, Listed(s, pos, p, e)
  PROVE  ParseFloat(s)
<1>0. /\ Len(s) \in Nat
      /\ \A k \in 1..Len(s) : /\ pos[k] \in p..(e - 1) /\ pos[k] \in Int /\ p <= pos[k] /\ pos[k] < e
                              /\ Counts(pos[k]) /\ s[k] = At(pos[k])
      /\ \A j, k \in 1..Len(s) : (j < k <=> pos[j] < pos[k]) /\ (j = k <=> pos[j] = pos[k])
  BY ListedIs
<1>1. PICK m \in Nat : Mantissa(p, m) /\ m <= e /\ (m = e \/ Exponent(m, e))
  BY DEF Floating
<1>2. /\ p < m
      /\ \A i \in p..(m - 1) : IsDigit(i) \/ IsDot(i) \/ ~Counts(i)
      /\ \A i, j \in p..(m - 1) : IsDot(i) /\ IsDot(j) => i = j
      /\ Counts(m - 1)
  BY <1>1 DEF Mantissa
<1>3. PICK n \in 1..Len(s) : pos[n] = m - 1
  <2>1. m - 1 \in p..(e - 1)
    BY <1>1, <1>2
  <2> QED BY <1>2, <2>1 DEF Listed
<1>4. \A k \in 1..n : k \in 1..Len(s) /\ pos[k] \in p..(m - 1) /\ s[k] = At(pos[k]) /\ Counts(pos[k])
  <2>1. ASSUME NEW k \in 1..n PROVE k \in 1..Len(s) /\ pos[k] \in p..(m - 1)
    <3>1. k \in 1..Len(s) /\ (k < n \/ k = n)
      BY <1>0
    <3>2. pos[k] < pos[n] \/ pos[k] = pos[n]
      BY <1>0, <3>1
    <3>3. pos[k] \in Int /\ p <= pos[k]
      BY <1>0, <3>1
    <3> QED BY <1>3, <3>1, <3>2, <3>3
  <2> QED BY <1>0, <2>1
<1>5. \A k \in 1..n : IsDigit(pos[k]) \/ IsDot(pos[k])
  BY <1>2, <1>4
<1>6. \E k \in 1..n : IsDigit(pos[k])
  <2>1. PICK i \in p..(m - 1) : IsDigit(i)
    BY <1>1 DEF Mantissa
  <2>2. Counts(i) /\ i \in p..(e - 1)
    BY <1>1, <2>1, NumberBytes
  <2>3. PICK k \in 1..Len(s) : pos[k] = i
    BY <2>2 DEF Listed
  <2>4. k < n \/ k = n
    <3>1. pos[k] < pos[n] \/ pos[k] = pos[n]
      BY <1>3, <2>3
    <3> QED BY <1>0, <3>1
  <2>5. k \in 1..n
    BY <1>0, <2>4
  <2> QED BY <2>1, <2>3, <2>5
<1>7. \A j, k \in 1..n : IsDot(pos[j]) /\ IsDot(pos[k]) => j = k
  <2>1. ASSUME NEW j \in 1..n, NEW k \in 1..n, IsDot(pos[j]), IsDot(pos[k]) PROVE j = k
    <3>1. pos[j] = pos[k]
      BY <1>2, <1>4, <2>1
    <3> QED BY <1>0, <1>4, <3>1
  <2> QED BY <2>1
<1>8. \/ n = Len(s)
      \/ /\ n + 1 \in 1..Len(s) /\ IsExp(pos[n + 1])
         /\ \E d \in {n + 2, n + 3} : /\ d <= Len(s) /\ \A i \in d..Len(s) : i \in 1..Len(s) /\ IsDigit(pos[i])
                                      /\ d = n + 3 => n + 2 \in 1..Len(s) /\ IsSign(pos[n + 2])
  <2>1. CASE m = e
    <3>1. n = Len(s)
      <4>1. Len(s) \in 1..Len(s)
        BY <1>0
      <4>2. ~(pos[n] < pos[Len(s)])
        BY <1>0, <1>3, <2>1, <4>1
      <4>3. ~(n < Len(s))
        BY <1>0, <4>1, <4>2
      <4> QED BY <1>0, <4>3
    <3> QED BY <3>1
  <2>2. CASE Exponent(m, e)
    <3>1. IsExp(m)
      BY <2>2 DEF Exponent
    <3>2. PICK d \in {m + 1, m + 2} : /\ d < e /\ IsDigit(d) /\ \A i \in d..(e - 1) : IsDigit(i) \/ ~Counts(i)
                                      /\ d = m + 2 => IsSign(m + 1)
      BY <2>2 DEF Exponent
    <3>3. Counts(m) /\ Counts(d) /\ (IsSign(m + 1) => Counts(m + 1))
      BY <3>1, <3>2, NumberBytes
    <3>4. n + 1 \in 1..Len(s) /\ pos[n + 1] = m
      <4>1. m - 1 \in Nat /\ m - 1 + 1 = m /\ m < e
        BY <1>1, <1>2, <3>2
      <4> QED BY <1>3, <3>3, <4>1, NextListed
    <3>5. ASSUME NEW k \in 1..Len(s), pos[k] = d
          PROVE  \A i \in k..Len(s) : i \in 1..Len(s) /\ IsDigit(pos[i])
      <4>1. ASSUME NEW i \in k..Len(s) PROVE i \in 1..Len(s) /\ IsDigit(pos[i])
        <5>1. i \in 1..Len(s) /\ (k < i \/ k = i)
          BY <1>0
        <5>2. pos[k] < pos[i] \/ pos[k] = pos[i]
          BY <1>0, <5>1
        <5>3. pos[i] \in d..(e - 1) /\ Counts(pos[i])
          BY <1>0, <3>2, <3>5, <5>1, <5>2
        <5> QED BY <3>2, <5>1, <5>3
      <4> QED BY <4>1
    <3>6. CASE d = m + 1
      <4>1. n + 2 \in 1..Len(s) /\ pos[n + 2] = d
        <5>1. n + 1 + 1 \in 1..Len(s) /\ pos[n + 1 + 1] = m + 1
          BY <3>2, <3>3, <3>4, <3>6, NextListed
        <5>2. n + 1 + 1 = n + 2
          BY <1>0
        <5> QED BY <3>6, <5>1, <5>2
      <4>2. n + 2 <= Len(s) /\ n + 2 # n + 3
        BY <1>0, <4>1
      <4>3. \A i \in (n + 2)..Len(s) : i \in 1..Len(s) /\ IsDigit(pos[i])
        BY <3>5, <4>1
      <4> QED BY <3>1, <3>4, <4>2, <4>3
    <3>7. CASE d = m + 2
      <4>0. IsSign(m + 1) /\ Counts(m + 1) /\ m + 1 \in Nat /\ m + 1 < e /\ m + 1 + 1 = d
        BY <3>2, <3>3, <3>7
      <4>1. n + 2 \in 1..Len(s) /\ pos[n + 2] = m + 1
        <5>1. n + 1 + 1 \in 1..Len(s) /\ pos[n + 1 + 1] = m + 1
          BY <3>4, <4>0, NextListed
        <5>2. n + 1 + 1 = n + 2
          BY <1>0
        <5> QED BY <5>1, <5>2
      <4>2. n + 3 \in 1..Len(s) /\ pos[n + 3] = d
        <5>1. n + 2 + 1 \in 1..Len(s) /\ pos[n + 2 + 1] = m + 1 + 1
          BY <3>2, <3>3, <4>0, <4>1, NextListed
        <5>2. n + 2 + 1 = n + 3
          BY <1>0
        <5> QED BY <4>0, <5>1, <5>2
      <4>3. n + 3 <= Len(s)
        BY <1>0, <4>2
      <4>4. \A i \in (n + 3)..Len(s) : i \in 1..Len(s) /\ IsDigit(pos[i])
        BY <3>5, <4>2
      <4> QED BY <3>1, <3>4, <4>0, <4>1, <4>3, <4>4
    <3> QED BY <3>2, <3>6, <3>7
  <2> QED BY <1>1, <2>1, <2>2
<1>9. /\ \A i \in 1..n : s[i] \in Digit \cup {"."}
      /\ \E i \in 1..n : s[i] \in Digit
      /\ \A i, j \in 1..n : s[i] = "." /\ s[j] = "." => i = j
  BY <1>4, <1>5, <1>6, <1>7, Zenon DEF IsDigit, IsDot
<1>10. \/ n = Len(s)
       \/ /\ s[n + 1] \in {"e", "E"}
          /\ \E d \in {n + 2, n + 3} : /\ d <= Len(s) /\ \A i \in d..Len(s) : s[i] \in Digit
                                       /\ d = n + 3 => s[n + 2] \in {"+", "-"}
  <2>1. \A k \in 1..Len(s) : s[k] = At(pos[k])
    BY <1>0
  <2> QED BY <1>8, <2>1, Zenon DEF IsDigit, IsExp, IsSign
<1> QED BY <1>9, <1>10, Zenon DEF ParseFloat

(********************** decimal and prefixed numerals ***********************)

Based(base, i) == At(i) \in BaseDigits(base)

LEMMA BasedIs ==
  /\ \A base, i : Based(base, i) => Counts(i)
  /\ \A base : "EOF" \notin BaseDigits(base) \cup {"_"}
  /\ \A i : Based(10, i) <=> IsDigit(i)
<1>1. "_" \notin HexDigit /\ "_" \notin Digit /\ "EOF" \notin HexDigit /\ "EOF" \notin Digit /\ "EOF" # "_"
  BY Zenon DEF HexDigit, Digit
<1>2. ASSUME NEW base PROVE BaseDigits(base) \subseteq HexDigit \cup Digit
  <2>0. {"0", "1"} \subseteq Digit
    BY DEF Digit
  <2>1. CASE base = 16
    BY <2>1 DEF BaseDigits
  <2>2. CASE base = 2
    BY <2>0, <2>2 DEF BaseDigits
  <2>3. CASE base = 10
    BY <2>3 DEF BaseDigits
  <2>4. CASE base # 16 /\ base # 2 /\ base # 10
    BY <2>4 DEF BaseDigits
  <2> QED BY <2>1, <2>2, <2>3, <2>4
<1>3. \A base, i : Based(base, i) => Counts(i)
  BY <1>1, <1>2, Zenon DEF Based, Counts
<1>4. \A base : "EOF" \notin BaseDigits(base) \cup {"_"}
  BY <1>1, <1>2, Zenon
<1>5. BaseDigits(10) = Digit
  BY DEF BaseDigits
<1> QED BY <1>3, <1>4, <1>5, Zenon DEF Based, IsDigit

\* What a run of digits that was read without a mistake is made of.
LEMMA DigitsRead ==
  ASSUME source \in Seq(STRING), NEW p \in Nat, p <= Past, NEW base
  PROVE  LET r == DigitsEnd(p, base)
         IN  /\ r \in Nat /\ p <= r /\ r <= Past
             /\ \A i \in p..(r - 1) : Based(base, i) \/ ~Counts(i)
             /\ \A exp : ScanDigits(p, base, exp) /\ r # p => Based(base, p) /\ Based(base, r - 1)
<1> DEFINE r == DigitsEnd(p, base)
<1>0. Past \in Nat
  BY TextPast
<1>1. r = Run(p, BaseDigits(base) \cup {"_"})
  BY DEF DigitsEnd
<1> HIDE DEF r
<1>2. r \in p..Past
  BY <1>1, BasedIs, RunStops
<1>3. r \in Nat /\ p <= r /\ r <= Past
  BY <1>0, <1>2
<1>4. \A i \in p..(r - 1) : Based(base, i) \/ ~Counts(i)
  <2>1. \A i \in p..(r - 1) : At(i) \in BaseDigits(base) \cup {"_"}
    BY <1>1, BasedIs, RunStops
  <2> QED BY <2>1, Zenon DEF Based, Counts
<1>5. ASSUME NEW exp, ScanDigits(p, base, exp), r # p PROVE Based(base, p) /\ Based(base, r - 1)
  <2>1. \A i \in p..(r - 1) : ~Counts(i) => i > p /\ i < r - 1
    BY <1>5, Zenon DEF ScanDigits, Counts, r
  <2>2. p \in p..(r - 1) /\ r - 1 \in p..(r - 1)
    BY <1>3, <1>5
  <2>3. ~(p > p) /\ ~(r - 1 < r - 1)
    BY <1>3
  <2>4. Counts(p) /\ Counts(r - 1)
    BY <2>1, <2>2, <2>3, Zenon
  <2> QED BY <1>4, <2>2, <2>4, Zenon
<1> QED BY <1>3, <1>4, <1>5 DEF r

\* The forms of an integer: decimal, and one with its base before it.
Decimal(p, e) == p < e /\ IsDigit(p) /\ \A i \in p..(e - 1) : IsDigit(i) \/ ~Counts(i)
BaseMark(i) == At(i) \in {"x", "X", "o", "O", "b", "B"}
Zero(i) == At(i) = "0"
Prefixed(p, e) ==
  /\ Zero(p) /\ BaseMark(p + 1) /\ Base(p) # 10
  /\ \E q \in {p + 2, p + 3} : /\ q < e /\ Based(Base(p), q) /\ (q = p + 3 => ~Counts(p + 2))
                               /\ \A i \in q..(e - 1) : Based(Base(p), i) \/ ~Counts(i)

LEMMA NotEmpty == ASSUME NEW s, Len(s) \in Nat, 1 \in 1..Len(s) PROVE s # <<>>
<1>1. Len(<<>>) = 0
  OBVIOUS
<1> QED BY <1>1

LEMMA DecimalParses ==
  ASSUME NEW p \in Nat, NEW e \in Nat, Decimal(p, e), NEW s, NEW pos, Listed(s, pos, p, e)
  PROVE  ParseInt(s)
<1>0. /\ Len(s) \in Nat
      /\ \A k \in 1..Len(s) : pos[k] \in p..(e - 1) /\ Counts(pos[k]) /\ s[k] = At(pos[k])
  BY ListedIs
<1>1. p < e /\ Counts(p) /\ \A i \in p..(e - 1) : IsDigit(i) \/ ~Counts(i)
  BY NumberBytes DEF Decimal
<1>2. 1 \in 1..Len(s)
  BY <1>1, FirstListed
<1>3. s # <<>>
  BY <1>0, <1>2, NotEmpty
<1>4. \A k \in 1..Len(s) : s[k] \in Digit
  BY <1>0, <1>1, Zenon DEF IsDigit
<1>5. Digits(s)
  BY <1>3, <1>4 DEF Digits
<1>6. ~(Len(s) > 1 /\ s[1] = "0" /\ s[2] \in {"x", "X", "o", "O", "b", "B"})
  <2>1. Len(s) > 1 => 2 \in 1..Len(s)
    BY <1>0
  <2>2. {"x", "X", "o", "O", "b", "B"} \cap Digit = {}
    BY DEF Digit
  <2> QED BY <1>4, <2>1, <2>2
<1> QED BY <1>5, <1>6 DEF ParseInt

LEMMA PrefixedParses ==
  ASSUME NEW p \in Nat, NEW e \in Nat, Prefixed(p, e), NEW s, NEW pos, Listed(s, pos, p, e)
  PROVE  ParseInt(s)
<1>0. /\ Len(s) \in Nat
      /\ \A k \in 1..Len(s) : /\ pos[k] \in p..(e - 1) /\ pos[k] \in Int /\ p <= pos[k] /\ pos[k] < e
                              /\ Counts(pos[k]) /\ s[k] = At(pos[k])
      /\ \A j, k \in 1..Len(s) : (j < k <=> pos[j] < pos[k]) /\ (j = k <=> pos[j] = pos[k])
  BY ListedIs
<1>1. Zero(p) /\ BaseMark(p + 1)
  BY DEF Prefixed
<1>2. PICK q \in {p + 2, p + 3} : /\ q < e /\ Based(Base(p), q) /\ (q = p + 3 => ~Counts(p + 2))
                                  /\ \A i \in q..(e - 1) : Based(Base(p), i) \/ ~Counts(i)
  BY DEF Prefixed
<1>3. Counts(p) /\ Counts(p + 1) /\ Counts(q)
  <2>1. Counts(p) /\ Counts(p + 1)
    BY <1>1, Zenon DEF Zero, BaseMark, Counts
  <2> QED BY <1>2, <2>1, BasedIs
<1>4. 1 \in 1..Len(s) /\ pos[1] = p
  <2>1. p < e
    BY <1>2
  <2> QED BY <1>3, <2>1, FirstListed
<1>5. 2 \in 1..Len(s) /\ pos[2] = p + 1
  <2>1. p + 1 < e
    BY <1>2
  <2>2. 1 + 1 \in 1..Len(s) /\ pos[1 + 1] = p + 1
    BY <1>3, <1>4, <2>1, NextListed
  <2> QED BY <2>2
<1>6. Len(s) > 2
  <2>1. q \in p..(e - 1)
    BY <1>2
  <2>2. PICK k \in 1..Len(s) : pos[k] = q
    BY <1>3, <2>1 DEF Listed
  <2>3. 2 < k
    <3>1. pos[2] < pos[k]
      BY <1>2, <1>5, <2>2
    <3> QED BY <1>0, <1>5, <3>1
  <2> QED BY <1>0, <2>3
<1>7. ASSUME NEW k \in 3..Len(s) PROVE k \in 1..Len(s) /\ Based(Base(p), pos[k])
  <2>1. k \in 1..Len(s) /\ 2 < k
    OBVIOUS
  <2>2. pos[2] < pos[k]
    BY <1>0, <1>5, <2>1
  <2>3. pos[k] \in (p + 2)..(e - 1) /\ Counts(pos[k])
    BY <1>0, <1>5, <2>1, <2>2
  <2>4. pos[k] \in q..(e - 1)
    <3>1. q = p + 3 => pos[k] # p + 2
      BY <1>2, <2>3
    <3> QED BY <1>2, <2>3, <3>1
  <2> QED BY <1>2, <2>1, <2>3, <2>4
<1> DEFINE base == CASE s[2] \in {"x", "X"} -> 16 [] s[2] \in {"o", "O"} -> 8 [] OTHER -> 2
<1>8. base = Base(p)
  <2>1. s[2] = At(p + 1)
    BY <1>0, <1>5
  <2>2. Base(p) = CASE At(p + 1) \in {"x", "X"} -> 16 [] At(p + 1) \in {"o", "O"} -> 8
                    [] At(p + 1) \in {"b", "B"} -> 2 [] OTHER -> 10
    BY <1>1 DEF Base, Zero
  <2>3. At(p + 1) \in {"x", "X"} \/ At(p + 1) \in {"o", "O"} \/ At(p + 1) \in {"b", "B"}
    BY <1>1 DEF BaseMark
  <2>4. CASE At(p + 1) \in {"x", "X"}
    <3>1. At(p + 1) \notin {"o", "O"} /\ At(p + 1) \notin {"b", "B"}
      BY <2>4
    <3> QED BY <2>1, <2>2, <2>4, <3>1
  <2>5. CASE At(p + 1) \in {"o", "O"}
    <3>1. At(p + 1) \notin {"x", "X"} /\ At(p + 1) \notin {"b", "B"}
      BY <2>5
    <3> QED BY <2>1, <2>2, <2>5, <3>1
  <2>6. CASE At(p + 1) \in {"b", "B"}
    <3>1. At(p + 1) \notin {"x", "X"} /\ At(p + 1) \notin {"o", "O"}
      BY <2>6
    <3> QED BY <2>1, <2>2, <2>6, <3>1
  <2> QED BY <2>3, <2>4, <2>5, <2>6
<1> HIDE DEF base
<1>9. \A i \in 3..Len(s) : s[i] \in BaseDigits(base)
  BY <1>0, <1>7, <1>8 DEF Based
<1>10. s[1] = "0" /\ s[2] \in {"x", "X", "o", "O", "b", "B"} /\ Len(s) > 1
  <2>1. s[1] = At(p) /\ s[2] = At(p + 1)
    BY <1>0, <1>4, <1>5
  <2> QED BY <1>0, <1>1, <1>6, <2>1 DEF Zero, BaseMark
<1> QED BY <1>6, <1>9, <1>10 DEF ParseInt, base

LEMMA GoodFields ==
  ASSUME source \in Seq(STRING), NEW c, Right(c), NEW q \in Nat, NEW type
  PROVE  Good(type, c, q).type = type /\ Good(type, c, q).from = c /\ Good(type, c, q).end = q
<1>1. c.pos \in Nat
  BY RightFields
<1>2. Good(type, c, q).type = type /\ Good(type, c, q).from = c /\ Good(type, c, q).end = c.pos + (q - c.pos)
  BY DEF Good, Found, Advance
<1> QED BY <1>1, <1>2

LEMMA BadIs == ASSUME NEW c, NEW q PROVE Bad(c, q).type = "INVALID"
BY DEF Bad, Found

LEMMA NumberPrinted ==
  ASSUME source \in Seq(STRING), NEW i \in Nat, IsDigit(i) \/ IsDot(i) \/ IsExp(i) \/ IsSign(i)
  PROVE  i < Past
<1>1. {"e", "E"} \subseteq IdentContinue /\ Digit \subseteq IdentContinue
  BY DEF IdentContinue, IdentStart, Letter
<1>2. Printed(i)
  BY <1>1, PrintedIn DEF IsDigit, IsDot, IsExp, IsSign
<1> QED BY <1>2, ClearOne

\* The exponent, when there is one, and it has no mistake.
LEMMA ExponentRead ==
  ASSUME source \in Seq(STRING), NEW c, NEW r \in Nat, NEW type
  PROVE  LET f == ScanExponent(c, r, type)
         IN  \/ f = Good(type, c, r)
             \/ f.type = "INVALID"
             \/ \E e \in Nat : f = Good("FLOAT", c, e) /\ r < e /\ Exponent(r, e)
<1> DEFINE f == ScanExponent(c, r, type)
           t == IF At(r + 1) \in {"+", "-"} THEN r + 2 ELSE r + 1
           e == DigitsEnd(t, 10)
<1>0. Past \in Nat
  BY TextPast
<1>1. CASE ~IsExp(r)
  BY <1>1 DEF ScanExponent, IsExp
<1>2. CASE IsExp(r)
  <2>1. f = IF ScanDigits(t, 10, FALSE) /\ e > t THEN Good("FLOAT", c, e) ELSE Bad(c, Run(t, IdentContinue))
    BY <1>2, Zenon DEF ScanExponent, IsExp
  <2>2. t \in {r + 1, r + 2} /\ (t = r + 2 => IsSign(r + 1))
    <3>1. CASE IsSign(r + 1)
      <4>1. t = r + 2
        BY <3>1, Zenon DEF IsSign
      <4> HIDE DEF t
      <4> QED BY <3>1, <4>1
    <3>2. CASE ~IsSign(r + 1)
      <4>1. t = r + 1
        BY <3>2, Zenon DEF IsSign
      <4> HIDE DEF t
      <4> QED BY <4>1
    <3> QED BY <3>1, <3>2
  <2> HIDE DEF t, f
  <2>3. t \in Nat /\ t <= Past
    <3>1. r < Past
      BY <1>2, NumberPrinted
    <3>2. IsSign(r + 1) => r + 1 < Past
      <4>1. r + 1 \in Nat
        OBVIOUS
      <4> QED BY <4>1, NumberPrinted
    <3> QED BY <1>0, <2>2, <3>1, <3>2
  <2>4. CASE ScanDigits(t, 10, FALSE) /\ e > t
    <3>1. /\ e \in Nat /\ t <= e /\ \A i \in t..(e - 1) : Based(10, i) \/ ~Counts(i)
          /\ ScanDigits(t, 10, FALSE) /\ e # t => Based(10, t)
      BY <2>3, DigitsRead
    <3> HIDE DEF e
    <3>2. e # t
      BY <2>3, <2>4, <3>1
    <3>3. IsDigit(t) /\ \A i \in t..(e - 1) : IsDigit(i) \/ ~Counts(i)
      BY <2>4, <3>1, <3>2, BasedIs
    <3>4. t < e /\ r < e
      BY <2>2, <2>4, <3>1
    <3>5. Exponent(r, e)
      BY <1>2, <2>2, <3>3, <3>4 DEF Exponent
    <3>6. f = Good("FLOAT", c, e)
      BY <2>1, <2>4
    <3> QED BY <3>1, <3>4, <3>5, <3>6 DEF f
  <2>5. CASE ~(ScanDigits(t, 10, FALSE) /\ e > t)
    <3>1. f = Bad(c, Run(t, IdentContinue))
      BY <2>1, <2>5
    <3> QED BY <3>1, BadIs DEF f
  <2> QED BY <2>4, <2>5
<1> QED BY <1>1, <1>2

\* What is found of a number from p on: nothing, or a token that ends behind a number of its type.
Numeral(c, f) ==
  \/ f.type = "INVALID"
  \/ /\ f.from = c /\ f.end \in Nat
     /\ \/ f.type = "INT" /\ (Decimal(c.pos, f.end) \/ Prefixed(c.pos, f.end))
        \/ f.type = "FLOAT" /\ Floating(c.pos, f.end)

LEMMA FloatNumeral ==
  ASSUME source \in Seq(STRING), NEW c, Right(c), NEW r \in Nat, Mantissa(c.pos, r)
  PROVE  Numeral(c, ScanExponent(c, r, "FLOAT"))
<1> DEFINE f == ScanExponent(c, r, "FLOAT")
<1>1. \/ f = Good("FLOAT", c, r)
      \/ f.type = "INVALID"
      \/ \E e \in Nat : f = Good("FLOAT", c, e) /\ r < e /\ Exponent(r, e)
  BY ExponentRead
<1> HIDE DEF f
<1>2. CASE f = Good("FLOAT", c, r)
  <2>1. f.type = "FLOAT" /\ f.from = c /\ f.end = r
    BY <1>2, GoodFields
  <2>2. Floating(c.pos, r)
    BY DEF Floating
  <2> QED BY <2>1, <2>2 DEF Numeral, f
<1>3. CASE f.type = "INVALID"
  BY <1>3 DEF Numeral, f
<1>4. ASSUME NEW e \in Nat, f = Good("FLOAT", c, e), r < e, Exponent(r, e) PROVE Numeral(c, f)
  <2>1. f.type = "FLOAT" /\ f.from = c /\ f.end = e
    BY <1>4, GoodFields
  <2>2. Floating(c.pos, e)
    BY <1>4 DEF Floating
  <2> QED BY <2>1, <2>2 DEF Numeral
<1> QED BY <1>1, <1>2, <1>3, <1>4 DEF f

\* The digits that follow a point at q - 1.
LEMMA FractionNumeral ==
  ASSUME source \in Seq(STRING), NEW c, Right(c), NEW q \in Nat, c.pos < q, IsDot(q - 1), IsDigit(q),
         \A i \in c.pos..(q - 2) : IsDigit(i) \/ ~Counts(i)
  PROVE  Numeral(c, ScanFraction(c, q))
<1> DEFINE p == c.pos
           r == DigitsEnd(q, 10)
<1>0. p \in Nat /\ Past \in Nat /\ q <= Past
  <2>1. q < Past
    BY NumberPrinted
  <2> QED BY <2>1, RightFields
<1>1. /\ r \in Nat /\ q <= r
      /\ \A i \in q..(r - 1) : Based(10, i) \/ ~Counts(i)
      /\ ScanDigits(q, 10, TRUE) /\ r # q => Based(10, r - 1)
  BY <1>0, DigitsRead
<1>2. r # q
  <2> DEFINE set == BaseDigits(10) \cup {"_"}
  <2>1. r = Run(q, set)
    BY Zenon DEF DigitsEnd
  <2>2. At(q) \in set
    <3>1. At(q) \in BaseDigits(10)
      BY BasedIs DEF Based
    <3> QED BY <3>1, Zenon
  <2>3. "EOF" \notin set
    BY BasedIs
  <2> HIDE DEF set, r
  <2>4. At(Run(q, set)) \notin set
    BY <1>0, <2>3, RunStops
  <2> QED BY <2>1, <2>2, <2>4, Zenon
<1>3. ScanFraction(c, q) = IF ScanDigits(q, 10, TRUE) THEN ScanExponent(c, r, "FLOAT") ELSE Bad(c, Run(q, IdentContinue))
  BY DEF ScanFraction
<1> HIDE DEF r
<1>4. CASE ScanDigits(q, 10, TRUE)
  <2>1. \A i \in q..(r - 1) : IsDigit(i) \/ ~Counts(i)
    BY <1>1, BasedIs
  <2>2. \A i \in p..(r - 1) : i = q - 1 \/ IsDigit(i) \/ ~Counts(i)
    <3>1. \A i \in p..(r - 1) : i = q - 1 \/ i \in p..(q - 2) \/ i \in q..(r - 1)
      BY <1>0, <1>1
    <3> QED BY <2>1, <3>1
  <2>3. \A i : IsDigit(i) \/ ~Counts(i) => ~IsDot(i)
    <3>1. "." \notin Digit /\ "." # "_"
      BY Zenon DEF Digit
    <3> QED BY <3>1, Zenon DEF IsDigit, IsDot, Counts
  <2>4. Mantissa(p, r)
    <3>1. p < r /\ q \in p..(r - 1)
      BY <1>0, <1>1, <1>2
    <3>2. Counts(r - 1)
      BY <1>1, <1>2, <1>4, BasedIs
    <3>3. \A i, j \in p..(r - 1) : IsDot(i) /\ IsDot(j) => i = j
      BY <2>2, <2>3
    <3>4. \A i \in p..(r - 1) : IsDigit(i) \/ IsDot(i) \/ ~Counts(i)
      BY <2>2
    <3> QED BY <3>1, <3>2, <3>3, <3>4 DEF Mantissa
  <2> QED BY <1>1, <1>3, <1>4, <2>4, FloatNumeral
<1>5. CASE ~ScanDigits(q, 10, TRUE)
  BY <1>3, <1>5, BadIs DEF Numeral
<1> QED BY <1>4, <1>5

LEMMA MarkPrinted ==
  ASSUME source \in Seq(STRING), NEW i \in Nat, BaseMark(i) \/ ~Counts(i)
  PROVE  i < Past
<1>1. {"x", "X", "o", "O", "b", "B"} \subseteq IdentContinue
  BY DEF IdentContinue, IdentStart, Letter
<1>2. "_" \in IdentContinue
  BY Zenon DEF IdentContinue, IdentStart
<1>3. ~Counts(i) => At(i) \in IdentContinue
  BY <1>2, Zenon DEF Counts
<1>4. Printed(i)
  BY <1>1, <1>3, PrintedIn DEF BaseMark
<1> QED BY <1>4, ClearOne

LEMMA NumberRead ==
  ASSUME source \in Seq(STRING), NEW c, Right(c), IsDigit(c.pos) \/ (IsDot(c.pos) /\ IsDigit(c.pos + 1))
  PROVE  Numeral(c, ScanNumber(c))
<1> DEFINE p == c.pos
           b == Base(p)
           q == IF b = 10 THEN p ELSE IF ~Counts(p + 2) THEN p + 3 ELSE p + 2
           r == DigitsEnd(q, b)
           f == ScanNumber(c)
<1>0. p \in Nat /\ Past \in Nat /\ p <= Past
  BY RightFields
<1>1. CASE IsDot(p)
  <2>1. ~IsDigit(p)
    <3>1. "." \notin Digit
      BY Zenon DEF Digit
    <3> QED BY <1>1, <3>1, Zenon DEF IsDot, IsDigit
  <2>2. IsDigit(p + 1) /\ p + 1 \in Nat /\ p < p + 1 /\ p + 1 - 1 = p /\ p..(p + 1 - 2) = {}
    BY <1>0, <2>1
  <2> DEFINE d == p + 1
  <2>3. Numeral(c, ScanFraction(c, d))
    <3>0. d - 1 = p /\ d - 2 = p - 1 /\ p..(p - 1) = {}
      BY <1>0
    <3>1. IsDot(d - 1) /\ IsDigit(d) /\ d \in Nat /\ p < d /\ p..(d - 2) = {}
      <4>1. IsDigit(d) /\ d \in Nat /\ p < d
        BY <2>2
      <4> HIDE DEF d
      <4> QED BY <1>1, <3>0, <4>1
    <3> HIDE DEF d
    <3> QED BY <3>1, FractionNumeral
  <2>4. f = ScanFraction(c, d)
    BY <1>1, Zenon DEF ScanNumber, IsDot
  <2> QED BY <2>3, <2>4
<1>2. CASE ~IsDot(p)
  <2>0. IsDigit(p) /\ p < Past
    BY <1>0, <1>2, NumberPrinted
  <2>1. f = IF ~ScanDigits(q, b, b = 10) \/ r = q THEN Bad(c, Run(q, IdentContinue))
            ELSE IF b # 10 THEN Good("INT", c, r)
            ELSE IF ~IsDot(r) THEN ScanExponent(c, r, "INT")
            ELSE IF IsDigit(r + 1) THEN ScanFraction(c, r + 1)
            ELSE Bad(c, r + 1)
    BY <1>2, Zenon DEF ScanNumber, IsDot, IsDigit, Counts
  <2>2. b # 10 => Zero(p) /\ BaseMark(p + 1)
    BY DEF Base, Zero, BaseMark
  <2>3. /\ b = 10 => q = p
        /\ b # 10 => q \in {p + 2, p + 3} /\ (q = p + 3 => ~Counts(p + 2))
    <3>1. p + 2 # p + 3
      BY <1>0
    <3> HIDE DEF b
    <3> QED BY <3>1
  <2> HIDE DEF b, q, f
  <2>4. q \in Nat /\ q <= Past /\ p <= q
    <3>1. CASE b = 10
      BY <1>0, <2>3, <3>1
    <3>2. CASE b # 10
      <4>1. p + 1 < Past
        <5>1. p + 1 \in Nat
          BY <1>0
        <5> QED BY <2>2, <3>2, <5>1, MarkPrinted
      <4>2. ~Counts(p + 2) => p + 2 < Past
        <5>1. p + 2 \in Nat
          BY <1>0
        <5> QED BY <5>1, MarkPrinted
      <4> QED BY <1>0, <2>3, <3>2, <4>1, <4>2
    <3> QED BY <3>1, <3>2
  <2>5. /\ r \in Nat /\ q <= r /\ r <= Past
        /\ \A i \in q..(r - 1) : Based(b, i) \/ ~Counts(i)
        /\ ScanDigits(q, b, b = 10) /\ r # q => Based(b, q) /\ Based(b, r - 1)
    BY <2>4, DigitsRead
  <2> HIDE DEF r
  <2>6. CASE ~ScanDigits(q, b, b = 10) \/ r = q
    <3>1. f = Bad(c, Run(q, IdentContinue))
      BY <2>1, <2>6
    <3> QED BY <3>1, BadIs DEF Numeral, f
  <2>7. CASE ~(~ScanDigits(q, b, b = 10) \/ r = q) /\ b # 10
    <3>1. f = Good("INT", c, r)
      BY <2>1, <2>7
    <3>2. f.type = "INT" /\ f.from = c /\ f.end = r
      BY <2>5, <3>1, GoodFields
    <3>3. Prefixed(p, r)
      <4>1. q < r /\ Based(b, q) /\ q \in {p + 2, p + 3} /\ (q = p + 3 => ~Counts(p + 2))
        BY <2>3, <2>4, <2>5, <2>7
      <4> QED BY <2>2, <2>5, <2>7, <4>1 DEF Prefixed, b
    <3> QED BY <2>5, <3>2, <3>3 DEF Numeral, f
  <2>8. CASE ~(~ScanDigits(q, b, b = 10) \/ r = q) /\ b = 10
    <3>1. /\ p < r /\ IsDigit(r - 1)
          /\ \A i \in p..(r - 1) : IsDigit(i) \/ ~Counts(i)
      BY <2>3, <2>4, <2>5, <2>8, BasedIs
    <3>2. Decimal(p, r)
      BY <2>0, <3>1 DEF Decimal
    <3>3. CASE ~IsDot(r)
      <4>1. f = ScanExponent(c, r, "INT")
        BY <2>1, <2>8, <3>3
      <4>2. \/ f = Good("INT", c, r)
            \/ f.type = "INVALID"
            \/ \E e \in Nat : f = Good("FLOAT", c, e) /\ r < e /\ Exponent(r, e)
        BY <2>5, <4>1, ExponentRead
      <4>3. CASE f = Good("INT", c, r)
        <5>1. f.type = "INT" /\ f.from = c /\ f.end = r
          BY <2>5, <4>3, GoodFields
        <5> QED BY <2>5, <3>2, <5>1 DEF Numeral, f
      <4>4. CASE f.type = "INVALID"
        BY <4>4 DEF Numeral, f
      <4>5. ASSUME NEW e \in Nat, f = Good("FLOAT", c, e), r < e, Exponent(r, e) PROVE Numeral(c, f)
        <5>1. f.type = "FLOAT" /\ f.from = c /\ f.end = e
          BY <4>5, GoodFields
        <5>2. Mantissa(p, r)
          <6>1. \A i : IsDigit(i) \/ ~Counts(i) => ~IsDot(i)
            <7>1. "." \notin Digit /\ "." # "_"
              BY Zenon DEF Digit
            <7> QED BY <7>1, Zenon DEF IsDigit, IsDot, Counts
          <6>2. Counts(r - 1) /\ p \in p..(r - 1)
            BY <1>0, <2>5, <3>1, NumberBytes
          <6> QED BY <2>0, <3>1, <6>1, <6>2 DEF Mantissa
        <5>3. Floating(p, e)
          BY <2>5, <4>5, <5>2 DEF Floating
        <5> QED BY <5>1, <5>3 DEF Numeral
      <4> QED BY <4>2, <4>3, <4>4, <4>5 DEF f
    <3>4. CASE IsDot(r) /\ IsDigit(r + 1)
      <4> DEFINE d == r + 1
      <4>1. f = ScanFraction(c, d)
        BY <2>1, <2>8, <3>4
      <4>2. d \in Nat /\ p < d /\ IsDot(d - 1) /\ IsDigit(d) /\ d - 2 = r - 1
        <5>1. d - 1 = r /\ d - 2 = r - 1
          BY <2>5
        <5> QED BY <1>0, <2>5, <3>1, <3>4, <5>1
      <4> HIDE DEF d
      <4>3. \A i \in p..(d - 2) : IsDigit(i) \/ ~Counts(i)
        BY <3>1, <4>2
      <4>4. Numeral(c, ScanFraction(c, d))
        BY <4>2, <4>3, FractionNumeral
      <4> QED BY <4>1, <4>4 DEF f
    <3>5. CASE IsDot(r) /\ ~IsDigit(r + 1)
      <4>1. f = Bad(c, r + 1)
        BY <2>1, <2>8, <3>5
      <4> QED BY <4>1, BadIs DEF Numeral, f
    <3> QED BY <3>3, <3>4, <3>5
  <2> QED BY <2>6, <2>7, <2>8
<1> QED BY <1>1, <1>2

(***************************** what is decoded ******************************)

Literals == {"STRING", "BYTES", "INT", "FLOAT"}

LEMMA DecodesOther == ASSUME NEW t, t.type \notin Literals PROVE Decodes(t)
BY DEF Decodes, Literals

LEMMA DecodesText ==
  ASSUME NEW t, t.type = "STRING", t.text, UnescapeImpl(t.start, t.end, TRUE) = t.end
  PROVE  Decodes(t)
BY DEF Decodes

LEMMA DecodesString ==
  ASSUME NEW t, t.type = "STRING", ~t.text, UnescapeImpl(t.start + 1, t.end - 1, FALSE) = t.end - 1
  PROVE  Decodes(t)
BY DEF Decodes

LEMMA DecodesBytes ==
  ASSUME NEW t, t.type = "BYTES", UnescapeImpl(t.start + 2, t.end - 1, FALSE) = t.end - 1
  PROVE  Decodes(t)
BY DEF Decodes

LEMMA DecodesInt == ASSUME NEW t, t.type = "INT", ParseInt(CleanNumber(t)) PROVE Decodes(t)
BY DEF Decodes

LEMMA DecodesFloat == ASSUME NEW t, t.type = "FLOAT", ParseFloat(CleanNumber(t)) PROVE Decodes(t)
BY DEF Decodes

\* The scans that find no literal.
LEMMA IdentifierBare == ASSUME NEW c PROVE ScanIdentifier(c).type \notin Literals
<1>1. \A word : Keyword(word) \in {"KW_NIL", "KW_IF", "IDENTIFIER"}
  BY DEF Keyword
<1>2. \A type, q : Good(type, c, q).type = type
  BY DEF Good, Found
<1> DEFINE word == SubSeq(source, c.pos, IdentEnd[c.pos] - 1)
<1>3. ScanIdentifier(c).type = Keyword(word)
  BY <1>2 DEF ScanIdentifier
<1> HIDE DEF word
<1>4. ScanIdentifier(c).type \in {"KW_NIL", "KW_IF", "IDENTIFIER"}
  BY <1>1, <1>3
<1> QED BY <1>4 DEF Literals

LEMMA OperatorBare == ASSUME NEW c PROVE ScanOperator(c).type \notin Literals
<1> DEFINE p == c.pos
           e == p + OperatorLength(p)
           one(type) == Found(type, c, Advance(c, 1), <<>>, type)
<1>1. \A type, from, to, errs, does : Found(type, from, to, errs, does).type = type
  BY DEF Found
<1>2. Bad(c, e).type = "INVALID" /\ \A type : Good(type, c, e).type = type
  BY <1>1 DEF Bad, Good
<1>3. \A t : one(t).type = t
  BY <1>1
<1>4. ScanFstringFormat(c).type \in {"FSTRING_FORMAT", "INVALID"}
  <2> DEFINE b == Advance(c, 1)
             x == FormatEnd(b.pos)
             d == Advance(b, x - b.pos)
  <2>1. \/ ScanFstringFormat(c) = Found("FSTRING_FORMAT", b, d, <<>>, "none")
        \/ ScanFstringFormat(c) = Found("INVALID", b, d, <<x>>, "pop")
    BY DEF ScanFstringFormat
  <2> HIDE DEF b, d, x
  <2> QED BY <1>1, <2>1
<1>5. CASE OpensFormat(p)
  <2>1. ScanOperator(c) = ScanFstringFormat(c)
    BY <1>5 DEF ScanOperator, OpensFormat
  <2> QED BY <1>4, <2>1 DEF Literals
<1>6. CASE ~OpensFormat(p)
  <2>1. \/ ScanOperator(c) \in {Bad(c, e), Good("SEMICOLON", c, e), Good("STEP", c, e), Good("OPERATOR", c, e)}
        \/ \E t \in {"(", "[", "{", ")", "]", "}"} : ScanOperator(c) = one(t)
    <3>1. CASE At(p) \in {"(", "[", "{", ")", "]"}
      <4>1. ScanOperator(c) = one(At(p))
        BY <1>6, <3>1 DEF ScanOperator, IsOperator
      <4> QED BY <3>1, <4>1
    <3>2. CASE At(p) = "}"
      <4>1. ScanOperator(c) \in {one("}"), Bad(c, e)}
        BY <1>6, <3>2 DEF ScanOperator, IsOperator
      <4> QED BY <4>1
    <3>3. CASE At(p) \notin {"(", "[", "{", ")", "]", "}"}
      BY <1>6, <3>3 DEF ScanOperator
    <3> QED BY <3>1, <3>2, <3>3
  <2> HIDE DEF e, one
  <2>2. ScanOperator(c).type \in {"INVALID", "SEMICOLON", "STEP", "OPERATOR", "(", "[", "{", ")", "]", "}"}
    BY <1>2, <1>3, <2>1, Zenon
  <2> QED BY <2>2, Zenon DEF Literals
<1> QED BY <1>5, <1>6

LEMMA TokenBare ==
  ASSUME NEW c
  PROVE  /\ ScanAtEnd(c).type \notin Literals /\ ScanRawString(c).type \notin Literals
         /\ ScanFstringStart(c).type \notin Literals /\ AutoSemicolon.type \notin Literals
         /\ \A q : Bad(c, q).type \notin Literals
<1>1. \A type, from, to, errs, does : Found(type, from, to, errs, does).type = type
  BY DEF Found
<1>2. ScanAtEnd(c).type \in {"INVALID", "SEMICOLON", "EOF"}
  <2>1. CASE InFrame
    BY <1>1, <2>1 DEF ScanAtEnd
  <2>2. CASE ~InFrame
    BY <1>1, <2>2 DEF ScanAtEnd
  <2> QED BY <2>1, <2>2
<1>3. ScanRawString(c).type \in {"RAW_STRING", "INVALID"}
  <2> DEFINE e == Until(c.pos + 1, {"BACKQUOTE"})
             r == ReturnReports(c.pos, e)
  <2>1. \/ ScanRawString(c) = Found("RAW_STRING", c, Walk(c, e + 1), r, "none")
        \/ ScanRawString(c) = Found("INVALID", c, Walk(c, e), r \o <<e>>, "none")
    BY DEF ScanRawString
  <2> HIDE DEF e, r
  <2> QED BY <1>1, <2>1
<1>4. ScanFstringStart(c).type \in {"FSTRING_START", "INVALID"}
  BY <1>1, BadIs DEF ScanFstringStart
<1>5. AutoSemicolon.type = "SEMICOLON"
  BY DEF AutoSemicolon, Found
<1> QED BY <1>2, <1>3, <1>4, <1>5, BadIs DEF Literals

LEMMA TokenDecodes ==
  ASSUME source \in Seq(STRING), NEW c, Right(c), NEW t,
         t.type = ScanToken(c).type, t.start = ScanToken(c).from.pos, t.end = ScanToken(c).end, ~t.text
  PROVE  Decodes(t)
<1> DEFINE p == c.pos
           s == ScanToken(c)
<1>0. p \in Nat
  BY RightFields
<1>1. \/ p = Past /\ ScanToken(c) = ScanAtEnd(c)
      \/ At(p) \in HighByte /\ ScanToken(c) = Bad(c, p + 1)
      \/ At(p) = Quote /\ ScanToken(c) = ScanString(c, "STRING")
      \/ At(p) = "BACKQUOTE" /\ ScanToken(c) = ScanRawString(c)
      \/ At(p) = "f" /\ At(p + 1) = Quote /\ ScanToken(c) = ScanFstringStart(c)
      \/ At(p) = "b" /\ At(p + 1) = Quote /\ ScanToken(c) = ScanString(c, "BYTES")
      \/ At(p) \in IdentStart /\ ScanToken(c) = ScanIdentifier(c)
      \/ Utf8Length(p) > 0 /\ ScanToken(c) = ScanIdentifier(c)
      \/ (At(p) \in Digit \/ (At(p) = "." /\ At(p + 1) \in Digit)) /\ ScanToken(c) = ScanNumber(c)
      \/ p # Past /\ ScanToken(c) = ScanOperator(c)
  BY DEF ScanToken
<1> HIDE DEF s
<1>2. t.type = s.type /\ t.start = s.from.pos /\ t.end = s.end
  BY DEF s
<1>3. CASE At(p) = Quote /\ s = ScanString(c, "STRING")
  <2>1. /\ s.from = c /\ s.type \in {"STRING", "INVALID"}
        /\ s.type = "STRING" => UnescapeImpl(p + 1, s.end - 1, FALSE) = s.end - 1
    BY <1>3, StringDecoded
  <2>2. t.type = "STRING" => Decodes(t)
    BY <1>2, <2>1, DecodesString
  <2> QED BY <1>2, <2>1, <2>2, DecodesOther DEF Literals
<1>4. CASE At(p) = "b" /\ At(p + 1) = Quote /\ s = ScanString(c, "BYTES")
  <2>1. /\ s.from = c /\ s.type \in {"BYTES", "INVALID"}
        /\ s.type = "BYTES" => UnescapeImpl(p + 2, s.end - 1, FALSE) = s.end - 1
    BY <1>4, StringDecoded
  <2>2. t.type = "BYTES" => Decodes(t)
    BY <1>2, <2>1, DecodesBytes
  <2> QED BY <1>2, <2>1, <2>2, DecodesOther DEF Literals
<1>5. CASE (At(p) \in Digit \/ (At(p) = "." /\ At(p + 1) \in Digit)) /\ s = ScanNumber(c)
  <2>1. Numeral(c, s)
    <3>1. IsDigit(p) \/ (IsDot(p) /\ IsDigit(p + 1))
      BY <1>5, Zenon DEF IsDigit, IsDot
    <3> QED BY <1>5, <3>1, NumberRead
  <2>2. CASE s.type = "INVALID"
    BY <1>2, <2>2, DecodesOther DEF Literals
  <2>3. ASSUME s.from = c, s.end \in Nat
        PROVE  t.start = p /\ t.end \in Nat /\ \E pos : Listed(CleanNumber(t), pos, p, t.end)
    <3>1. t.start = p /\ t.end \in Nat
      BY <1>2, <2>3
    <3> QED BY <1>0, <3>1, CleanListed
  <2>4. ASSUME s.from = c, s.end \in Nat, s.type = "INT", Decimal(p, s.end) \/ Prefixed(p, s.end)
        PROVE  Decodes(t)
    <3>1. PICK pos : t.end \in Nat /\ Listed(CleanNumber(t), pos, p, t.end)
      BY <2>3, <2>4
    <3>2. ParseInt(CleanNumber(t))
      BY <1>0, <1>2, <2>4, <3>1, DecimalParses, PrefixedParses
    <3> QED BY <1>2, <2>4, <3>2, DecodesInt
  <2>5. ASSUME s.from = c, s.end \in Nat, s.type = "FLOAT", Floating(p, s.end)
        PROVE  Decodes(t)
    <3>1. PICK pos : t.end \in Nat /\ Listed(CleanNumber(t), pos, p, t.end)
      BY <2>3, <2>5
    <3>2. ParseFloat(CleanNumber(t))
      BY <1>0, <1>2, <2>5, <3>1, FloatingParses
    <3> QED BY <1>2, <2>5, <3>2, DecodesFloat
  <2> QED BY <2>1, <2>2, <2>4, <2>5 DEF Numeral
<1>6. CASE \/ s = ScanAtEnd(c)
           \/ s = Bad(c, p + 1)
           \/ s = ScanRawString(c)
           \/ s = ScanFstringStart(c)
           \/ s = ScanIdentifier(c)
           \/ s = ScanOperator(c)
  <2>1. s.type \notin Literals
    BY <1>6, TokenBare, IdentifierBare, OperatorBare
  <2> QED BY <1>2, <2>1, DecodesOther
<1> QED BY <1>1, <1>3, <1>4, <1>5, <1>6, Zenon DEF s

\* Every token a scan finds.
LEMMA ScanDecodes ==
  ASSUME Reading, NEW t, t.type = Scan.type, t.start = Scan.from.pos, t.end = Scan.end, t.text = (mode = "TEXT")
  PROVE  Decodes(t)
<1>0. source \in Seq(STRING) /\ Right(cursor)
  BY DEF Reading, Plaintext
<1>1. CASE mode = "TEXT"
  <2> DEFINE s == Scan
  <2>1. s = ScanFstringText(cursor)
    BY <1>1 DEF Scan
  <2>2. /\ s.type \notin {"BYTES", "INT", "FLOAT"}
        /\ s.type = "STRING" => s.from = cursor /\ UnescapeImpl(cursor.pos, s.end, TRUE) = s.end
    BY <1>0, <2>1, TextDecoded
  <2>3. t.type = s.type /\ t.start = s.from.pos /\ t.end = s.end /\ t.text
    BY <1>1
  <2> HIDE DEF s
  <2>4. CASE s.type = "STRING"
    BY <2>2, <2>3, <2>4, DecodesText
  <2>5. CASE s.type # "STRING"
    BY <2>2, <2>3, <2>5, DecodesOther DEF Literals
  <2> QED BY <2>4, <2>5
<1>2. CASE mode # "TEXT" /\ NewlineSeen /\ canEndStatement
  <2>1. Scan = AutoSemicolon
    BY <1>2 DEF Scan
  <2> QED BY <2>1, TokenBare, DecodesOther
<1>3. CASE mode # "TEXT" /\ ~(NewlineSeen /\ canEndStatement)
  <2> DEFINE c == Walk(cursor, TriviaEnd)
  <2>1. Scan = ScanToken(c) /\ ~t.text
    BY <1>3 DEF Scan
  <2>2. Right(c)
    BY <1>0, TriviaWalked
  <2> HIDE DEF c
  <2> QED BY <1>0, <2>1, <2>2, TokenDecodes
<1> QED BY <1>1, <1>2, <1>3

LEMMA DecodesStill ==
  ASSUME source' = source, NEW t, Decodes(t)
  PROVE  Decodes(t)'
<1>1. CleanNumber(t)' = CleanNumber(t)
  BY DEF CleanNumber, Kth, At
<1>2. \A a, e, braces : UnescapeImpl(a, e, braces)' = UnescapeImpl(a, e, braces)
  BY DEF UnescapeImpl, DecodeEscape, HexDigits, Hex4, At
<1> QED BY <1>1, <1>2 DEF Decodes

LEMMA DecodableSame ==
  ASSUME source' = source, NEW t, Newest' = t, Decodes(t)
  PROVE  Decodable'
<1>1. Decodes(t)'
  BY DecodesStill
<1>2. Decodes(Newest)'
  BY <1>1 DEF Decodes, CleanNumber
<1> QED BY <1>2 DEF Decodable

LEMMA DecodableGrown ==
  ASSUME source' = source, NEW t, Grown(t), Decodes(t)
  PROVE  Decodable'
<1>1. Newest' = t
  BY DEF Grown
<1> QED BY <1>1, DecodableSame

LEMMA DecodableKept ==
  ASSUME Reading, Decodable, [Next]_vars
  PROVE  Decodable'
<1>1. CASE ScanNext
  <2>1. CASE Taken(Scan)
    <3> DEFINE s == Scan
               t == Token(s.type, s.from, s.end)
    <3>1. Grown(t) /\ source' = source
      BY <2>1 DEF Taken
    <3>2. t.type = s.type /\ t.start = s.from.pos /\ t.end = s.end /\ t.text = (mode = "TEXT")
      BY TokenFields
    <3> HIDE DEF t
    <3>3. Decodes(t)
      BY <3>2, ScanDecodes
    <3> QED BY <3>1, <3>3, DecodableGrown
  <2>2. CASE \E d : Capped(d)
    <3>1. PICK d : Capped(d)
      BY <2>2
    <3> DEFINE t == Token("EOF", d, d.pos)
    <3>2. Grown(t) /\ source' = source
      BY <3>1 DEF Capped
    <3>3. t.type = "EOF"
      BY TokenFields
    <3> HIDE DEF t
    <3>4. Decodes(t)
      BY <3>3, DecodesOther DEF Literals
    <3> QED BY <3>2, <3>4, DecodableGrown
  <2> QED BY <1>1, <2>1, <2>2, ScanTakes
<1>2. CASE HandPeeked \/ ParserReports \/ UNCHANGED vars
  <2>1. Tokens' = Tokens /\ source' = source
    BY <1>2, OtherIdle DEF Idle
  <2>2. K' = K /\ Newest' = Newest
    BY <2>1 DEF K, Newest
  <2>3. CASE K > 0
    <3> DEFINE t == Newest
    <3>1. Decodes(t) /\ Newest' = t
      BY <2>2, <2>3 DEF Decodable
    <3> HIDE DEF t
    <3> QED BY <2>1, <3>1, DecodableSame
  <2>4. CASE ~(K > 0)
    BY <2>2, <2>4 DEF Decodable
  <2> QED BY <2>3, <2>4
<1> QED BY <1>1, <1>2 DEF Next, Step

\* For every text: what the scan takes for a literal, the decoder takes to its end without an
\* assertion failing, and the compiler's conversion of a number refuses it for its size alone.
THEOREM LexerDecodable == Spec => []Decodable
<1>1. Init => Reading /\ Decodable
  <2>1. Init => handed = <<>> /\ peeked = None
    BY DEF Init
  <2>2. Init => K = 0
    BY <2>1 DEF K, Tokens
  <2>3. Init => Decodable
    BY <2>2 DEF Decodable
  <2> QED BY <2>3, InitReading
<1>2. (Reading /\ Decodable) /\ [Next]_vars => (Reading /\ Decodable)'
  BY ReadingKept, DecodableKept
<1> QED BY <1>1, <1>2, PTL DEF Spec

=============================================================================
