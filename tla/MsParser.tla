------------------------------ MODULE MsParser ------------------------------
(* The parser (src/parser/ms_parser.c): precedence climbing, statements, and *)
(* the recovery from errors. Its routines call each other; `stack` holds one *)
(* frame for each call under way, whose `at` says how far that call has come.*)
EXTENDS Integers, Sequences, FiniteSets

CONSTANTS Dialects,    \* what texts are made of: [begin, tokens, size, broken, scarce]
          MaxDiags     \* MS_DIAG_MAX_COUNT, 20

ASSUME ParserAssumption ==
  /\ MaxDiags \in Nat \ {0, 1}
  /\ \A d \in Dialects : d.begin \in Seq(STRING) /\ d.size \in Nat /\ d.broken \in BOOLEAN /\ d.scarce \in BOOLEAN

VARIABLES
  dialect,
  cur,         \* the token the parser is at
  ahead,       \* the token msLexerPeek scanned, "none" when it has not
  script,      \* the tokens the text begins with that are not scanned yet
  left,        \* how many tokens may follow them
  nest,        \* the brackets and f-strings open in what is scanned
  torn,        \* a bracket was closed that was not the last one opened
  diags, atEntry, panic,
  context,     \* loopDepth, funcDepth, funcIsAsync, classDepth, inMethod, allowIncDec
  stack, ret,  \* the calls under way, and what the last one returned
  flawed,      \* a placeholder stands in the tree
  result       \* "running", then what msParserParse returns

input == <<cur, ahead, script, left, nest, torn>>
vars  == <<dialect, input, diags, atEntry, panic, context, stack, ret, flawed, result>>

(********************************** tokens ************************************)

Ident   == {"x", "y", "recv", "send", "static"}
Literal == Ident \cup {"int", "string"}    \* int: a literal that is not a plain string
\* The statement enders of the lexer (msLexerTokenEndsStatement) among the tokens used here.
Enders  == Literal \cup {"fend", "return", "break", "continue", "pass", "raise", ")", "]", "}", "++"}

InText      == nest # <<>> /\ nest[Len(nest)] = "f"
InField     == nest # <<>> /\ nest[Len(nest)] = "i"      \* directly in an interpolation
OpenBraces  == {i \in DOMAIN nest : nest[i] \in {"{", "i"}}
OpenStrings == {i \in DOMAIN nest : nest[i] = "f"}

\* What the lexer may find next: it closes no brace that is not open, and keeps the parts of
\* an f-string in order.
Fits(t) ==
  IF InText THEN t \in {"{", "fend"} \/ (t = "string" /\ cur # "string")
  ELSE IF cur = "format" THEN t = "}"
  ELSE CASE t = "fend"   -> FALSE
         [] t = "}"      -> OpenBraces # {}
         [] t = "format" -> InField
         [] t = ":"      -> ~InField
         [] OTHER        -> TRUE

Pop(s) == SubSeq(s, 1, Len(s) - 1)
Opener == [t \in {")", "]"} |-> IF t = ")" THEN "(" ELSE "["]
NestAfter(t) ==
  CASE t \in {"(", "["} -> Append(nest, t)
    [] t = "{"          -> Append(nest, IF InText THEN "i" ELSE "{")
    [] t = "fstart"     -> Append(nest, "f")
    [] t = "fend"       -> Pop(nest)
    [] t = "}" /\ OpenBraces # {} -> SubSeq(nest, 1, (CHOOSE i \in OpenBraces : \A j \in OpenBraces : j <= i) - 1)
    [] t \in DOMAIN Opener -> IF nest # <<>> /\ nest[Len(nest)] = Opener[t] THEN Pop(nest) ELSE nest
    [] OTHER            -> nest
Tears(t) == \/ t \in DOMAIN Opener /\ NestAfter(t) = nest
            \/ t = "}" /\ nest[Len(nest)] \notin {"{", "i"}

Scanned(t, d, n) == [token |-> t, diags |-> d, left |-> n]
Least(a, b) == IF a < b THEN a ELSE b
\* The scans the text admits when d diagnostics are recorded and `ends` says that the token
\* before can end a statement. At the end of the text a statement is ended, and an f-string left open is an error; a lexical error that finds the list full ends it too.
Sound(d, ends) ==
  IF cur = "EOF" THEN {Scanned("EOF", d, 0)}
  ELSE IF script # <<>> THEN {Scanned(Head(script), d, left)}
  ELSE {Scanned(t, d, left - 1) : t \in {u \in dialect.tokens : left > 0 /\ Fits(u)}}
       \cup {IF OpenStrings # {} THEN Scanned("EOF", Least(MaxDiags, d + Cardinality(OpenStrings)), 0)
             ELSE IF ends THEN Scanned(";", d, 0)
             ELSE Scanned("EOF", d, 0)}
Broken(d) == IF ~dialect.broken \/ cur = "EOF" THEN {}
             ELSE {IF d = MaxDiags THEN Scanned("EOF", d, 0) ELSE Scanned("INVALID", d + 1, left)}

Scan(s) ==
  /\ left' = s.left
  /\ script' = IF script = <<>> \/ s.token \in {"INVALID", "EOF"} THEN script ELSE Tail(script)
  /\ IF s.token = "INVALID" THEN UNCHANGED <<nest, torn>>
     ELSE nest' = NestAfter(s.token) /\ torn' = (torn \/ Tears(s.token))
\* msLexerPeek
LookAhead ==
  /\ \E s \in Sound(diags, cur \in Enders) \cup Broken(diags) : Scan(s) /\ ahead' = s.token /\ diags' = s.diags
  /\ UNCHANGED <<cur, panic, context, stack, ret, result>>
\* parserAdvance: INVALID tokens are skipped, any number of them. Each one skipped is one more
\* diagnostic, and the one for which the list has no room ends the text.
Skipped(d) == IF Broken(d) = {} THEN {} ELSE (d + 1)..MaxDiags
Arriving(d) ==
  IF ahead \notin {"none", "INVALID"} THEN {Scanned(ahead, d, left)}
  ELSE Sound(d, cur \in Enders /\ ahead = "none") \cup (UNION {Sound(e, FALSE) : e \in Skipped(d)})
       \cup {s \in UNION {Broken(e) : e \in {d} \cup Skipped(d)} : s.token = "EOF"}

(******************************** diagnostics *********************************)

Full == diags = MaxDiags
Counted(d, report) == IF report /\ ~panic THEN Least(MaxDiags, d + 1) ELSE d
\* What one stretch of a routine does to the input: it may report, take a token, report again.
Read(before, take, after) ==
  /\ panic' = (panic \/ before \/ after)
  /\ IF ~take THEN diags' = Counted(diags, before \/ after) /\ UNCHANGED input
     ELSE \E s \in Arriving(Counted(diags, before)) :
            /\ cur' = s.token /\ diags' = Counted(s.diags, after /\ ~before)
            /\ ahead' = "none"
            /\ IF ahead \notin {"none", "INVALID"} THEN UNCHANGED <<script, left, nest, torn>> ELSE Scan(s)
Stay       == Read(FALSE, FALSE, FALSE)
Take       == Read(FALSE, TRUE, FALSE)
Report     == Read(TRUE, FALSE, FALSE)
ReportIf(c) == Read(c, FALSE, FALSE)
Skip       == Read(TRUE, TRUE, FALSE)      \* report the token, then take it
Expect(ts) == Read(cur \notin ts, cur \in ts, FALSE)      \* parserConsume

(*********************************** calls ************************************)

Top   == stack[Len(stack)]
At(a) == Top.at = a
F(a)  == [at |-> a]
Go(a) == [Top EXCEPT !.at = a]

Node(kind, level) == [kind |-> kind, level |-> level, name |-> "", args |-> 0]
Nothing == Node("none", 1)
Invalid == Node("INVALID", 1)
Primary == Node("OTHER", 1)
Become(f)  == stack' = Append(Pop(stack), f) /\ ret' = Nothing
Yield(f, n) == stack' = Append(Pop(stack), f) /\ ret' = n       \* as if a call had returned n
Call(f, g) == stack' = Pop(stack) \o <<f, g>> /\ ret' = Nothing   \* resume as f
Return(n)  == stack' = Pop(stack) /\ ret' = n
Done       == Return(Primary)
\* parserMatch of a comma
Comma(more, done) == IF cur = "," THEN Take /\ Become(more) ELSE Stay /\ Become(done)

(******************************** expressions *********************************)

COND  == 2   \* MS_PREC_EXPR as well
OR    == 3
AND   == 4
COMP  == 5
UNARY == 12
POWER == 13
POST  == 14
Expr(min) == [at |-> "Expr", min |-> min]
EXPR == Expr(COND)

PrefixRule ==
  [t \in {"(", "[", "{", "fstart", "~", "not", "+", "-", "await", "lambda", "self"} |->
     CASE t = "(" -> "Grouping" [] t = "[" -> "List" [] t = "{" -> "Brace" [] t = "fstart" -> "FString"
       [] t = "await" -> "Await" [] t = "lambda" -> "Lambda" [] t = "self" -> "SelfSuper" [] OTHER -> "Unary"]
Prefix == Literal \cup DOMAIN PrefixRule
Prec ==
  [t \in {"(", "[", ".", "not", "in", "is", "<", "==", "|", "^", "&", "<<", "+", "-", "*", "%", "**", "and", "or", "if"} |->
     CASE t \in {"(", "[", "."} -> POST  [] t = "**" -> POWER  [] t \in {"*", "%"} -> 11
       [] t \in {"+", "-"} -> 10 [] t = "<<" -> 9 [] t = "&" -> 8 [] t = "^" -> 7 [] t = "|" -> 6
       [] t = "and" -> AND [] t = "or" -> OR [] t = "if" -> COND [] OTHER -> COMP]
InfixRule ==
  [t \in DOMAIN Prec |->
     CASE t = "(" -> "Call" [] t = "[" -> "Index" [] t = "." -> "Attr" [] t = "if" -> "Conditional"
       [] Prec[t] = COMP -> "Compare" [] t \in {"and", "or"} -> "Logical" [] OTHER -> "Binary"]
\* The levels of docs/language/03-syntax.md, section 6: the smaller binds the tighter.
Level ==
  [t \in DOMAIN Prec |->
     CASE t \in {"(", "[", "."} -> 2 [] t = "**" -> 3 [] t \in {"*", "%"} -> 5 [] t \in {"+", "-"} -> 6
       [] t = "<<" -> 7 [] t = "&" -> 8 [] t = "^" -> 9 [] t = "|" -> 10 [] t = "and" -> 12
       [] t = "or" -> 13 [] t = "if" -> 14 [] OTHER -> 11]

Folds == cur \in DOMAIN Prec /\ Prec[cur] >= Top.min /\ (cur = "not" => ahead = "in")
ParsePrecedence ==
  \/ At("Expr") /\ cur \notin Prefix /\ Report /\ Return(Invalid)
  \/ At("Expr") /\ cur \in Literal /\ Take
     /\ Yield(Go("Fold"), IF cur \in Ident THEN Node("IDENT", 1) ELSE Primary)
  \/ At("Expr") /\ cur \in DOMAIN PrefixRule /\ Take
     /\ Call(Go("Fold"), [at |-> PrefixRule[cur], op |-> cur])
  \/ At("Fold") /\ Folds /\ Take
     /\ Call(Top, [at |-> InfixRule[cur], op |-> cur, operand |-> ret, args |-> 0])
  \/ At("Fold") /\ ~Folds /\ Stay /\ Return(ret)

ParseGrouping ==
  \/ At("Grouping") /\ Stay /\ Call(F("Grouping.close"), EXPR)
  \/ At("Grouping.close") /\ Expect({")"}) /\ Return([ret EXCEPT !.level = 1])
ParseUnary ==
  \/ At("Unary") /\ Stay /\ Call(F("Unary.operand"), Expr(UNARY + 1))
  \/ At("Unary.operand") /\ Stay /\ Return(Node("UNARY", 4))
\* The right operand may be an operation of the same precedence.
ParseBinaryLoose ==
  \/ At("Binary") /\ Stay /\ Call(Go("Binary.right"), Expr(Prec[Top.op]))
  \/ At("Binary.right") /\ Stay /\ Return(Node("OTHER", Level[Top.op]))
ParseBinary ==
  \/ At("Binary") /\ Stay
     /\ Call(Go("Binary.right"), Expr(IF Top.op = "**" THEN Prec[Top.op] ELSE Prec[Top.op] + 1))
  \/ At("Binary.right") /\ Stay /\ Return(Node("OTHER", Level[Top.op]))
ParseLogical ==
  \/ At("Logical") /\ Stay /\ Call(Go("Logical.right"), Expr(Prec[Top.op] + 1))
  \/ At("Logical.right") /\ Stay /\ Return(Node("OTHER", Level[Top.op]))
ParseCall ==
  \/ At("Call") /\ cur \in {")", "EOF"} /\ Stay /\ Become(Go("Call.close"))
  \/ At("Call") /\ cur \in Ident /\ ahead = "=" /\ Take /\ Become(Go("Call.equal"))
  \/ At("Call.equal") /\ Take /\ Call(Go("Call.argument"), EXPR)
  \/ At("Call") /\ cur \notin {")", "EOF"} /\ ~(cur \in Ident /\ ahead = "=") /\ Stay /\ Call(Go("Call.argument"), EXPR)
  \/ At("Call.argument") /\ LET more == [Top EXCEPT !.at = "Call", !.args = Least(2, @ + 1)]
                            IN  Comma(more, [more EXCEPT !.at = "Call.close"])
  \/ At("Call.close") /\ Expect({")"})
     /\ Return([Node("CALL", 2) EXCEPT !.name = IF Top.operand.kind = "ATTR" THEN Top.operand.name ELSE "",
                                       !.args = Top.args])
ParseIndexOrSlice ==
  \/ At("Index") /\ cur = ":" /\ Take /\ Become(F("Slice.stop"))
  \/ At("Index") /\ cur = "]" /\ Report /\ Yield(F("Index.close"), Invalid)
  \/ At("Index") /\ cur \notin {":", "]"} /\ Stay /\ Call(F("Index.start"), EXPR)
  \/ At("Index.start") /\ cur = ":" /\ Take /\ Become(F("Slice.stop"))
  \/ At("Index.start") /\ cur # ":" /\ Stay /\ Become(F("Index.close"))
  \/ At("Slice.stop") /\ cur \in {":", "]"} /\ Stay /\ Become(F("Slice.colon"))
  \/ At("Slice.stop") /\ cur \notin {":", "]"} /\ Stay /\ Call(F("Slice.colon"), EXPR)
  \/ At("Slice.colon") /\ cur = ":" /\ Take /\ Become(F("Slice.step"))
  \/ At("Slice.colon") /\ cur # ":" /\ Stay /\ Become(F("Slice.close"))
  \/ At("Slice.step") /\ cur = "]" /\ Stay /\ Become(F("Slice.close"))
  \/ At("Slice.step") /\ cur # "]" /\ Stay /\ Call(F("Slice.close"), EXPR)
  \/ At("Index.close") /\ Expect({"]"}) /\ Return(Node("INDEX", 2))
  \/ At("Slice.close") /\ Expect({"]"}) /\ Return(Node("OTHER", 2))
ParseAttr ==
  At("Attr") /\ Expect(Ident) /\ Return([Node("ATTR", 2) EXCEPT !.name = IF cur \in Ident THEN cur ELSE "."])
ParseCompareChain ==
  \/ At("Compare")
     /\ Read(FALSE, Top.op = "not" \/ (Top.op = "is" /\ cur = "not"), FALSE)
     /\ Call(Go("Compare.link"), Expr(COMP + 1))
  \/ At("Compare.link") /\
     LET links == cur \in DOMAIN Prec /\ Prec[cur] = COMP /\ (cur = "not" => ahead = "in")
     IN  \/ links /\ Take /\ Become([Top EXCEPT !.at = "Compare", !.op = cur])
         \/ ~links /\ Stay /\ Return(Node("OTHER", 11))
ParseConditional ==
  \/ At("Conditional") /\ Stay /\ Call(Go("Conditional.else"), Expr(OR))
  \/ At("Conditional.else") /\ Expect({"else"}) /\ Call(F("Conditional.end"), Expr(COND))
  \/ At("Conditional.end") /\ Stay /\ Return(Node("OTHER", 14))
ParseAwait ==
  \/ At("Await") /\ ReportIf(context.funcDepth = 0 \/ ~context.funcIsAsync) /\ Call(F("Await.end"), Expr(POST))
  \/ At("Await.end") /\ Stay /\ Return(Node("OTHER", 2))
ParseSelfSuper == At("SelfSuper") /\ ReportIf(~context.inMethod) /\ Return(Node("IDENT", 1))

ParseLambdaParams ==
  \/ At("Lambda") /\ cur \in Ident /\ Take /\ Become(F("Lambda.comma"))
  \/ At("Lambda") /\ cur \notin Ident /\ Stay /\ Become(F("Lambda.colon"))
  \/ At("Lambda.comma") /\ Comma(F("Lambda"), F("Lambda.colon"))
ParseLambdaBody ==
  \/ /\ At("Lambda.colon") /\ Expect({":"})
     /\ context' = [context EXCEPT !.loopDepth = 0, !.funcDepth = @ + 1, !.funcIsAsync = FALSE]
     /\ Call([at |-> "Lambda.body", saved |-> context], Expr(COND))
  \/ /\ At("Lambda.body") /\ Stay
     /\ context' = [context EXCEPT !.loopDepth = Top.saved.loopDepth, !.funcDepth = Top.saved.funcDepth,
                                   !.funcIsAsync = Top.saved.funcIsAsync]
     /\ Return(Node("LAMBDA", 15))

Clauses(close) == [at |-> "Clauses", close |-> close]
ParseComprehensionClauses ==
  \/ At("Clauses") /\ cur = "for" /\ Take /\ Become(Go("Clause.target"))
  \/ At("Clause.target") /\ Expect(Ident) /\ Become(Go("Clause.comma"))
  \/ At("Clause.comma") /\ Comma(Go("Clause.target"), Go("Clause.in"))
  \/ At("Clause.in") /\ Expect({"in"}) /\ Call(Go("Clauses"), Expr(OR))
  \/ At("Clauses") /\ cur = "if" /\ Take /\ Call(Top, Expr(OR))
  \/ At("Clauses") /\ cur \notin {"for", "if"} /\ Expect({Top.close}) /\ Return(Primary)
\* The elements of a list or a set after the first.
Elements(close) == [at |-> "Elements", close |-> close]
ParseElements ==
  \/ At("Elements") /\ cur = "," /\ Take /\ Become(Go("Element"))
  \/ At("Element") /\ cur # Top.close /\ Stay /\ Call(Go("Elements"), EXPR)
  \/ At("Element") /\ cur = Top.close /\ Take /\ Return(Primary)
  \/ At("Elements") /\ cur # "," /\ Expect({Top.close}) /\ Return(Primary)
ParseListOrComprehension ==
  \/ At("List") /\ cur = "]" /\ Take /\ Return(Primary)
  \/ At("List") /\ cur # "]" /\ Stay /\ Call(F("List.first"), EXPR)
  \/ At("List.first") /\ cur = ":" /\ Take /\ Call(F("List.value"), EXPR)
  \/ At("List.first") /\ cur # ":" /\ Stay /\ Become(IF cur = "for" THEN Clauses("]") ELSE Elements("]"))
  \/ At("List.value") /\ ReportIf(cur # "for") /\ Become(Clauses("]"))
ParseBraceLiteral ==
  \/ At("Brace") /\ cur = "}" /\ Take /\ Return(Primary)
  \/ At("Brace") /\ cur # "}" /\ Stay /\ Call(F("Brace.first"), EXPR)
  \/ At("Brace.first") /\ cur = ":" /\ Take /\ Call(F("Brace.value"), EXPR)
  \/ At("Brace.first") /\ cur # ":" /\ Stay /\ Become(IF cur = "for" THEN Clauses("}") ELSE Elements("}"))
  \/ At("Brace.value") /\ cur = "for" /\ Stay /\ Become(Clauses("}"))
  \/ At("Brace.value") /\ cur # "for" /\ Comma(F("Dict.key"), F("Dict.close"))
  \/ At("Dict.key") /\ cur = "}" /\ Stay /\ Become(F("Dict.close"))
  \/ At("Dict.key") /\ cur # "}" /\ Stay /\ Call(F("Dict.colon"), EXPR)
  \/ At("Dict.colon") /\ Expect({":"}) /\ Call(F("Dict.pair"), EXPR)
  \/ At("Dict.pair") /\ Comma(F("Dict.key"), F("Dict.close"))
  \/ At("Dict.close") /\ Expect({"}"}) /\ Return(Primary)
ParseFString ==
  \/ At("FString") /\ cur = "fend" /\ Take /\ Return(Primary)
  \/ At("FString") /\ cur = "string" /\ Take /\ Become(Top)
  \/ At("FString") /\ cur = "{" /\ Take /\ Call(F("FString.format"), EXPR)
  \/ At("FString") /\ cur \notin {"fend", "string", "{"} /\ Report /\ Return(Primary)
  \/ At("FString.format") /\ Read(FALSE, cur = "format", FALSE) /\ Become(F("FString.close"))
  \/ At("FString.close") /\ Expect({"}"}) /\ Become(F("FString"))

ParseExpression ==
  /\ \/ ParsePrecedence \/ ParseGrouping \/ ParseUnary \/ ParseBinary \/ ParseLogical \/ ParseCall
     \/ ParseIndexOrSlice \/ ParseAttr \/ ParseCompareChain \/ ParseConditional \/ ParseAwait
     \/ ParseSelfSuper \/ ParseLambdaParams \/ ParseComprehensionClauses \/ ParseElements
     \/ ParseListOrComprehension \/ ParseBraceLiteral \/ ParseFString
  /\ UNCHANGED context

(***************************** simple statements ******************************)

Assignable == {"IDENT", "INDEX", "ATTR"}
Star       == Node("STAR", 1)       \* the unpack target '*x'
NoItems    == [count |-> 0, first |-> "none", stars |-> 0, bad |-> FALSE]
WithItem(l, n) ==
  [count |-> Least(2, l.count + 1), first |-> IF l.count = 0 THEN n.kind ELSE l.first,
   stars |-> IF n.kind = "STAR" THEN Least(2, l.stars + 1) ELSE l.stars,
   bad   |-> l.bad \/ n.kind \notin Assignable \cup {"STAR"}]
\* validateAssignTargets: only one report comes through, whichever is first.
Refused(l, allowUnpack) == l.bad \/ l.stars > 1 \/ (l.stars = 1 /\ ~allowUnpack)

Items(min, then) == [at |-> "Items", min |-> min, items |-> NoItems, then |-> then]
ParseSimpleItems ==
  \/ At("Items") /\ cur = "*" /\ ahead \in Ident /\ Take /\ Become(Go("Items.star"))
  \/ At("Items.star") /\ Take /\ Yield(Go("Items.item"), Star)
  \/ At("Items") /\ ~(cur = "*" /\ ahead \in Ident) /\ Stay /\ Call(Go("Items.item"), Expr(Top.min))
  \/ At("Items.item") /\ LET items == WithItem(Top.items, ret)
                         IN  Comma([Top EXCEPT !.at = "Items", !.items = items], [at |-> Top.then, items |-> items])
AssignOp == {":=", "=", "+="}
Reinterpret ==
  \/ /\ At("Reinterpret") /\ cur \in AssignOp
     /\ Read(Refused(Top.items, cur = ":="), TRUE, FALSE)
     /\ Call([at |-> "Values", op |-> cur, items |-> Top.items, values |-> 1], EXPR)
  \/ At("Values") /\ cur = "," /\ Take /\ Call([Top EXCEPT !.values = 2], EXPR)
  \/ At("Values") /\ cur # "," /\ ReportIf(Top.op = "+=" /\ (Top.items.count > 1 \/ Top.values > 1)) /\ Done
  \/ /\ At("Reinterpret") /\ cur = "++"
     /\ Read(FALSE, TRUE, ~context.allowIncDec \/ Top.items.count > 1 \/ Top.items.first \notin Assignable)
     /\ Done
  \/ /\ At("Reinterpret") /\ cur \notin AssignOp \cup {"++"}
     /\ ReportIf(Top.items.count > 1 \/ Top.items.first = "STAR") /\ Done
Simple == Items(COND, "Reinterpret")

Names == F("Names")
ParseNames ==     \* a list of identifiers
  \/ At("Names") /\ Expect(Ident) /\ Become(F("Names.comma"))
  \/ At("Names.comma") /\ cur = "," /\ Take /\ Become(Names)
  \/ At("Names.comma") /\ cur # "," /\ Stay /\ Done
ParseImport ==
  \/ At("Import") /\ cur = "import" /\ Take /\ Become(F("Import.path"))
  \/ At("Import.path") /\ Expect({"string"}) /\ Become(F("Import.as"))
  \/ At("Import.as") /\ cur = "as" /\ Take /\ Become(F("Import.name"))
  \/ At("Import.as") /\ cur # "as" /\ Stay /\ Done
  \/ At("Import.name") /\ Expect(Ident) /\ Done
  \/ At("Import") /\ cur = "from" /\ Take /\ Become(F("From.path"))
  \/ At("From.path") /\ Expect({"string"}) /\ Become(F("From.import"))
  \/ At("From.import") /\ Expect({"import"}) /\ Become(F("From.names"))
  \/ At("From.names") /\ cur # "(" /\ Stay /\ Become(Names)
  \/ At("From.names") /\ cur = "(" /\ Take /\ Become(F("From.group"))
  \/ At("From.group") /\ cur \in {")", "EOF"} /\ Stay /\ Become(F("From.close"))
  \/ At("From.group") /\ cur \notin {")", "EOF"} /\ Expect(Ident) /\ Become(F("From.comma"))
  \/ At("From.comma") /\ Comma(F("From.group"), F("From.close"))
  \/ At("From.close") /\ Expect({")"}) /\ Done
ParseReturn ==
  \/ At("Return") /\ Read(FALSE, TRUE, context.funcDepth = 0) /\ Become(F("Return.value"))
  \/ At("Return.value") /\ cur \in Prefix /\ Stay /\ Call(F("Return.comma"), EXPR)
  \/ At("Return.value") /\ cur \notin Prefix /\ Stay /\ Done
  \/ At("Return.comma") /\ cur = "," /\ Take /\ Become(F("Return.value"))
  \/ At("Return.comma") /\ cur # "," /\ Stay /\ Done
ParseRaise ==
  \/ At("Raise") /\ Take /\ Call(F("Raise.from"), EXPR)
  \/ At("Raise.from") /\ cur = "from" /\ Take /\ Become(EXPR)
  \/ At("Raise.from") /\ cur # "from" /\ Stay /\ Done
ParseDel ==
  \/ At("Del") /\ Take /\ Call(F("Del.target"), EXPR)
  \/ At("Del.target") /\ Read(ret.kind \notin Assignable, cur = ",", FALSE)
     /\ IF cur = "," THEN Call(Top, EXPR) ELSE Done
ParseGlobal        == At("Global") /\ Take /\ Become(Names)
ParseBreakContinue == At("Break") /\ Read(FALSE, TRUE, context.loopDepth = 0) /\ Done
ParsePass          == At("Pass") /\ Take /\ Done

(**************************** compound statements *****************************)

Block == F("Block")
\* A block that is not closed is not reported.
ParseBlockOpen ==
  \/ At("Block") /\ Take /\ Become(F("Block.body"))
  \/ At("Block.body") /\ cur \notin {"}", "EOF"} /\ ~Full /\ Stay /\ Call(Top, F("Statement"))
  \/ At("Block.body") /\ (cur \in {"}", "EOF"} \/ Full) /\ Read(FALSE, cur = "}", FALSE) /\ Done
ParseBlock ==
  \/ At("Block") /\ Take /\ Become(F("Block.body"))
  \/ At("Block.body") /\ cur \notin {"}", "EOF"} /\ ~Full /\ Stay /\ Call(Top, F("Statement"))
  \/ At("Block.body") /\ (cur \in {"}", "EOF"} \/ Full) /\ Expect({"}"}) /\ Done
RequiredBlock == F("RequiredBlock")
ParseRequiredBlock ==
  \/ At("RequiredBlock") /\ cur = "{" /\ Stay /\ Become(Block)
  \/ At("RequiredBlock") /\ cur # "{" /\ Report /\ Return(Invalid)
ParseIf ==
  \/ At("If") /\ Take /\ Call(F("If.then"), EXPR)
  \/ At("If.then") /\ Stay /\ Call(F("If.else"), RequiredBlock)
  \/ At("If.else") /\ cur = "else" /\ Take /\ Become(F("Else"))
  \/ At("If.else") /\ cur # "else" /\ Stay /\ Done
  \/ At("Else") /\ Stay /\ Become(IF cur = "if" THEN F("If") ELSE RequiredBlock)
ParseTry ==
  \/ At("Try") /\ Take /\ Call([at |-> "Try.clause", handled |-> FALSE], RequiredBlock)
  \/ At("Try.clause") /\ cur = "except" /\ Take /\ Become(F("Except"))
  \/ At("Try.clause") /\ cur = "finally" /\ Take /\ Become(RequiredBlock)
  \/ At("Try.clause") /\ cur \notin {"except", "finally"} /\ ReportIf(~Top.handled) /\ Done
  \/ At("Except") /\ cur = "{" /\ Stay /\ Become(F("Except.body"))
  \/ At("Except") /\ cur # "{" /\ Stay /\ Call(F("Except.as"), EXPR)
  \/ At("Except.as") /\ cur = "as" /\ Take /\ Become(F("Except.name"))
  \/ At("Except.as") /\ cur # "as" /\ Stay /\ Become(F("Except.body"))
  \/ At("Except.name") /\ Expect(Ident) /\ Become(F("Except.body"))
  \/ At("Except.body") /\ Stay /\ Call([at |-> "Try.clause", handled |-> TRUE], RequiredBlock)
ParseWith ==
  \/ At("With") /\ Take /\ Call(F("With.as"), EXPR)
  \/ At("With.as") /\ cur = "as" /\ Take /\ Become(F("With.name"))
  \/ At("With.as") /\ cur # "as" /\ Stay /\ Become(RequiredBlock)
  \/ At("With.name") /\ Expect(Ident) /\ Become(RequiredBlock)

IsCase == cur \in {"case", "default"}
ParseSelectCaseBody ==
  \/ At("Case.body") /\ cur \notin {"case", "default", "}", "EOF"} /\ ~Full /\ Stay /\ Call(Top, F("Statement"))
  \/ At("Case.body") /\ (cur \in {"case", "default", "}", "EOF"} \/ Full) /\ Stay /\ Done
ParseSelectCase ==
  \/ At("Case") /\ cur = "default" /\ Take /\ Become(F("Case.colon"))
  \/ At("Case") /\ cur = "case" /\ Take /\ Become(F("Case.targets"))
  \/ At("Case.targets") /\ cur \in Ident /\ ahead \in {",", ":=", "="} /\ Take /\ Become(F("Case.comma"))
  \/ At("Case.targets") /\ ~(cur \in Ident /\ ahead \in {",", ":=", "="}) /\ Stay
     /\ Call([at |-> "Case.shape", targets |-> FALSE], EXPR)
  \/ At("Case.comma") /\ Comma(F("Case.name"), F("Case.assign"))
  \/ At("Case.name") /\ Expect(Ident) /\ Become(IF cur \in Ident THEN F("Case.comma") ELSE F("Case.assign"))
  \/ At("Case.assign") /\ Expect({":=", "="}) /\ Call([at |-> "Case.shape", targets |-> TRUE], EXPR)
  \/ /\ At("Case.shape")
     /\ ReportIf(~(ret.kind = "CALL" /\ \/ ret.name = "recv" /\ ret.args = 0
                                        \/ ret.name = "send" /\ ret.args = 1 /\ ~Top.targets))
     /\ Become(F("Case.colon"))
  \/ At("Case.colon") /\ Expect({":"}) /\ Become(F("Case.body"))
ParseSelect ==
  \/ At("Select") /\ Take /\ Become(F("Select.open"))
  \/ At("Select.open") /\ Expect({"{"}) /\ Become(F("Select.body"))
  \/ At("Select.body") /\ IsCase /\ Stay /\ Call(Top, F("Case"))
  \/ At("Select.body") /\ ~IsCase /\ cur \notin {"}", "EOF"} /\ Skip /\ Become(Top)
  \/ At("Select.body") /\ cur \in {"}", "EOF"} /\ Expect({"}"}) /\ Done

\* seen: what kinds of parameters came before, "default" one of them; names: theirs.
Params(async, method) ==
  [at |-> "Params", async |-> async, method |-> method, seen |-> {}, names |-> {}, kind |-> "normal"]
ParamKind == [t \in {"*", "**"} |-> IF t = "*" THEN "varargs" ELSE "kwargs"]
OutOfOrder == \/ "kwargs" \in Top.seen
              \/ Top.kind = "normal" /\ ("varargs" \in Top.seen \/ ("default" \in Top.seen /\ ret.kind = "none"))
              \/ Top.kind = "varargs" /\ "varargs" \in Top.seen
ParseParams ==
  \/ At("Params") /\ cur \in {")", "EOF"} /\ Stay /\ Become(Go("Func.close"))
  \/ At("Params") /\ cur \in DOMAIN ParamKind /\ Take /\ Become([Top EXCEPT !.at = "Param", !.kind = ParamKind[cur]])
  \/ At("Params") /\ cur \notin {")", "EOF"} \cup DOMAIN ParamKind /\ Stay
     /\ Become([Top EXCEPT !.at = "Param", !.kind = "normal"])
  \/ At("Param") /\ LET named == cur \in Ident \cup {"self"}
                    IN  /\ Read(~named, named, named /\ cur \in Top.names)
                        /\ Become([Top EXCEPT !.at = "Param.default", !.names = IF named THEN @ \cup {cur} ELSE @])
  \/ At("Param.default") /\ Top.kind = "normal" /\ cur = "=" /\ Take /\ Call(Go("Param.order"), EXPR)
  \/ At("Param.default") /\ ~(Top.kind = "normal" /\ cur = "=") /\ Stay /\ Become(Go("Param.order"))
  \/ /\ At("Param.order") /\ Read(OutOfOrder, cur = ",", FALSE)
     /\ Become([Top EXCEPT !.at = IF cur = "," THEN "Params" ELSE "Func.close",
                           !.seen = @ \cup {Top.kind} \cup (IF ret.kind = "none" THEN {} ELSE {"default"})])
Func(async, method) == [at |-> "Func", async |-> async, method |-> method]
ParseFuncHead ==
  \/ At("Func") /\ Take /\ Become(Go("Func.name"))
  \/ At("Func.name") /\ Expect(Ident) /\ Become(Go("Func.open"))
  \/ At("Func.open") /\ Expect({"("}) /\ Become(Params(Top.async, Top.method))
\* The loops around the function are still counted in its body.
ParseFuncBodyInLoop ==
  \/ /\ At("Func.close") /\ Expect({")"})
     /\ context' = [context EXCEPT !.funcDepth = @ + 1, !.funcIsAsync = Top.async, !.inMethod = Top.method]
     /\ Call([at |-> "Func.body", saved |-> context, async |-> Top.async, method |-> Top.method], RequiredBlock)
  \/ /\ At("Func.body") /\ Stay /\ Done
     /\ context' = [Top.saved EXCEPT !.classDepth = context.classDepth, !.allowIncDec = context.allowIncDec]
ParseFuncBody ==
  \/ /\ At("Func.close") /\ Expect({")"})
     /\ context' = [context EXCEPT !.loopDepth = 0, !.funcDepth = @ + 1, !.funcIsAsync = Top.async,
                                   !.inMethod = Top.method]
     /\ Call([at |-> "Func.body", saved |-> context, async |-> Top.async, method |-> Top.method], RequiredBlock)
  \/ /\ At("Func.body") /\ Stay /\ Done
     /\ context' = [Top.saved EXCEPT !.classDepth = context.classDepth, !.allowIncDec = context.allowIncDec]
ParseClassHead ==
  \/ At("Class") /\ Take /\ Become(F("Class.name"))
  \/ At("Class.name") /\ Expect(Ident) /\ Become(F("Class.super"))
  \/ At("Class.super") /\ cur = "<" /\ Take /\ Call(F("Class.open"), EXPR)
  \/ At("Class.super") /\ cur # "<" /\ Stay /\ Become(F("Class.open"))
Method(static, async) == [at |-> "Class.method", static |-> static, async |-> async]
\* A member that is no method is not skipped.
ParseClassMemberStuck ==
  \/ At("Class.body") /\ cur \notin {"}", "EOF"} /\ Stay /\ Become(Method(FALSE, FALSE))
  \/ At("Class.method") /\ cur = "func" /\ Stay /\ Call(F("Class.end"), Func(Top.async, ~Top.static))
  \/ At("Class.method") /\ cur # "func" /\ Report /\ Become(F("Class.body"))
  \/ At("Class.end") /\ Read(FALSE, cur = ";", FALSE) /\ Become(F("Class.body"))
ParseClassMember ==
  \/ At("Class.body") /\ cur = "static" /\ ahead = "func" /\ Take /\ Become(Method(TRUE, FALSE))
  \/ At("Class.body") /\ cur = "async" /\ Read(ahead # "func", TRUE, FALSE) /\ Become(Method(FALSE, TRUE))
  \/ At("Class.body") /\ cur \notin {"}", "EOF", "async"} /\ ~(cur = "static" /\ ahead = "func") /\ Stay
     /\ Become(Method(FALSE, FALSE))
  \/ At("Class.method") /\ cur = "func" /\ Stay /\ Call(F("Class.end"), Func(Top.async, ~Top.static))
  \/ At("Class.method") /\ cur # "func" /\ Skip /\ Become(F("Class.body"))
  \/ At("Class.end") /\ Read(FALSE, cur = ";", FALSE) /\ Become(F("Class.body"))
ParseClassEnds ==
  \/ At("Class.open") /\ Expect({"{"}) /\ Become(F("Class.body"))
     /\ context' = [context EXCEPT !.classDepth = @ + 1]
  \/ At("Class.body") /\ cur \in {"}", "EOF"} /\ Expect({"}"}) /\ Done
     /\ context' = [context EXCEPT !.classDepth = @ - 1]
InLoop == context' = [context EXCEPT !.loopDepth = @ + 1]
ParseFor ==
  \/ At("For") /\ Take /\ Become(F("For.first"))
  \/ At("For.first") /\ cur # "{" /\ Stay /\ Become(Items(COMP + 1, "For.in"))
  \/ At("For.in") /\ cur = "in" /\ Read(FALSE, TRUE, Refused(Top.items, TRUE)) /\ Call(F("Loop"), EXPR)
  \/ At("For.in") /\ cur # "in" /\ Stay /\ Call(F("For.init"), [at |-> "Reinterpret", items |-> Top.items])
  \/ At("For.init") /\ Expect({";"}) /\ Call(F("For.condition"), EXPR)
ParseWhile == At("While") /\ Take /\ Call(F("Loop"), EXPR)
ParseLoop ==
  \/ At("For.first") /\ cur = "{" /\ Stay /\ InLoop /\ Call(F("Loop.body"), Block)
  \/ At("For.condition") /\ Expect({";"}) /\ context' = [context EXCEPT !.allowIncDec = TRUE]
     /\ Call([at |-> "For.post", saved |-> context.allowIncDec], Simple)
  \/ At("For.post") /\ Stay /\ context' = [context EXCEPT !.allowIncDec = Top.saved] /\ Become(F("Loop"))
  \/ At("Loop") /\ Stay /\ InLoop /\ Call(F("Loop.body"), RequiredBlock)
  \/ At("Loop.body") /\ Stay /\ context' = [context EXCEPT !.loopDepth = @ - 1] /\ Done

(********************************* statements *********************************)

Keyword ==
  [t \in {"if", "for", "while", "try", "with", "select", "class", "import", "from", "return", "raise", "del",
          "global", "break", "continue", "pass"} |->
     CASE t = "if" -> "If" [] t = "for" -> "For" [] t = "while" -> "While" [] t = "try" -> "Try"
       [] t = "with" -> "With" [] t = "select" -> "Select" [] t = "class" -> "Class"
       [] t \in {"import", "from"} -> "Import" [] t = "return" -> "Return" [] t = "raise" -> "Raise"
       [] t = "del" -> "Del" [] t = "global" -> "Global" [] t \in {"break", "continue"} -> "Break"
       [] OTHER -> "Pass"]
BraceTerminated == {"if", "for", "while", "try", "with", "select", "class"}
Boundary == DOMAIN Keyword \cup {"func", "async", "{", "}", "case", "default"}
Ending(braced) == [at |-> "Statement.end", braced |-> braced, was |-> panic]

\* An error at the end of a statement leaves the parser panicking.
ParseStatementEndUnsynced ==
  \/ At("Statement.end") /\ panic /\ Stay /\ IF Top.was THEN Done ELSE Become(F("Synchronize"))
  \/ At("Statement.end") /\ ~panic /\ Top.braced /\ Read(FALSE, cur = ";", FALSE) /\ Done
  \/ At("Statement.end") /\ ~panic /\ ~Top.braced /\ cur = "}" /\ Stay /\ Done
  \/ At("Statement.end") /\ ~panic /\ ~Top.braced /\ cur # "}" /\ Expect({";"}) /\ Done
ParseStatementEnd ==
  \/ At("Statement.end") /\ panic /\ Top.was /\ Stay /\ Done
  \/ At("Statement.end") /\ panic /\ ~Top.was /\ Stay /\ Become(F("Synchronize"))
  \/ At("Statement.end") /\ ~panic /\ Top.braced /\ Read(FALSE, cur = ";", FALSE) /\ Done     \* consumeOptionalStatementEnd
  \/ At("Statement.end") /\ ~panic /\ ~Top.braced /\ cur = "}" /\ Stay /\ Done                \* consumeStatementEnd
  \/ At("Statement.end") /\ ~panic /\ ~Top.braced /\ cur # "}" /\ Expect({";"})
     /\ IF cur = ";" \/ Top.was THEN Done ELSE Become(F("Synchronize"))
ParseStatement ==
  \/ At("Statement") /\ cur = ";" /\ Skip /\ IF panic THEN Done ELSE Become(F("Synchronize"))
  \/ At("Statement") /\ cur = "{" /\ Stay /\ Call(Ending(TRUE), Block)
  \/ At("Statement") /\ cur \in DOMAIN Keyword /\ Stay /\ Call(Ending(cur \in BraceTerminated), F(Keyword[cur]))
  \/ At("Statement") /\ cur = "func" /\ Stay /\ Call(Ending(TRUE), Func(FALSE, FALSE))
  \/ At("Statement") /\ cur = "async" /\ ahead = "func" /\ Take /\ Call(Ending(TRUE), Func(TRUE, FALSE))
  \/ At("Statement") /\ cur = "async" /\ ahead # "func" /\ Skip /\ Call(Ending(FALSE), Simple)
  \/ At("Statement") /\ cur \notin {";", "{", "func", "async"} \cup DOMAIN Keyword /\ Stay /\ Call(Ending(FALSE), Simple)
Synchronize ==
  /\ At("Synchronize") /\ panic' = FALSE
  /\ IF cur = "EOF" \/ cur \in Boundary THEN UNCHANGED <<input, diags>> /\ Done
     ELSE /\ \E s \in Arriving(diags) :
               /\ cur' = s.token /\ diags' = s.diags /\ ahead' = "none"
               /\ IF ahead \notin {"none", "INVALID"} THEN UNCHANGED <<script, left, nest, torn>> ELSE Scan(s)
          /\ IF cur = ";" THEN Done ELSE Become(Top)

Advancing ==     \* the first token
  At("Start") /\ Take /\ Become(F("SourceFile"))
ParseNext == At("SourceFile") /\ cur # "EOF" /\ ~Full /\ Stay /\ Call(Top, F("Statement"))

ParseQuietly ==
  /\ \/ ParseSimpleItems \/ Reinterpret \/ ParseNames \/ ParseImport \/ ParseReturn \/ ParseRaise \/ ParseDel
     \/ ParseGlobal \/ ParseBreakContinue \/ ParsePass \/ ParseBlock \/ ParseRequiredBlock \/ ParseIf
     \/ ParseTry \/ ParseWith \/ ParseSelectCaseBody \/ ParseSelectCase \/ ParseSelect \/ ParseParams
     \/ ParseFuncHead \/ ParseClassHead \/ ParseClassMember \/ ParseFor \/ ParseWhile \/ ParseStatement
     \/ ParseStatementEnd \/ Synchronize \/ Advancing \/ ParseNext
  /\ UNCHANGED context
\* The routines that say where a loop, a function, a method or a class begins and ends.
ParseInContext == ParseLambdaBody \/ ParseFuncBody \/ ParseClassEnds \/ ParseLoop

(********************************* msParserParse ******************************)

Running == result = "running"
\* Where msLexerPeek is asked.
Peeks == /\ ahead = "none"
         /\ \/ At("Fold") /\ cur = "not" /\ COMP >= Top.min
            \/ At("Compare.link") /\ cur = "not"
            \/ At("Call") /\ cur \in Ident
            \/ At("Items") /\ cur = "*"
            \/ At("Case.targets") /\ cur \in Ident
            \/ At("Class.body") /\ cur \in {"static", "async"}
            \/ At("Statement") /\ cur = "async"
Parse ==
  /\ Running
  /\ IF Peeks THEN LookAhead ELSE ParseExpression \/ ParseQuietly \/ ParseInContext
  /\ flawed' = (flawed \/ ret'.kind = "INVALID")
  /\ UNCHANGED <<dialect, atEntry, result>>
\* A node or the list of one is refused: every routine under way returns NULL.
Refuse ==
  /\ Running /\ dialect.scarce /\ Top.at \notin {"Start", "Statement", "Statement.end", "Synchronize"}
  /\ Report /\ result' = "MS_ERROR_OOM" /\ stack' = <<>> /\ ret' = Nothing
  /\ UNCHANGED <<dialect, atEntry, context, flawed>>
Finish ==
  /\ Running /\ At("SourceFile") /\ (cur = "EOF" \/ Full)
  /\ result' = IF diags > atEntry THEN "MS_ERROR_SYNTAX" ELSE "MS_OK"
  /\ stack' = <<>> /\ ret' = Nothing
  /\ UNCHANGED <<dialect, input, diags, atEntry, panic, context, flawed>>
Ended == ~Running /\ UNCHANGED vars

Outside == [loopDepth |-> 0, funcDepth |-> 0, funcIsAsync |-> FALSE, classDepth |-> 0, inMethod |-> FALSE,
            allowIncDec |-> FALSE]
Init ==
  /\ dialect \in Dialects
  /\ cur = "START" /\ ahead = "none" /\ script = dialect.begin /\ left = dialect.size
  /\ nest = <<>> /\ torn = FALSE
  /\ atEntry \in {0, 1} /\ diags = atEntry     \* a byte order mark is reported before the parse
  /\ panic = FALSE /\ context = Outside /\ stack = <<F("Start")>> /\ ret = Nothing
  /\ flawed = FALSE /\ result = "running"
Next == Parse \/ Refuse \/ Finish \/ Ended
Spec == Init /\ [][Next]_vars /\ WF_vars(Next)     \* a function that was called runs

(********************************* properties *********************************)

\* The context the checks of break, return, await, self and '++' read is the one of the
\* constructs open around the token, whatever was nested, closed or given up before it
\* (E206, E209, E210).
Inside(labels) == {i \in DOMAIN stack : stack[i].at \in labels}
Functions == Inside({"Func.body", "Lambda.body"})
Within(i, set) == \E j \in set : j > i
ContextExact ==
  Running =>
    /\ context.funcDepth = Cardinality(Functions)
    /\ context.loopDepth = Cardinality({i \in Inside({"Loop.body"}) : ~Within(i, Functions)})
    /\ context.classDepth = Cardinality(Inside({"Class.body", "Class.method", "Class.end"}))
    /\ context.funcIsAsync = \E i \in Functions : ~Within(i, Functions) /\ stack[i].at = "Func.body" /\ stack[i].async
    /\ context.inMethod = \E i \in Inside({"Func.body"}) : ~Within(i, Inside({"Func.body"})) /\ stack[i].method
    /\ context.allowIncDec = (Inside({"For.post"}) # {})

\* A program accepted has a tree with no placeholder in it, and its brackets and f-strings
\* pair up: no routine gives up on a construct without a report.
AcceptedWhole == result = "MS_OK" => ~flawed /\ nest = <<>> /\ ~torn

\* An operation is built over operands that bind as the table of docs/language/03-syntax.md,
\* section 6, wants: a left operand at least as tightly as the operator, a right one more
\* tightly ('**' and the conditional the other way round), or one that begins with a prefix.
Binds(n, level) == n.level <= level \/ n.kind \in {"UNARY", "LAMBDA"}
FollowsTable ==
  Running /\ ~flawed =>
    /\ At("Binary.right") \/ At("Logical.right") =>
         LET level == Level[Top.op]
         IN  IF Top.op = "**" THEN Top.operand.level < level /\ Binds(ret, level)
             ELSE Top.operand.level <= level /\ Binds(ret, level - 1)
    /\ At("Compare.link") => Top.operand.level < 11 /\ Binds(ret, 10)
    /\ At("Conditional.else") => Top.operand.level < 14 /\ Binds(ret, 13)
    /\ At("Conditional.end") => Binds(ret, 14)
    /\ At("Call") \/ At("Index") \/ At("Attr") => Top.operand.level <= 2
    /\ At("Unary.operand") => Binds(ret, 3)
    /\ At("Await.end") => Binds(ret, 2)

\* While the parser keeps quiet after an error, the statement that will end the silence is
\* under way: no error hides those of the rest of the file (parseStatement).
SilenceEnds ==
  Running /\ panic => \/ At("Synchronize")
                      \/ \E i \in Inside({"Statement.end"}) : ~stack[i].was

\* The parse ends, unless it stays for ever in the block or the case of a construct that was
\* already broken: the loop of parseBlock or parseSelectCaseBody, which panics and takes nothing.
Stalled == panic /\ Inside({"Block.body", "Case.body"}) # {}
EndsOrStalls == <>(~Running) \/ <>[]Stalled

\* The parse of a text ends: the loop is guarded against "pathological no-progress loops"
\* (msParserParse).
Terminates == <>(~Running)
=============================================================================
