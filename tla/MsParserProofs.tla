--------------------------- MODULE MsParserProofs ---------------------------
(* Proofs about the parser, whatever the text, the depth of the nesting and  *)
(* the limit of diagnostics: the silence after an error always ends with the *)
(* statement that began it, the context the checks read is always that of    *)
(* the constructs open around the token, the operands of an operator bind as *)
(* the table of precedence wants, and a program accepted is whole: no        *)
(* placeholder in its tree, and its brackets and f-strings pair up.          *)
EXTENDS MsParser, MsInduction, SequenceTheorems, FiniteSetTheorems, TLAPS

IsSeq(s) == \E S : s \in Seq(S)

\* A routine of the parser replaces its own frame by at most two.
Moves == \/ stack' = Pop(stack)
         \/ \E f : stack' = Append(Pop(stack), f)
         \/ \E f, g : stack' = Pop(stack) \o <<f, g>>

\* Where msParserParse and the statement it calls can be.
Outer == {"Start", "SourceFile", "Statement", "Statement.end", "Synchronize"}

\* The statement at the bottom of the stack began without panic, and is the one that ends it.
Outermost(s, quiet) ==
  /\ IsSeq(s) /\ Len(s) >= 1 /\ s[1].at \in {"Start", "SourceFile"}
  /\ Len(s) = 1 => ~quiet
  /\ Len(s) = 2 => /\ s[2].at \in {"Statement", "Statement.end", "Synchronize"}
                   /\ s[2].at = "Statement" => ~quiet
                   /\ s[2].at = "Statement.end" => ~s[2].was
  /\ Len(s) > 2 => s[2].at = "Statement.end" /\ ~s[2].was
SilenceInv == Running => Outermost(stack, panic)

----------------------------------------------------------------------------
(* The stack.                                                                *)

LEMMA PopFacts ==
  ASSUME NEW s, IsSeq(s), Len(s) >= 1
  PROVE  /\ IsSeq(Pop(s)) /\ Len(Pop(s)) = Len(s) - 1 /\ Len(s) \in Nat
         /\ \A i \in 1..(Len(s) - 1) : Pop(s)[i] = s[i]
  <1>1. PICK S : s \in Seq(S)
    BY DEF IsSeq
  <1> DEFINE n == Len(s) - 1
  <1>2. /\ Len(s) \in Nat /\ n \in Int /\ n >= 0 /\ 1 \in Int
        /\ \A i \in 1..n : s[i] \in S
    BY <1>1
  <1> HIDE DEF n
  <1>3. /\ SubSeq(s, 1, n) \in Seq(S)
        /\ Len(SubSeq(s, 1, n)) = IF 1 <= n THEN n - 1 + 1 ELSE 0
        /\ \A i \in 1..(n - 1 + 1) : SubSeq(s, 1, n)[i] = s[1 + i - 1]
    BY <1>2, SubSeqProperties
  <1>4. /\ SubSeq(s, 1, n) \in Seq(S) /\ Len(SubSeq(s, 1, n)) = n
        /\ \A i \in 1..n : SubSeq(s, 1, n)[i] = s[i]
    BY <1>2, <1>3
  <1> QED BY <1>2, <1>4 DEF IsSeq, Pop, n

LEMMA PushFacts ==
  ASSUME NEW s, IsSeq(s), NEW f
  PROVE  /\ IsSeq(Append(s, f)) /\ Len(Append(s, f)) = Len(s) + 1
         /\ \A i \in 1..Len(s) : Append(s, f)[i] = s[i]
         /\ Append(s, f)[Len(s) + 1] = f
  <1>1. PICK S : s \in Seq(S)
    BY DEF IsSeq
  <1> DEFINE T == S \cup {f}
  <1>2. s \in Seq(T) /\ f \in T
    BY <1>1
  <1> HIDE DEF T
  <1> QED BY <1>2 DEF IsSeq

LEMMA PushTwoFacts ==
  ASSUME NEW s, IsSeq(s), NEW f, NEW g
  PROVE  /\ IsSeq(s \o <<f, g>>) /\ Len(s \o <<f, g>>) = Len(s) + 2
         /\ \A i \in 1..Len(s) : (s \o <<f, g>>)[i] = s[i]
         /\ (s \o <<f, g>>)[Len(s) + 1] = f /\ (s \o <<f, g>>)[Len(s) + 2] = g
  <1>1. PICK S : s \in Seq(S)
    BY DEF IsSeq
  <1> DEFINE T == S \cup {f, g}
  <1>2. s \in Seq(T) /\ <<f, g>> \in Seq(T) /\ Len(<<f, g>>) = 2
        /\ <<f, g>>[1] = f /\ <<f, g>>[2] = g
    BY <1>1
  <1> DEFINE t == <<f, g>>
  <1> HIDE DEF T, t
  <1>3. s \in Seq(T) /\ t \in Seq(T) /\ Len(t) = 2 /\ t[1] = f /\ t[2] = g
    BY <1>2 DEF t
  <1>4. /\ s \o t \in Seq(T) /\ Len(s \o t) = Len(s) + Len(t)
        /\ \A i \in 1..(Len(s) + Len(t)) :
             (s \o t)[i] = IF i <= Len(s) THEN s[i] ELSE t[i - Len(s)]
    BY <1>3, ConcatProperties
  <1>5. Len(s) \in Nat
    BY <1>3
  <1> DEFINE u == s \o t
  <1> HIDE DEF u
  <1>6. /\ u \in Seq(T) /\ Len(u) = Len(s) + 2
        /\ \A i \in 1..(Len(s) + 2) : u[i] = IF i <= Len(s) THEN s[i] ELSE t[i - Len(s)]
    BY <1>3, <1>4 DEF u
  <1>7. /\ \A i \in 1..Len(s) : u[i] = s[i]
        /\ u[Len(s) + 1] = t[1] /\ u[Len(s) + 2] = t[2]
    BY <1>5, <1>6
  <1> QED BY <1>3, <1>6, <1>7 DEF IsSeq, t, u

----------------------------------------------------------------------------
(* Every routine below a statement moves on the top of the stack only, and is *)
(* not taken for msParserParse or the statement it called.                   *)

Pushed(t, s, f, g) == /\ IsSeq(t) /\ Len(t) = Len(s) + 2
                      /\ \A i \in 1..Len(s) : t[i] = s[i]
                      /\ t[Len(s) + 1] = f /\ t[Len(s) + 2] = g
LEMMA PushedTwo ==
  ASSUME NEW s, IsSeq(s), NEW f, NEW g
  PROVE  Pushed(s \o <<f, g>>, s, f, g)
<1> DEFINE u == s \o <<f, g>>
<1>1. /\ IsSeq(u) /\ Len(u) = Len(s) + 2
      /\ \A i \in 1..Len(s) : u[i] = s[i]
  BY PushTwoFacts
<1>2. u[Len(s) + 1] = f
  BY PushTwoFacts
<1>3. u[Len(s) + 2] = g
  BY PushTwoFacts
<1> HIDE DEF u
<1>4. Pushed(u, s, f, g)
  BY <1>1, <1>2, <1>3 DEF Pushed
<1> QED BY <1>4 DEF u

LEMMA CallsMove ==
  /\ \A f : Become(f) => Moves
  /\ \A f, n : Yield(f, n) => Moves
  /\ \A f, g : Call(f, g) => Moves
  /\ \A n : Return(n) => Moves
  /\ \A f, g : Comma(f, g) => Moves
  /\ Done => Moves
BY DEF Become, Yield, Call, Return, Comma, Done, Moves

Inner == Moves /\ Top.at \notin Outer

\* Expressions.
LEMMA ExpressionInner == ParseExpression => Inner
<1>1. ParsePrecedence => Inner
  BY CallsMove DEF ParsePrecedence, Inner, At, Outer
<1>2. ParseGrouping => Inner
  BY CallsMove DEF ParseGrouping, Inner, At, Outer
<1>3. ParseUnary => Inner
  BY CallsMove DEF ParseUnary, Inner, At, Outer
<1>4. ParseBinary => Inner
  BY CallsMove DEF ParseBinary, Inner, At, Outer
<1>5. ParseLogical => Inner
  BY CallsMove DEF ParseLogical, Inner, At, Outer
<1>6. ParseCall => Inner
  BY CallsMove DEF ParseCall, Inner, At, Outer
<1>7. ParseIndexOrSlice => Inner
  BY CallsMove DEF ParseIndexOrSlice, Inner, At, Outer
<1>8. ParseAttr => Inner
  BY CallsMove DEF ParseAttr, Inner, At, Outer
<1>9. ParseCompareChain => Inner
  BY CallsMove DEF ParseCompareChain, Inner, At, Outer
<1>10. ParseConditional => Inner
  BY CallsMove DEF ParseConditional, Inner, At, Outer
<1>11. ParseAwait => Inner
  BY CallsMove DEF ParseAwait, Inner, At, Outer
<1>12. ParseSelfSuper => Inner
  BY CallsMove DEF ParseSelfSuper, Inner, At, Outer
<1>13. ParseLambdaParams => Inner
  BY CallsMove DEF ParseLambdaParams, Inner, At, Outer
<1>14. ParseComprehensionClauses => Inner
  BY CallsMove DEF ParseComprehensionClauses, Inner, At, Outer
<1>15. ParseElements => Inner
  BY CallsMove DEF ParseElements, Inner, At, Outer
<1>16. ParseListOrComprehension => Inner
  BY CallsMove DEF ParseListOrComprehension, Inner, At, Outer
<1>17. ParseBraceLiteral => Inner
  BY CallsMove DEF ParseBraceLiteral, Inner, At, Outer
<1>18. ParseFString => Inner
  BY CallsMove DEF ParseFString, Inner, At, Outer
<1> QED BY <1>1, <1>2, <1>3, <1>4, <1>5, <1>6, <1>7, <1>8, <1>9, <1>10, <1>11, <1>12, <1>13, <1>14, <1>15, <1>16, <1>17, <1>18 DEF ParseExpression

\* Statements and their parts.
InnerStatement ==
  \/ ParseSimpleItems \/ Reinterpret \/ ParseNames \/ ParseImport \/ ParseReturn
  \/ ParseRaise \/ ParseDel \/ ParseGlobal \/ ParseBreakContinue \/ ParsePass \/ ParseBlock
  \/ ParseRequiredBlock \/ ParseIf \/ ParseTry \/ ParseWith \/ ParseSelectCaseBody
  \/ ParseSelectCase \/ ParseSelect \/ ParseParams \/ ParseFuncHead \/ ParseClassHead
  \/ ParseClassMember \/ ParseFor \/ ParseWhile
LEMMA StatementInner == InnerStatement => Inner
<1>1. ParseSimpleItems => Inner
  BY CallsMove DEF ParseSimpleItems, Inner, At, Outer
<1>2. Reinterpret => Inner
  BY CallsMove DEF Reinterpret, Inner, At, Outer
<1>3. ParseNames => Inner
  BY CallsMove DEF ParseNames, Inner, At, Outer
<1>4. ParseImport => Inner
  BY CallsMove DEF ParseImport, Inner, At, Outer
<1>5. ParseReturn => Inner
  BY CallsMove DEF ParseReturn, Inner, At, Outer
<1>6. ParseRaise => Inner
  BY CallsMove DEF ParseRaise, Inner, At, Outer
<1>7. ParseDel => Inner
  BY CallsMove DEF ParseDel, Inner, At, Outer
<1>8. ParseGlobal => Inner
  BY CallsMove DEF ParseGlobal, Inner, At, Outer
<1>9. ParseBreakContinue => Inner
  BY CallsMove DEF ParseBreakContinue, Inner, At, Outer
<1>10. ParsePass => Inner
  BY CallsMove DEF ParsePass, Inner, At, Outer
<1>11. ParseBlock => Inner
  BY CallsMove DEF ParseBlock, Inner, At, Outer
<1>12. ParseRequiredBlock => Inner
  BY CallsMove DEF ParseRequiredBlock, Inner, At, Outer
<1>13. ParseIf => Inner
  BY CallsMove DEF ParseIf, Inner, At, Outer
<1>14. ParseTry => Inner
  BY CallsMove DEF ParseTry, Inner, At, Outer
<1>15. ParseWith => Inner
  BY CallsMove DEF ParseWith, Inner, At, Outer
<1>16. ParseSelectCaseBody => Inner
  BY CallsMove DEF ParseSelectCaseBody, Inner, At, Outer
<1>17. ParseSelectCase => Inner
  BY CallsMove DEF ParseSelectCase, Inner, At, Outer
<1>18. ParseSelect => Inner
  BY CallsMove DEF ParseSelect, Inner, At, Outer
<1>19. ParseParams => Inner
  BY CallsMove DEF ParseParams, Inner, At, Outer
<1>20. ParseFuncHead => Inner
  BY CallsMove DEF ParseFuncHead, Inner, At, Outer
<1>21. ParseClassHead => Inner
  BY CallsMove DEF ParseClassHead, Inner, At, Outer
<1>22. ParseClassMember => Inner
  BY CallsMove DEF ParseClassMember, Inner, At, Outer
<1>23. ParseFor => Inner
  BY CallsMove DEF ParseFor, Inner, At, Outer
<1>24. ParseWhile => Inner
  BY CallsMove DEF ParseWhile, Inner, At, Outer
<1> QED BY <1>1, <1>2, <1>3, <1>4, <1>5, <1>6, <1>7, <1>8, <1>9, <1>10, <1>11, <1>12, <1>13, <1>14, <1>15, <1>16, <1>17, <1>18, <1>19, <1>20, <1>21, <1>22, <1>23, <1>24 DEF InnerStatement

\* The routines that change the context.
LEMMA ContextInner == ParseInContext => Inner
<1>1. ParseLambdaBody => Inner
  BY CallsMove DEF ParseLambdaBody, Inner, At, Outer
<1>2. ParseFuncBody => Inner
  BY CallsMove DEF ParseFuncBody, Inner, At, Outer
<1>3. ParseClassEnds => Inner
  BY CallsMove DEF ParseClassEnds, Inner, At, Outer
<1>4. ParseLoop => Inner
  BY CallsMove DEF ParseLoop, Inner, At, Outer
<1> QED BY <1>1, <1>2, <1>3, <1>4 DEF ParseInContext

----------------------------------------------------------------------------
(* The inductive invariant.                                                  *)

LEMMA LowerFrames ==
  ASSUME NEW t, NEW quiet, IsSeq(t), Len(t) \in Nat, Len(t) >= 2,
         t[1].at \in {"Start", "SourceFile"}, t[2].at = "Statement.end", ~t[2].was
  PROVE  Outermost(t, quiet)
BY DEF Outermost

\* Inside a statement nothing reaches the frame that ends the silence; outside
\* of one no routine of an expression or a statement is under way.
LEMMA InnerKeeps ==
  ASSUME Outermost(stack, panic), Moves, Len(stack) > 2
  PROVE  Outermost(stack', panic')
<1> DEFINE low == Pop(stack)
<1>1. /\ IsSeq(low) /\ Len(low) = Len(stack) - 1 /\ Len(stack) \in Nat
      /\ \A i \in 1..(Len(stack) - 1) : low[i] = stack[i]
  BY PopFacts DEF Outermost
<1> HIDE DEF low
<1>2. Len(low) \in Nat /\ Len(low) >= 2 /\ low[1] = stack[1] /\ low[2] = stack[2]
  BY <1>1
<1>3. /\ stack[1].at \in {"Start", "SourceFile"}
      /\ stack[2].at = "Statement.end" /\ ~stack[2].was
  BY DEF Outermost
<1>4. Outermost(low, panic')
  BY <1>1, <1>2, <1>3, LowerFrames
<1>5. ASSUME NEW f PROVE Outermost(Append(low, f), panic')
  <2> DEFINE t == Append(low, f)
  <2>1. /\ IsSeq(t) /\ Len(t) = Len(low) + 1
        /\ \A i \in 1..Len(low) : t[i] = low[i]
    BY <1>1, PushFacts
  <2> HIDE DEF t
  <2>2. Len(t) \in Nat /\ Len(t) >= 2 /\ t[1] = stack[1] /\ t[2] = stack[2]
    BY <1>2, <2>1
  <2>3. Outermost(t, panic')
    BY <1>3, <2>1, <2>2, LowerFrames
  <2> QED BY <2>3 DEF t
<1>6. ASSUME NEW f, NEW g PROVE Outermost(low \o <<f, g>>, panic')
  <2> DEFINE t == low \o <<f, g>>
  <2>1. /\ IsSeq(t) /\ Len(t) = Len(low) + 2
        /\ \A i \in 1..Len(low) : t[i] = low[i]
    BY <1>1, PushTwoFacts
  <2> HIDE DEF t
  <2>2. Len(t) \in Nat /\ Len(t) >= 2 /\ t[1] = stack[1] /\ t[2] = stack[2]
    BY <1>2, <2>1
  <2>3. Outermost(t, panic')
    BY <1>3, <2>1, <2>2, LowerFrames
  <2> QED BY <2>3 DEF t
<1> QED BY <1>4, <1>5, <1>6 DEF Moves, low

LEMMA InnerStep ==
  ASSUME Outermost(stack, panic), Inner
  PROVE  Outermost(stack', panic')
<1> DEFINE n == Len(stack)
<1>1. n \in Nat /\ n >= 1
  BY PopFacts DEF Outermost
<1>2. n # 1 /\ n # 2
  BY DEF Outermost, Inner, Outer, Top
<1> HIDE DEF n
<1>3. n > 2
  BY <1>1, <1>2
<1> QED BY <1>3, InnerKeeps DEF Inner, n

\* What a statement at the bottom of the stack may do: end, go on, or call.
LEMMA StatementFrames ==
  ASSUME Outermost(stack, panic), Len(stack) = 2, NEW quiet
  PROVE  /\ ~quiet => Outermost(Pop(stack), quiet)
         /\ \A f : f.at = "Synchronize" => Outermost(Append(Pop(stack), f), quiet)
         /\ \A f, g : f.at = "Statement.end" /\ ~f.was => Outermost(Pop(stack) \o <<f, g>>, quiet)
<1> DEFINE low == Pop(stack)
<1>0. /\ IsSeq(low) /\ Len(low) = Len(stack) - 1
      /\ \A i \in 1..(Len(stack) - 1) : low[i] = stack[i]
      /\ stack[1].at \in {"Start", "SourceFile"}
  BY PopFacts DEF Outermost
<1> HIDE DEF low
<1>1. /\ IsSeq(low) /\ Len(low) = 1 /\ low[1] = stack[1]
      /\ stack[1].at \in {"Start", "SourceFile"}
  BY <1>0
<1>2. ASSUME ~quiet PROVE Outermost(low, quiet)
  BY <1>1, <1>2 DEF Outermost
<1>3. ASSUME NEW f, f.at = "Synchronize" PROVE Outermost(Append(low, f), quiet)
  <2> DEFINE t == Append(low, f)
  <2>1. /\ IsSeq(t) /\ Len(t) = Len(low) + 1
        /\ \A i \in 1..Len(low) : t[i] = low[i]
        /\ t[Len(low) + 1] = f
    BY <1>1, PushFacts
  <2> HIDE DEF t
  <2>2. IsSeq(t) /\ Len(t) = 2 /\ t[1] = stack[1] /\ t[2] = f
    BY <1>1, <2>1
  <2>3. Outermost(t, quiet)
    BY <1>1, <1>3, <2>2 DEF Outermost
  <2> QED BY <2>3 DEF t
<1>4. ASSUME NEW f, NEW g, f.at = "Statement.end", ~f.was PROVE Outermost(low \o <<f, g>>, quiet)
  <2> DEFINE t == low \o <<f, g>>
  <2>1. IsSeq(low)
    BY <1>1
  <2>2. Pushed(t, low, f, g)
    BY <2>1, PushedTwo
  <2> HIDE DEF t
  <2>3. /\ IsSeq(t) /\ Len(t) = Len(low) + 2
        /\ \A i \in 1..Len(low) : t[i] = low[i]
        /\ t[Len(low) + 1] = f
    BY <2>2 DEF Pushed
  <2>4. IsSeq(t) /\ Len(t) = 3 /\ t[1] = stack[1] /\ t[2] = f
    BY <1>1, <2>3
  <2>5. Outermost(t, quiet)
    BY <1>1, <1>4, <2>4, LowerFrames
  <2> QED BY <2>5 DEF t
<1> QED BY <1>2, <1>3, <1>4 DEF low

\* What msParserParse may do: go on, or call a statement while nothing is silenced.
LEMMA FileFrames ==
  ASSUME Outermost(stack, panic), Len(stack) = 1, NEW quiet, ~quiet
  PROVE  /\ \A f : f.at = "SourceFile" => Outermost(Append(Pop(stack), f), quiet)
         /\ \A f, g : f.at = "SourceFile" /\ g.at = "Statement" => Outermost(Pop(stack) \o <<f, g>>, quiet)
<1> DEFINE low == Pop(stack)
<1>0. IsSeq(low) /\ Len(low) = Len(stack) - 1
  BY PopFacts DEF Outermost
<1> HIDE DEF low
<1>1. IsSeq(low) /\ Len(low) = 0
  BY <1>0
<1>2. ASSUME NEW f, f.at = "SourceFile" PROVE Outermost(Append(low, f), quiet)
  <2> DEFINE t == Append(low, f)
  <2>1. IsSeq(t) /\ Len(t) = Len(low) + 1 /\ t[Len(low) + 1] = f
    BY <1>1, PushFacts
  <2> HIDE DEF t
  <2>2. IsSeq(t) /\ Len(t) = 1 /\ t[1] = f
    BY <1>1, <2>1
  <2>3. Outermost(t, quiet)
    BY <1>2, <2>2 DEF Outermost
  <2> QED BY <2>3 DEF t
<1>3. ASSUME NEW f, NEW g, f.at = "SourceFile", g.at = "Statement" PROVE Outermost(low \o <<f, g>>, quiet)
  <2> DEFINE t == low \o <<f, g>>
  <2>1. IsSeq(low)
    BY <1>1
  <2>2. Pushed(t, low, f, g)
    BY <2>1, PushedTwo
  <2> HIDE DEF t
  <2>3. /\ IsSeq(t) /\ Len(t) = Len(low) + 2
        /\ t[Len(low) + 1] = f /\ t[Len(low) + 2] = g
    BY <2>2 DEF Pushed
  <2>4. IsSeq(t) /\ Len(t) = 2 /\ t[1] = f /\ t[2] = g
    BY <1>1, <2>3
  <2>5. Outermost(t, quiet)
    BY <1>3, <2>4 DEF Outermost
  <2> QED BY <2>5 DEF t
<1> QED BY <1>2, <1>3 DEF low

LEMMA OuterMoves ==
  ParseStatement \/ ParseStatementEnd \/ Synchronize \/ Advancing \/ ParseNext => Moves
<1>1. ParseStatement => Moves
  BY CallsMove DEF ParseStatement
<1>2. ParseStatementEnd => Moves
  BY CallsMove DEF ParseStatementEnd
<1>3. Synchronize => Moves
  BY CallsMove DEF Synchronize
<1>4. Advancing => Moves
  BY CallsMove DEF Advancing
<1>5. ParseNext => Moves
  BY CallsMove DEF ParseNext
<1> QED BY <1>1, <1>2, <1>3, <1>4, <1>5

\* A statement below the outermost one is part of what that one does; above it,
\* every action leaves panic to the frame that will end it.
LEMMA OuterStep ==
  ASSUME Outermost(stack, panic),
         ParseStatement \/ ParseStatementEnd \/ Synchronize \/ Advancing \/ ParseNext
  PROVE  Outermost(stack', panic')
<1> DEFINE n == Len(stack)
<1>1. n \in Nat /\ n >= 1
  BY PopFacts DEF Outermost
<1>2. CASE n > 2
  BY <1>2, OuterMoves, InnerKeeps
<1>3. CASE n = 2
  <2>1. /\ Top = stack[2] /\ Top.at \in {"Statement", "Statement.end", "Synchronize"}
        /\ Top.at = "Statement" => ~panic
        /\ Top.at = "Statement.end" => ~Top.was
    BY <1>3 DEF Outermost, Top
  <2>2. /\ ~panic' => Outermost(Pop(stack), panic')
        /\ \A f : f.at = "Synchronize" => Outermost(Append(Pop(stack), f), panic')
        /\ \A f, g : f.at = "Statement.end" /\ ~f.was => Outermost(Pop(stack) \o <<f, g>>, panic')
    BY <1>3, StatementFrames
  <2>3. CASE ParseStatement
    <3>1. Top.at = "Statement" /\ ~panic
      BY <2>1, <2>3 DEF ParseStatement, At
    <3>2. \A b, g : Call(Ending(b), g) => Outermost(stack', panic')
      BY <2>2, <3>1 DEF Call, Ending
    <3>3. Become(F("Synchronize")) => Outermost(stack', panic')
      BY <2>2 DEF Become, F
    <3> QED BY <2>3, <3>1, <3>2, <3>3 DEF ParseStatement
  <2>4. CASE ParseStatementEnd
    <3>1. Top.at = "Statement.end" /\ ~Top.was
      BY <2>1, <2>4 DEF ParseStatementEnd, At
    <3>2. Become(F("Synchronize")) => Outermost(stack', panic')
      BY <2>2 DEF Become, F
    <3>3. ~panic' /\ Done => Outermost(stack', panic')
      BY <2>2 DEF Done, Return
    <3>4. ~panic /\ Stay => ~panic'
      BY DEF Stay, Read
    <3>5. \A take : ~panic /\ Read(FALSE, take, FALSE) => ~panic'
      BY DEF Read
    <3>6. ~panic /\ cur = ";" /\ Expect({";"}) => ~panic'
      BY DEF Expect, Read
    <3> QED BY <2>4, <3>1, <3>2, <3>3, <3>4, <3>5, <3>6 DEF ParseStatementEnd
  <2>5. CASE Synchronize
    <3>1. Top.at = "Synchronize" /\ ~panic'
      BY <2>5 DEF Synchronize, At
    <3>2. Done => Outermost(stack', panic')
      BY <2>2, <3>1 DEF Done, Return
    <3>3. Become(Top) => Outermost(stack', panic')
      BY <2>2, <3>1 DEF Become
    <3> QED BY <2>5, <3>2, <3>3 DEF Synchronize
  <2>6. CASE Advancing
    BY <2>1, <2>6 DEF Advancing, At
  <2>7. CASE ParseNext
    BY <2>1, <2>7 DEF ParseNext, At
  <2> QED BY <2>3, <2>4, <2>5, <2>6, <2>7
<1>4. CASE n = 1
  <2>1. Top.at \in {"Start", "SourceFile"} /\ ~panic
    BY <1>4 DEF Outermost, Top
  <2>2. CASE Advancing
    <3>1. ~panic'
      BY <2>1, <2>2 DEF Advancing, Take, Read
    <3> QED BY <1>4, <2>2, <3>1, FileFrames DEF Advancing, Become, F
  <2>3. CASE ParseNext
    <3>1. ~panic' /\ Top.at = "SourceFile"
      BY <2>1, <2>3 DEF ParseNext, Stay, Read, At
    <3> QED BY <1>4, <2>3, <3>1, FileFrames DEF ParseNext, Call, F
  <2>4. ~ParseStatement /\ ~ParseStatementEnd /\ ~Synchronize
    BY <2>1 DEF ParseStatement, ParseStatementEnd, Synchronize, At
  <2> QED BY <2>2, <2>3, <2>4
<1> HIDE DEF n
<1>5. n > 2 \/ n = 2 \/ n = 1
  BY <1>1
<1> QED BY <1>2, <1>3, <1>4, <1>5

----------------------------------------------------------------------------
(* The theorem.                                                              *)

LEMMA SilenceInit == Init => SilenceInv
<1> SUFFICES ASSUME Init PROVE Outermost(<<F("Start")>>, FALSE)
  BY DEF Init, SilenceInv
<1> DEFINE f == F("Start")
           s == <<f>>
<1>1. f.at = "Start"
  BY DEF F
<1> HIDE DEF f
<1>2. s \in Seq({f}) /\ Len(s) = 1 /\ s[1] = f
  OBVIOUS
<1> HIDE DEF s
<1>3. Outermost(s, FALSE)
  BY <1>1, <1>2 DEF Outermost, IsSeq
<1> QED BY <1>3 DEF s, f

LEMMA SilenceStep == SilenceInv /\ [Next]_vars => SilenceInv'
<1> SUFFICES ASSUME SilenceInv, [Next]_vars, Running' PROVE Outermost(stack', panic')
  BY DEF SilenceInv
<1>1. CASE Parse
  <2>1. Running /\ Outermost(stack, panic)
    BY <1>1 DEF Parse, SilenceInv
  <2>2. CASE LookAhead
    BY <2>1, <2>2 DEF LookAhead
  <2>3. CASE ParseExpression
    BY <2>1, <2>3, ExpressionInner, InnerStep
  <2>4. CASE ParseInContext
    BY <2>1, <2>4, ContextInner, InnerStep
  <2>5. CASE InnerStatement
    BY <2>1, <2>5, StatementInner, InnerStep
  <2>6. CASE ParseStatement \/ ParseStatementEnd \/ Synchronize \/ Advancing \/ ParseNext
    BY <2>1, <2>6, OuterStep
  <2>7. ParseQuietly => \/ InnerStatement
                       \/ ParseStatement \/ ParseStatementEnd \/ Synchronize \/ Advancing \/ ParseNext
    BY DEF ParseQuietly, InnerStatement
  <2> QED BY <1>1, <2>2, <2>3, <2>4, <2>5, <2>6, <2>7 DEF Parse
<1>2. CASE Refuse
  BY <1>2 DEF Refuse, Running
<1>3. CASE Finish
  BY <1>3 DEF Finish, Running
<1>4. CASE Ended \/ UNCHANGED vars
  BY <1>4 DEF Ended, vars, SilenceInv, Running
<1> QED BY <1>1, <1>2, <1>3, <1>4 DEF Next

LEMMA SilenceImplied == SilenceInv => SilenceEnds
<1> SUFFICES ASSUME Outermost(stack, panic), panic
             PROVE  At("Synchronize") \/ \E i \in Inside({"Statement.end"}) : ~stack[i].was
  BY DEF SilenceInv, SilenceEnds
<1> DEFINE n == Len(stack)
<1>1. n \in Nat /\ n >= 1 /\ DOMAIN stack = 1..n
  BY PopFacts DEF Outermost, IsSeq
<1>2. /\ n # 1
      /\ n = 2 => stack[2].at = "Synchronize" \/ (stack[2].at = "Statement.end" /\ ~stack[2].was)
      /\ n > 2 => stack[2].at = "Statement.end" /\ ~stack[2].was
  BY DEF Outermost
<1>3. n = 2 => Top = stack[2]
  BY DEF Top
<1> HIDE DEF n
<1>4. 2 \in DOMAIN stack /\ (n = 2 \/ n > 2)
  BY <1>1, <1>2
<1>5. CASE stack[2].at = "Statement.end" /\ ~stack[2].was
  BY <1>4, <1>5 DEF Inside
<1>6. CASE n = 2 /\ stack[2].at = "Synchronize"
  BY <1>3, <1>6 DEF At
<1> QED BY <1>2, <1>4, <1>5, <1>6

\* While the parser keeps quiet after an error, the statement that will end the
\* silence is under way, whatever the text and however deep its constructs nest:
\* no error hides those of the rest of the file (parseStatement).
THEOREM SilenceAlwaysEnds == Spec => []SilenceEnds
<1>1. Spec => []SilenceInv
  BY SilenceInit, SilenceStep, PTL DEF Spec
<1> QED BY <1>1, SilenceImplied, PTL

----------------------------------------------------------------------------
(* What a frame says of the context of the code below it.                    *)

FuncAt  == {"Func.body", "Lambda.body"}
ClassAt == {"Class.body", "Class.method", "Class.end"}
Marks   == FuncAt \cup ClassAt \cup {"Loop.body", "For.post"}
ItemsAt == {"Items", "Items.star", "Items.item"}
HeadAt  == {"Func", "Func.name", "Func.open", "Params", "Param", "Param.default", "Param.order", "Func.close"}

\* The fields that a frame hands on to the frames that take its place.
Carries(f) ==
  /\ f = [k \in DOMAIN f |-> f[k]] /\ "at" \in DOMAIN f
  /\ f.at \in ItemsAt => "then" \in DOMAIN f /\ f.then \notin Marks \cup ItemsAt \cup HeadAt
  /\ f.at \in HeadAt => {"async", "method"} \subseteq DOMAIN f /\ f.async \in BOOLEAN /\ f.method \in BOOLEAN
  /\ f.at = "Class.method" => f.async \in BOOLEAN /\ f.static \in BOOLEAN
  /\ f.at = "Func.body" => f.async \in BOOLEAN /\ f.method \in BOOLEAN

\* A frame that changes nothing in the context.
Plain(f) == Carries(f) /\ f.at \notin Marks

LEMMA PlainF ==
  ASSUME NEW a, a \notin Marks \cup ItemsAt \cup HeadAt
  PROVE  Plain(F(a))
BY DEF Plain, Carries, F, Marks, ClassAt, FuncAt

LEMMA PlainExpr == ASSUME NEW m PROVE Plain(Expr(m))
BY DEF Plain, Carries, Expr, Marks, ClassAt, FuncAt, ItemsAt, HeadAt

Mild == \/ stack' = Pop(stack)
        \/ \E f : Plain(f) /\ stack' = Append(Pop(stack), f)
        \/ \E f, g : Plain(f) /\ Plain(g) /\ stack' = Pop(stack) \o <<f, g>>

LEMMA CallsMild ==
  /\ \A f : Plain(f) /\ Become(f) => Mild
  /\ \A f, n : Plain(f) /\ Yield(f, n) => Mild
  /\ \A f, g : Plain(f) /\ Plain(g) /\ Call(f, g) => Mild
  /\ \A n : Return(n) => Mild
  /\ \A f, g : Plain(f) /\ Plain(g) /\ Comma(f, g) => Mild
  /\ Done => Mild
BY DEF Become, Yield, Call, Return, Comma, Done, Mild

\* Labels that say nothing of the context and carry nothing.
Common(a) == a \notin Marks \cup ItemsAt \cup HeadAt

LEMMA PlainFrames ==
  /\ \A a : Common(a) => Plain(F(a))
  /\ \A a, m : Common(a) => Plain([at |-> a, min |-> m])
  /\ \A a, o : Common(a) => Plain([at |-> a, op |-> o])
  /\ \A a, o, x, n : Common(a) => Plain([at |-> a, op |-> o, operand |-> x, args |-> n])
  /\ \A a, c : Common(a) => Plain([at |-> a, close |-> c])
  /\ \A a, x : Common(a) => Plain([at |-> a, items |-> x])
  /\ \A a, o, x, n : Common(a) => Plain([at |-> a, op |-> o, items |-> x, values |-> n])
  /\ \A a, h : Common(a) => Plain([at |-> a, handled |-> h])
  /\ \A a, h : Common(a) => Plain([at |-> a, targets |-> h])
  /\ \A a, b, w : Common(a) => Plain([at |-> a, braced |-> b, was |-> w])
BY DEF Plain, Common, Carries, F, Marks, ClassAt, FuncAt

Fields(f) == f = [k \in DOMAIN f |-> f[k]] /\ "at" \in DOMAIN f
LEMMA PlainCommon ==
  ASSUME NEW f, Fields(f), Common(f.at)
  PROVE  Plain(f)
BY DEF Fields, Plain, Common, Carries, Marks, ClassAt, FuncAt

LEMMA FieldsKept ==
  ASSUME NEW f, Fields(f), NEW a, NEW x
  PROVE  /\ Fields([f EXCEPT !.at = a]) /\ [f EXCEPT !.at = a].at = a
         /\ Fields([f EXCEPT !.at = a, !.args = x]) /\ [f EXCEPT !.at = a, !.args = x].at = a
         /\ Fields([f EXCEPT !.at = a, !.op = x]) /\ [f EXCEPT !.at = a, !.op = x].at = a
BY DEF Fields

LEMMA PlainChanged ==
  ASSUME NEW f, Fields(f), NEW a, NEW x, Common(a)
  PROVE  /\ Plain([f EXCEPT !.at = a])
         /\ Plain([f EXCEPT !.at = a, !.args = x])
         /\ Plain([f EXCEPT !.at = a, !.op = x])
<1>1. Plain([f EXCEPT !.at = a])
  <2> DEFINE g == [f EXCEPT !.at = a]
  <2>1. Fields(g) /\ g.at = a
    BY DEF Fields
  <2> HIDE DEF g
  <2>2. Plain(g)
    BY <2>1, PlainCommon
  <2> QED BY <2>2 DEF g
<1>2. Plain([f EXCEPT !.at = a, !.args = x])
  <2> DEFINE g == [f EXCEPT !.at = a, !.args = x]
  <2>1. Fields(g) /\ g.at = a
    BY DEF Fields
  <2> HIDE DEF g
  <2>2. Plain(g)
    BY <2>1, PlainCommon
  <2> QED BY <2>2 DEF g
<1>3. Plain([f EXCEPT !.at = a, !.op = x])
  <2> DEFINE g == [f EXCEPT !.at = a, !.op = x]
  <2>1. Fields(g) /\ g.at = a
    BY DEF Fields
  <2> HIDE DEF g
  <2>2. Plain(g)
    BY <2>1, PlainCommon
  <2> QED BY <2>2 DEF g
<1> QED BY <1>1, <1>2, <1>3

LEMMA PlainChanges ==
  ASSUME Carries(Top), Top.at \notin Marks
  PROVE  /\ Plain(Top)
         /\ \A a : Common(a) => Plain(Go(a))
         /\ \A a, n : Common(a) => Plain([Top EXCEPT !.at = a, !.args = n])
         /\ \A a, b, n : Common(b) => Plain([[Top EXCEPT !.at = a, !.args = n] EXCEPT !.at = b])
         /\ \A a, o : Common(a) => Plain([Top EXCEPT !.at = a, !.op = o])
<1>1. Plain(Top)
  BY DEF Plain
<1>2. Fields(Top)
  BY DEF Carries, Fields
<1> DEFINE f == Top
<1> HIDE DEF f
<1>3. Fields(f)
  BY <1>2 DEF f
<1>4. \A a, n : Fields([f EXCEPT !.at = a, !.args = n])
  BY <1>3, FieldsKept
<1>5. \A a : Common(a) => Plain([f EXCEPT !.at = a])
  BY <1>3, PlainChanged
<1>6. \A a, n : Common(a) => Plain([f EXCEPT !.at = a, !.args = n])
  BY <1>3, PlainChanged
<1>7. ASSUME NEW a, NEW b, NEW n, Common(b)
      PROVE  Plain([[f EXCEPT !.at = a, !.args = n] EXCEPT !.at = b])
  <2> DEFINE g == [f EXCEPT !.at = a, !.args = n]
  <2>1. Fields(g)
    BY <1>4
  <2> HIDE DEF g
  <2>2. Plain([g EXCEPT !.at = b])
    BY <1>7, <2>1, PlainChanged
  <2> QED BY <2>2 DEF g
<1>8. \A a, o : Common(a) => Plain([f EXCEPT !.at = a, !.op = o])
  BY <1>3, PlainChanged
<1> QED BY <1>1, <1>5, <1>6, <1>7, <1>8 DEF f, Go

\* A routine that leaves what the frames say of the context alone.
Unmarked == Mild /\ Top.at \notin Marks

LEMMA ExpressionMild == Carries(Top) /\ ParseExpression => Unmarked
<1> SUFFICES ASSUME Carries(Top) PROVE ParseExpression => Unmarked
  OBVIOUS
<1> USE CallsMild, PlainFrames, PlainChanges
    DEF At, Unmarked, Common, Marks, ClassAt, FuncAt, ItemsAt, HeadAt
<1>1. ParsePrecedence => Unmarked
  <2>1. ASSUME NEW t PROVE (t \in DOMAIN PrefixRule => Common(PrefixRule[t])) /\ (t \in DOMAIN Prec => Common(InfixRule[t]))
    BY DEF PrefixRule, InfixRule
  <2>2. Common("Fold") /\ (ParsePrecedence => Top.at \notin Marks)
    BY DEF ParsePrecedence
  <2>3. ParsePrecedence /\ Top.at \notin Marks => Mild
    BY ONLY <2>1, <2>2, CallsMild, PlainFrames, PlainChanges, Carries(Top) DEF ParsePrecedence, Folds
  <2> QED BY <2>2, <2>3
<1>2. ParseGrouping => Unmarked
  BY DEF ParseGrouping, EXPR, Expr
<1>3. ParseUnary => Unmarked
  BY DEF ParseUnary, Expr
<1>4. ParseBinary => Unmarked
  BY DEF ParseBinary, Expr
<1>5. ParseLogical => Unmarked
  BY DEF ParseLogical, Expr
<1>6. ParseCall => Unmarked
  <2>1. /\ Common("Call") /\ Common("Call.close") /\ Common("Call.equal") /\ Common("Call.argument")
        /\ Common("Expr") /\ (ParseCall => Top.at \notin Marks)
    BY DEF ParseCall
  <2>2. ASSUME Top.at \notin Marks, NEW n
        PROVE  /\ Plain([Top EXCEPT !.at = "Call", !.args = n])
               /\ Plain([[Top EXCEPT !.at = "Call", !.args = n] EXCEPT !.at = "Call.close"])
               /\ Plain(Go("Call.close")) /\ Plain(Go("Call.equal")) /\ Plain(Go("Call.argument")) /\ Plain(EXPR)
    BY ONLY <2>1, <2>2, PlainChanges, PlainFrames, Carries(Top) DEF EXPR, Expr
  <2>3. ASSUME Top.at \notin Marks PROVE ParseCall => Mild
    BY ONLY <2>2, <2>3, CallsMild DEF ParseCall
  <2> QED BY <2>1, <2>3
<1>7. ParseIndexOrSlice => Unmarked
  BY DEF ParseIndexOrSlice, EXPR, Expr
<1>8. ParseAttr => Unmarked
  BY DEF ParseAttr
<1>9. ParseCompareChain => Unmarked
  BY DEF ParseCompareChain, Expr
<1>10. ParseConditional => Unmarked
  BY DEF ParseConditional, Expr
<1>11. ParseAwait => Unmarked
  BY DEF ParseAwait, Expr
<1>12. ParseSelfSuper => Unmarked
  BY DEF ParseSelfSuper
<1>13. ParseLambdaParams => Unmarked
  BY DEF ParseLambdaParams
<1>14. ParseComprehensionClauses => Unmarked
  BY DEF ParseComprehensionClauses, Expr, Clauses
<1>15. ParseElements => Unmarked
  BY DEF ParseElements, EXPR, Expr, Elements
<1>16. ParseListOrComprehension => Unmarked
  BY DEF ParseListOrComprehension, EXPR, Expr, Clauses, Elements
<1>17. ParseBraceLiteral => Unmarked
  BY DEF ParseBraceLiteral, EXPR, Expr, Clauses, Elements
<1>18. ParseFString => Unmarked
  BY DEF ParseFString, EXPR, Expr
<1> QED BY <1>1, <1>2, <1>3, <1>4, <1>5, <1>6, <1>7, <1>8, <1>9, <1>10, <1>11, <1>12, <1>13, <1>14, <1>15, <1>16, <1>17, <1>18 DEF ParseExpression

\* The frames of a list of items and of the head of a function hand on what they carry.
LEMMA PlainMade ==
  /\ \A m, a : Common(a) => Plain(Items(m, a))
  /\ \A a, b \in BOOLEAN : Plain(Func(a, b)) /\ Plain(Params(a, b))
<1>1. ASSUME NEW m, NEW a, Common(a) PROVE Plain(Items(m, a))
  BY <1>1 DEF Plain, Carries, Common, Items, Marks, ClassAt, FuncAt, ItemsAt, HeadAt
<1>2. ASSUME NEW a \in BOOLEAN, NEW b \in BOOLEAN PROVE Plain(Func(a, b)) /\ Plain(Params(a, b))
  BY DEF Plain, Carries, Func, Params, Marks, ClassAt, FuncAt, ItemsAt, HeadAt
<1> QED BY <1>1, <1>2

LEMMA PlainItems ==
  ASSUME Carries(Top), Top.at \in ItemsAt
  PROVE  /\ \A a \in ItemsAt : Plain(Go(a))
         /\ \A a \in ItemsAt : \A i : Plain([Top EXCEPT !.at = a, !.items = i])
         /\ \A i : Plain([at |-> Top.then, items |-> i])
<1>1. ASSUME NEW a \in ItemsAt PROVE Plain(Go(a))
  BY DEF Plain, Carries, Go, Marks, ClassAt, FuncAt, ItemsAt, HeadAt
<1>2. ASSUME NEW a \in ItemsAt, NEW i PROVE Plain([Top EXCEPT !.at = a, !.items = i])
  BY DEF Plain, Carries, Marks, ClassAt, FuncAt, ItemsAt, HeadAt
<1>3. ASSUME NEW i PROVE Plain([at |-> Top.then, items |-> i])
  BY DEF Plain, Carries, Marks, ClassAt, FuncAt, ItemsAt, HeadAt
<1> QED BY <1>1, <1>2, <1>3

LEMMA PlainHeads ==
  ASSUME Carries(Top), Top.at \in HeadAt
  PROVE  /\ \A a \in HeadAt : Plain(Go(a))
         /\ \A a \in HeadAt : \A x : /\ Plain([Top EXCEPT !.at = a, !.kind = x])
                                     /\ Plain([Top EXCEPT !.at = a, !.names = x])
                                     /\ Plain([Top EXCEPT !.at = a, !.seen = x])
         /\ Plain(Params(Top.async, Top.method))
<1>1. ASSUME NEW a \in HeadAt PROVE Plain(Go(a))
  BY DEF Plain, Carries, Go, Marks, ClassAt, FuncAt, ItemsAt, HeadAt
<1>2. ASSUME NEW a \in HeadAt, NEW x PROVE Plain([Top EXCEPT !.at = a, !.kind = x])
  BY DEF Plain, Carries, Marks, ClassAt, FuncAt, ItemsAt, HeadAt
<1>3. ASSUME NEW a \in HeadAt, NEW x PROVE Plain([Top EXCEPT !.at = a, !.names = x])
  BY DEF Plain, Carries, Marks, ClassAt, FuncAt, ItemsAt, HeadAt
<1>4. ASSUME NEW a \in HeadAt, NEW x PROVE Plain([Top EXCEPT !.at = a, !.seen = x])
  BY DEF Plain, Carries, Marks, ClassAt, FuncAt, ItemsAt, HeadAt
<1>5. Plain(Params(Top.async, Top.method))
  BY PlainMade DEF Carries
<1> QED BY <1>1, <1>2, <1>3, <1>4, <1>5

LEMMA StatementMild == Carries(Top) /\ InnerStatement => Unmarked \/ ParseClassMember
<1> SUFFICES ASSUME Carries(Top) PROVE InnerStatement => Unmarked \/ ParseClassMember
  OBVIOUS
<1> USE CallsMild, PlainFrames, PlainChanges, PlainMade
    DEF At, Unmarked, Common, Marks, ClassAt, FuncAt, ItemsAt, HeadAt
<1>1. ParseSimpleItems => Unmarked
  BY ZenonT(20), PlainItems DEF ParseSimpleItems, Expr, Items, NoItems
<1>2. Reinterpret => Unmarked
  <2>1. Common("Values") /\ Common("Expr") /\ (Reinterpret => Top.at \notin Marks)
    BY DEF Reinterpret
  <2>2. Plain(EXPR) /\ \A o, i, n : Plain([at |-> "Values", op |-> o, items |-> i, values |-> n])
    BY ONLY <2>1, PlainFrames DEF EXPR, Expr
  <2>3. ASSUME Top.at = "Values" PROVE Plain([Top EXCEPT !.values = 2])
    <3> DEFINE g == [Top EXCEPT !.values = 2]
    <3>1. Fields(g) /\ g.at = "Values"
      BY <2>3 DEF Carries, Fields
    <3> HIDE DEF g
    <3>2. Plain(g)
      BY <3>1, PlainCommon
    <3> QED BY <3>2 DEF g
  <2>4. ASSUME Top.at \notin Marks PROVE Reinterpret => Mild
    BY ONLY <2>2, <2>3, <2>4, CallsMild DEF Reinterpret, At
  <2> QED BY <2>1, <2>4
<1>3. ParseNames => Unmarked
  BY DEF ParseNames, Names
<1>4. ParseImport => Unmarked
  BY DEF ParseImport, Names
<1>5. ParseReturn => Unmarked
  BY DEF ParseReturn, EXPR, Expr
<1>6. ParseRaise => Unmarked
  BY DEF ParseRaise, EXPR, Expr
<1>7. ParseDel => Unmarked
  <2>1. Common("Del.target") /\ Common("Expr") /\ (ParseDel => Top.at \notin Marks)
    BY DEF ParseDel
  <2>2. ASSUME Top.at \notin Marks PROVE Plain(Top) /\ Plain(F("Del.target")) /\ Plain(EXPR)
    BY ONLY <2>1, <2>2, PlainChanges, PlainFrames, Carries(Top) DEF EXPR, Expr
  <2>3. ASSUME Top.at \notin Marks PROVE ParseDel => Mild
    <3>1. CASE cur = ","
      BY ONLY <2>2, <2>3, <3>1, CallsMild DEF ParseDel
    <3>2. CASE cur # ","
      BY ONLY <2>2, <2>3, <3>2, CallsMild DEF ParseDel
    <3> QED BY <3>1, <3>2
  <2> QED BY <2>1, <2>3
<1>8. ParseGlobal => Unmarked
  BY DEF ParseGlobal, Names
<1>9. ParseBreakContinue => Unmarked
  BY DEF ParseBreakContinue
<1>10. ParsePass => Unmarked
  BY DEF ParsePass
<1>11. ParseBlock => Unmarked
  BY DEF ParseBlock, Block
<1>12. ParseRequiredBlock => Unmarked
  BY DEF ParseRequiredBlock, Block, RequiredBlock
<1>13. ParseIf => Unmarked
  BY DEF ParseIf, EXPR, Expr, RequiredBlock
<1>14. ParseTry => Unmarked
  BY DEF ParseTry, EXPR, Expr, RequiredBlock
<1>15. ParseWith => Unmarked
  BY DEF ParseWith, EXPR, Expr, RequiredBlock
<1>16. ParseSelectCaseBody => Unmarked
  BY DEF ParseSelectCaseBody
<1>17. ParseSelectCase => Unmarked
  BY ZenonT(20) DEF ParseSelectCase, EXPR, Expr
<1>18. ParseSelect => Unmarked
  BY DEF ParseSelect
<1>19. ParseParams => Unmarked
  <2>1. ParseParams => Top.at \notin Marks /\ Top.at \in HeadAt
    BY DEF ParseParams
  <2>2. {"Params", "Param", "Param.default", "Param.order", "Func.close"} \subseteq HeadAt
    OBVIOUS
  <2>3. Plain(EXPR)
    BY DEF EXPR, Expr
  <2>4. ASSUME Top.at \in HeadAt PROVE ParseParams => Mild
    <3>1. /\ \A a \in HeadAt : Plain(Go(a))
          /\ \A a \in HeadAt : \A x : /\ Plain([Top EXCEPT !.at = a, !.kind = x])
                                      /\ Plain([Top EXCEPT !.at = a, !.names = x])
                                      /\ Plain([Top EXCEPT !.at = a, !.seen = x])
      BY <2>4, PlainHeads
    <3>2. ASSUME NEW a \in HeadAt, NEW x
          PROVE  /\ Become(Go(a)) => Mild
                 /\ Call(Go(a), EXPR) => Mild
                 /\ Become([Top EXCEPT !.at = a, !.kind = x]) => Mild
                 /\ Become([Top EXCEPT !.at = a, !.names = x]) => Mild
                 /\ Become([Top EXCEPT !.at = a, !.seen = x]) => Mild
      BY ONLY <2>3, <3>1, <3>2, CallsMild
    <3> QED BY ONLY <2>2, <3>2 DEF ParseParams
  <2> QED BY <2>1, <2>4
<1>20. ParseFuncHead => Unmarked
  BY PlainHeads DEF ParseFuncHead, Func, Params
<1>21. ParseClassHead => Unmarked
  BY DEF ParseClassHead, EXPR, Expr
<1>22. ParseFor => Unmarked
  BY DEF ParseFor, EXPR, Expr, Items, NoItems
<1>23. ParseWhile => Unmarked
  BY DEF ParseWhile, EXPR, Expr
<1> QED BY <1>1, <1>2, <1>3, <1>4, <1>5, <1>6, <1>7, <1>8, <1>9, <1>10, <1>11, <1>12, <1>13, <1>14, <1>15, <1>16, <1>17, <1>18, <1>19, <1>20, <1>21, <1>22, <1>23 DEF InnerStatement

LEMMA OuterMild ==
  Carries(Top) /\ (ParseStatement \/ ParseStatementEnd \/ Synchronize \/ Advancing \/ ParseNext) => Unmarked
<1> SUFFICES ASSUME Carries(Top)
             PROVE  ParseStatement \/ ParseStatementEnd \/ Synchronize \/ Advancing \/ ParseNext => Unmarked
  OBVIOUS
<1> USE CallsMild, PlainFrames, PlainChanges, PlainMade
    DEF At, Unmarked, Common, Marks, ClassAt, FuncAt, ItemsAt, HeadAt
<1>1. ParseStatement => Unmarked
  <2>1. /\ \A t \in DOMAIN Keyword : Common(Keyword[t])
        /\ Common("Synchronize") /\ Common("Block") /\ Common("Statement.end") /\ Common("Reinterpret")
        /\ (ParseStatement => Top.at \notin Marks)
    BY DEF ParseStatement, Keyword
  <2>2. /\ Plain(F("Synchronize")) /\ Plain(Block) /\ Plain(Simple) /\ \A b : Plain(Ending(b))
        /\ \A t \in DOMAIN Keyword : Plain(F(Keyword[t]))
        /\ Plain(Func(FALSE, FALSE)) /\ Plain(Func(TRUE, FALSE))
    BY ONLY <2>1, PlainFrames, PlainMade DEF Block, Simple, Ending
  <2>3. ParseStatement => Mild
    BY ONLY <2>2, CallsMild DEF ParseStatement
  <2> QED BY <2>1, <2>3
<1>2. ParseStatementEnd => Unmarked
  BY DEF ParseStatementEnd
<1>3. Synchronize => Unmarked
  <2>1. Synchronize => Top.at \notin Marks /\ (Done \/ Become(Top))
    BY DEF Synchronize
  <2> QED BY <2>1
<1>4. Advancing => Unmarked
  BY DEF Advancing
<1>5. ParseNext => Unmarked
  BY DEF ParseNext
<1> QED BY <1>1, <1>2, <1>3, <1>4, <1>5

\* A class counts once, whatever its member is at.
Member ==
  /\ Top.at \in ClassAt
  /\ \/ \E f : Carries(f) /\ f.at \in ClassAt /\ stack' = Append(Pop(stack), f)
     \/ \E f, g : Carries(f) /\ f.at \in ClassAt /\ Plain(g) /\ stack' = Pop(stack) \o <<f, g>>

LEMMA MemberFrames ==
  /\ \A a \in ClassAt \ {"Class.method"} : Carries(F(a)) /\ F(a).at \in ClassAt
  /\ \A a, b \in BOOLEAN : Carries(Method(a, b)) /\ Method(a, b).at \in ClassAt
<1>1. ASSUME NEW a \in ClassAt \ {"Class.method"} PROVE Carries(F(a)) /\ F(a).at \in ClassAt
  BY DEF Carries, F, ClassAt, ItemsAt, HeadAt
<1>2. ASSUME NEW a \in BOOLEAN, NEW b \in BOOLEAN PROVE Carries(Method(a, b)) /\ Method(a, b).at \in ClassAt
  BY DEF Carries, Method, ClassAt, ItemsAt, HeadAt
<1> QED BY <1>1, <1>2

LEMMA ClassMember == Carries(Top) /\ ParseClassMember => Member
<1> SUFFICES ASSUME Carries(Top), ParseClassMember PROVE Member
  OBVIOUS
<1>1. Top.at \in ClassAt
  BY DEF ParseClassMember, At, ClassAt
<1>2. /\ Carries(F("Class.body")) /\ F("Class.body").at \in ClassAt
      /\ Carries(F("Class.end")) /\ F("Class.end").at \in ClassAt
  BY MemberFrames DEF ClassAt
<1>3. /\ Carries(Method(TRUE, FALSE)) /\ Method(TRUE, FALSE).at \in ClassAt
      /\ Carries(Method(FALSE, TRUE)) /\ Method(FALSE, TRUE).at \in ClassAt
      /\ Carries(Method(FALSE, FALSE)) /\ Method(FALSE, FALSE).at \in ClassAt
  BY MemberFrames
<1>4. At("Class.method") => Plain(Func(Top.async, ~Top.static))
  BY PlainMade DEF Carries, At
<1>5. \A f : Carries(f) /\ f.at \in ClassAt /\ Become(f) => Member
  BY <1>1 DEF Become, Member
<1>6. \A f, g : Carries(f) /\ f.at \in ClassAt /\ Plain(g) /\ Call(f, g) => Member
  BY <1>1 DEF Call, Member
<1> QED BY <1>2, <1>3, <1>4, <1>5, <1>6 DEF ParseClassMember

----------------------------------------------------------------------------
(* The context of the first frames of a stack, and what one more makes of it.*)

AtIn(s, n, labels) == {i \in 1..n : s[i].at \in labels}
LoopsIn(s, n) == {i \in AtIn(s, n, {"Loop.body"}) : ~Within(i, AtIn(s, n, FuncAt))}
View(s, n) ==
  [loopDepth   |-> Cardinality(LoopsIn(s, n)),
   funcDepth   |-> Cardinality(AtIn(s, n, FuncAt)),
   funcIsAsync |-> \E i \in AtIn(s, n, FuncAt) : ~Within(i, AtIn(s, n, FuncAt)) /\ s[i].at = "Func.body" /\ s[i].async,
   classDepth  |-> Cardinality(AtIn(s, n, ClassAt)),
   inMethod    |-> \E i \in AtIn(s, n, {"Func.body"}) : ~Within(i, AtIn(s, n, {"Func.body"})) /\ s[i].method,
   allowIncDec |-> AtIn(s, n, {"For.post"}) # {}]
Enter(v, f) ==
  [loopDepth   |-> IF f.at \in FuncAt THEN 0 ELSE IF f.at = "Loop.body" THEN v.loopDepth + 1 ELSE v.loopDepth,
   funcDepth   |-> IF f.at \in FuncAt THEN v.funcDepth + 1 ELSE v.funcDepth,
   funcIsAsync |-> IF f.at \in FuncAt THEN f.at = "Func.body" /\ f.async ELSE v.funcIsAsync,
   classDepth  |-> IF f.at \in ClassAt THEN v.classDepth + 1 ELSE v.classDepth,
   inMethod    |-> IF f.at = "Func.body" THEN f.method ELSE v.inMethod,
   allowIncDec |-> f.at = "For.post" \/ v.allowIncDec]

LEMMA AtInFinite ==
  ASSUME NEW s, NEW n \in Nat, NEW L
  PROVE  IsFiniteSet(AtIn(s, n, L)) /\ IsFiniteSet(LoopsIn(s, n))
<1>1. IsFiniteSet(1..n)
  BY FS_Interval
<1>2. AtIn(s, n, L) \subseteq 1..n /\ LoopsIn(s, n) \subseteq 1..n
  BY DEF AtIn, LoopsIn
<1> QED BY <1>1, <1>2, FS_Subset

LEMMA AtInNext ==
  ASSUME NEW s, NEW n \in Nat, NEW L
  PROVE  /\ AtIn(s, n + 1, L) = IF s[n + 1].at \in L THEN AtIn(s, n, L) \cup {n + 1} ELSE AtIn(s, n, L)
         /\ n + 1 \notin AtIn(s, n, L)
         /\ \A i \in AtIn(s, n, L) : i \in 1..n
BY DEF AtIn

LEMMA LoopsNext ==
  ASSUME NEW s, NEW n \in Nat
  PROVE  /\ s[n + 1].at \in FuncAt => LoopsIn(s, n + 1) = {}
         /\ s[n + 1].at = "Loop.body" => LoopsIn(s, n + 1) = LoopsIn(s, n) \cup {n + 1}
         /\ s[n + 1].at \notin FuncAt \cup {"Loop.body"} => LoopsIn(s, n + 1) = LoopsIn(s, n)
         /\ n + 1 \notin LoopsIn(s, n)
<1> DEFINE L == AtIn(s, n, {"Loop.body"})
           U == AtIn(s, n, FuncAt)
           L1 == AtIn(s, n + 1, {"Loop.body"})
           U1 == AtIn(s, n + 1, FuncAt)
<1>1. L1 = (IF s[n + 1].at \in {"Loop.body"} THEN L \cup {n + 1} ELSE L) /\ (\A i \in L : i \in 1..n)
  BY AtInNext
<1>2. U1 = (IF s[n + 1].at \in FuncAt THEN U \cup {n + 1} ELSE U) /\ (\A i \in U : i \in 1..n)
  BY AtInNext
<1>3. LoopsIn(s, n) = {i \in L : ~Within(i, U)} /\ LoopsIn(s, n + 1) = {i \in L1 : ~Within(i, U1)}
  BY DEF LoopsIn
<1>4. "Loop.body" \notin FuncAt
  BY DEF FuncAt
<1> HIDE DEF L, U, L1, U1
<1>5. CASE s[n + 1].at \in FuncAt
  BY <1>1, <1>2, <1>3, <1>4, <1>5 DEF Within
<1>6. CASE s[n + 1].at = "Loop.body"
  <2>1. L1 = L \cup {n + 1} /\ U1 = U
    BY <1>1, <1>2, <1>4, <1>6
  <2>2. ~Within(n + 1, U)
    BY <1>2 DEF Within
  <2> QED BY <1>1, <1>3, <1>4, <1>6, <2>1, <2>2
<1>7. CASE s[n + 1].at \notin FuncAt \cup {"Loop.body"}
  BY <1>1, <1>2, <1>3, <1>7
<1>8. n + 1 \notin LoopsIn(s, n)
  BY <1>1, <1>3
<1> QED BY <1>4, <1>5, <1>6, <1>7, <1>8

LEMMA AsyncNext ==
  ASSUME NEW s, NEW n \in Nat, s[n + 1].at = "Func.body" => s[n + 1].async \in BOOLEAN
  PROVE  View(s, n + 1).funcIsAsync = IF s[n + 1].at \in FuncAt THEN s[n + 1].at = "Func.body" /\ s[n + 1].async
                                      ELSE View(s, n).funcIsAsync
<1> DEFINE U == AtIn(s, n, FuncAt)
           U1 == AtIn(s, n + 1, FuncAt)
<1>1. U1 = (IF s[n + 1].at \in FuncAt THEN U \cup {n + 1} ELSE U) /\ (\A i \in U : i \in 1..n)
  BY AtInNext
<1>2. /\ View(s, n).funcIsAsync = \E i \in U : ~Within(i, U) /\ s[i].at = "Func.body" /\ s[i].async
      /\ View(s, n + 1).funcIsAsync = \E i \in U1 : ~Within(i, U1) /\ s[i].at = "Func.body" /\ s[i].async
  BY DEF View
<1> HIDE DEF U, U1
<1>3. CASE s[n + 1].at \in FuncAt
  <2>1. U1 = U \cup {n + 1} /\ ~Within(n + 1, U1) /\ \A i \in U : Within(i, U1)
    BY <1>1, <1>3 DEF Within
  <2>2. (\E i \in U1 : ~Within(i, U1) /\ s[i].at = "Func.body" /\ s[i].async)
          <=> (s[n + 1].at = "Func.body" /\ s[n + 1].async)
    BY <2>1
  <2> QED BY <1>2, <1>3, <2>2
<1>4. CASE s[n + 1].at \notin FuncAt
  BY <1>1, <1>2, <1>4
<1> QED BY <1>3, <1>4

LEMMA MethodNext ==
  ASSUME NEW s, NEW n \in Nat, s[n + 1].at = "Func.body" => s[n + 1].method \in BOOLEAN
  PROVE  View(s, n + 1).inMethod = IF s[n + 1].at = "Func.body" THEN s[n + 1].method ELSE View(s, n).inMethod
<1> DEFINE U == AtIn(s, n, {"Func.body"})
           U1 == AtIn(s, n + 1, {"Func.body"})
<1>1. U1 = (IF s[n + 1].at \in {"Func.body"} THEN U \cup {n + 1} ELSE U) /\ (\A i \in U : i \in 1..n)
  BY AtInNext
<1>2. /\ View(s, n).inMethod = \E i \in U : ~Within(i, U) /\ s[i].method
      /\ View(s, n + 1).inMethod = \E i \in U1 : ~Within(i, U1) /\ s[i].method
  BY DEF View
<1> HIDE DEF U, U1
<1>3. CASE s[n + 1].at = "Func.body"
  <2>1. U1 = U \cup {n + 1} /\ ~Within(n + 1, U1) /\ \A i \in U : Within(i, U1)
    BY <1>1, <1>3 DEF Within
  <2>2. (\E i \in U1 : ~Within(i, U1) /\ s[i].method) <=> s[n + 1].method
    BY <2>1
  <2> QED BY <1>2, <1>3, <2>2
<1>4. CASE s[n + 1].at # "Func.body"
  BY <1>1, <1>2, <1>4
<1> QED BY <1>3, <1>4

LEMMA DepthNext ==
  ASSUME NEW s, NEW n \in Nat, NEW L
  PROVE  Cardinality(AtIn(s, n + 1, L)) = IF s[n + 1].at \in L THEN Cardinality(AtIn(s, n, L)) + 1
                                          ELSE Cardinality(AtIn(s, n, L))
<1> DEFINE A == AtIn(s, n, L)
           B == AtIn(s, n + 1, L)
<1>1. B = (IF s[n + 1].at \in L THEN A \cup {n + 1} ELSE A) /\ n + 1 \notin A
  BY AtInNext
<1>2. IsFiniteSet(A)
  BY AtInFinite
<1> HIDE DEF A, B
<1>3. Cardinality(A \cup {n + 1}) = Cardinality(A) + 1
  BY <1>1, <1>2, FS_AddElement
<1>4. Cardinality(B) = IF s[n + 1].at \in L THEN Cardinality(A) + 1 ELSE Cardinality(A)
  BY <1>1, <1>3
<1> QED BY <1>4 DEF A, B

LEMMA ViewNext ==
  ASSUME NEW s, NEW n \in Nat, Carries(s[n + 1])
  PROVE  View(s, n + 1) = Enter(View(s, n), s[n + 1])
<1>1. Cardinality(LoopsIn(s, n + 1)) = Enter(View(s, n), s[n + 1]).loopDepth
  <2>1. IsFiniteSet(LoopsIn(s, n)) /\ View(s, n).loopDepth = Cardinality(LoopsIn(s, n))
    BY AtInFinite DEF View
  <2>2. n + 1 \notin LoopsIn(s, n)
    BY LoopsNext
  <2>3. Cardinality(LoopsIn(s, n) \cup {n + 1}) = Cardinality(LoopsIn(s, n)) + 1
    BY <2>1, <2>2, FS_AddElement
  <2>4. Cardinality({}) = 0 /\ "Loop.body" \notin FuncAt
    BY FS_EmptySet DEF FuncAt
  <2> QED BY <2>1, <2>3, <2>4, LoopsNext DEF Enter
<1>2. Cardinality(AtIn(s, n + 1, FuncAt)) = Enter(View(s, n), s[n + 1]).funcDepth
  BY DepthNext DEF Enter, View
<1>3. Cardinality(AtIn(s, n + 1, ClassAt)) = Enter(View(s, n), s[n + 1]).classDepth
  BY DepthNext DEF Enter, View
<1>4. View(s, n + 1).funcIsAsync = Enter(View(s, n), s[n + 1]).funcIsAsync
  BY AsyncNext DEF Enter, Carries
<1>5. View(s, n + 1).inMethod = Enter(View(s, n), s[n + 1]).inMethod
  BY MethodNext DEF Enter, Carries
<1>6. View(s, n + 1).allowIncDec = Enter(View(s, n), s[n + 1]).allowIncDec
  <2>1. AtIn(s, n + 1, {"For.post"}) # {} <=> (s[n + 1].at = "For.post" \/ AtIn(s, n, {"For.post"}) # {})
    <3> DEFINE A == AtIn(s, n, {"For.post"})
               B == AtIn(s, n + 1, {"For.post"})
    <3>1. B = IF s[n + 1].at \in {"For.post"} THEN A \cup {n + 1} ELSE A
      BY AtInNext
    <3> HIDE DEF A, B
    <3>2. B # {} <=> (s[n + 1].at = "For.post" \/ A # {})
      BY <3>1
    <3> QED BY <3>2 DEF A, B
  <2> QED BY <2>1 DEF Enter, View
<1> QED BY <1>1, <1>2, <1>3, <1>4, <1>5, <1>6 DEF View, Enter

\* The view depends on those frames alone.
LEMMA ViewLocal ==
  ASSUME NEW s, NEW t, NEW n \in Nat, \A i \in 1..n : t[i] = s[i]
  PROVE  View(t, n) = View(s, n)
<1>1. ASSUME NEW L PROVE AtIn(t, n, L) = AtIn(s, n, L)
  BY DEF AtIn
<1>2. LoopsIn(t, n) = LoopsIn(s, n)
  BY <1>1 DEF LoopsIn
<1>3. ASSUME NEW L, NEW i \in AtIn(s, n, L) PROVE t[i] = s[i]
  BY DEF AtIn
<1> QED BY <1>1, <1>2, <1>3 DEF View

LEMMA EnterPlain ==
  ASSUME NEW s, NEW n, NEW f, f.at \notin Marks
  PROVE  Enter(View(s, n), f) = View(s, n)
<1> DEFINE v == View(s, n)
<1>1. /\ v = [loopDepth |-> v.loopDepth, funcDepth |-> v.funcDepth, funcIsAsync |-> v.funcIsAsync,
              classDepth |-> v.classDepth, inMethod |-> v.inMethod, allowIncDec |-> v.allowIncDec]
      /\ v.allowIncDec \in BOOLEAN
  BY DEF View
<1> HIDE DEF v
<1>2. /\ f.at \notin FuncAt /\ f.at \notin ClassAt
      /\ f.at # "Func.body" /\ f.at # "Loop.body" /\ f.at # "For.post"
  BY DEF Marks, FuncAt
<1>3. (f.at = "For.post" \/ v.allowIncDec) = v.allowIncDec
  BY <1>1, <1>2
<1>4. Enter(v, f) = v
  BY <1>1, <1>2, <1>3 DEF Enter
<1> QED BY <1>4 DEF v

----------------------------------------------------------------------------
(* A stack in good order: the frames of functions and of the clause after a  *)
(* loop's condition remember the context they will put back.                 *)

Remembers(f, v) == /\ f.at \in FuncAt => f.saved = v
                   /\ f.at = "For.post" => f.saved = v.allowIncDec
Good(s) == /\ IsSeq(s) /\ Len(s) \in Nat
           /\ \A i \in 1..Len(s) : Carries(s[i]) /\ Remembers(s[i], View(s, i - 1))
Now(s)  == View(s, Len(s))
Settled(s, c) == Good(s) /\ c = Now(s)

LEMMA GoodPop ==
  ASSUME NEW s, Good(s), Len(s) >= 1
  PROVE  /\ Good(Pop(s)) /\ Carries(s[Len(s)]) /\ Remembers(s[Len(s)], Now(Pop(s)))
         /\ Now(s) = Enter(Now(Pop(s)), s[Len(s)])
<1> DEFINE low == Pop(s)
           m   == Len(s) - 1
<1>1. /\ IsSeq(low) /\ Len(low) = m /\ m \in Nat /\ Len(s) = m + 1
      /\ \A i \in 1..m : low[i] = s[i]
  BY PopFacts DEF Good
<1> HIDE DEF low, m
<1>2. ASSUME NEW i \in 0..m PROVE View(low, i) = View(s, i)
  <2>1. i \in Nat /\ \A k \in 1..i : low[k] = s[k]
    BY <1>1
  <2> QED BY <2>1, ViewLocal
<1>3. Carries(s[m + 1]) /\ Remembers(s[m + 1], View(s, m))
  <2>1. m + 1 \in 1..Len(s) /\ (m + 1) - 1 = m
    BY <1>1
  <2> QED BY <2>1 DEF Good
<1>4. View(s, m + 1) = Enter(View(s, m), s[m + 1])
  BY <1>1, <1>3, ViewNext
<1>5. View(low, m) = View(s, m)
  BY <1>1, <1>2
<1>6. ASSUME NEW i \in 1..m PROVE Carries(low[i]) /\ Remembers(low[i], View(low, i - 1))
  <2>1. i \in 1..Len(s) /\ i - 1 \in 0..m /\ low[i] = s[i]
    BY <1>1
  <2>2. View(low, i - 1) = View(s, i - 1)
    BY <1>2, <2>1
  <2> QED BY <2>1, <2>2 DEF Good
<1> QED BY <1>1, <1>3, <1>4, <1>5, <1>6 DEF Good, Now, low

LEMMA GoodPush ==
  ASSUME NEW s, Good(s), NEW f, Carries(f), Remembers(f, Now(s))
  PROVE  Good(Append(s, f)) /\ Now(Append(s, f)) = Enter(Now(s), f)
<1> DEFINE t == Append(s, f)
           m == Len(s)
<1>1. /\ IsSeq(t) /\ Len(t) = m + 1 /\ m \in Nat
      /\ \A i \in 1..m : t[i] = s[i]
      /\ t[m + 1] = f
  BY PushFacts DEF Good
<1> HIDE DEF t, m
<1>2. ASSUME NEW i \in 0..m PROVE View(t, i) = View(s, i)
  <2>1. i \in Nat /\ \A k \in 1..i : t[k] = s[k]
    BY <1>1
  <2> QED BY <2>1, ViewLocal
<1>3. View(t, m + 1) = Enter(View(t, m), t[m + 1])
  BY <1>1, ViewNext
<1>4. View(t, m) = Now(s)
  BY <1>1, <1>2 DEF Now, m
<1>5. ASSUME NEW i \in 1..(m + 1) PROVE Carries(t[i]) /\ Remembers(t[i], View(t, i - 1))
  <2>1. CASE i = m + 1
    <3>1. i - 1 = m
      BY <1>1, <2>1
    <3> QED BY <1>1, <1>4, <2>1, <3>1
  <2>2. CASE i # m + 1
    <3>1. i \in 1..m /\ i - 1 \in 0..m /\ t[i] = s[i]
      BY <1>1, <2>2
    <3>2. View(t, i - 1) = View(s, i - 1)
      BY <1>2, <3>1
    <3> QED BY <3>1, <3>2 DEF Good, m
  <2> QED BY <2>1, <2>2
<1>6. m + 1 \in Nat
  BY <1>1
<1> QED BY <1>1, <1>3, <1>4, <1>5, <1>6 DEF Good, Now, t

LEMMA PushTwoIsTwice ==
  ASSUME NEW s, IsSeq(s), NEW f, NEW g
  PROVE  s \o <<f, g>> = Append(Append(s, f), g)
<1>1. PICK S : s \in Seq(S)
  BY DEF IsSeq
<1> DEFINE T == S \cup {f, g}
<1>2. s \in Seq(T) /\ f \in T /\ g \in T
  BY <1>1
<1> DEFINE u == s \o <<f, g>>
           v == Append(Append(s, f), g)
<1>3. u \in Seq(T) /\ v \in Seq(T)
  <2>1. <<f, g>> \in Seq(T)
    BY <1>2
  <2>2. Append(s, f) \in Seq(T)
    BY <1>2
  <2> HIDE DEF T
  <2>3. s \o <<f, g>> \in Seq(T)
    BY <1>2, <2>1, ConcatProperties
  <2>4. v \in Seq(T)
    BY <1>2, <2>2
  <2> QED BY <2>3, <2>4
<1>4. Pushed(u, s, f, g)
  BY PushedTwo
<1>5. /\ Len(v) = Len(s) + 2 /\ (\A i \in 1..Len(s) : v[i] = s[i])
      /\ v[Len(s) + 1] = f /\ v[Len(s) + 2] = g /\ Len(s) \in Nat
  <2> DEFINE w == Append(s, f)
  <2>1. /\ IsSeq(w) /\ Len(w) = Len(s) + 1 /\ (\A i \in 1..Len(s) : w[i] = s[i]) /\ w[Len(s) + 1] = f
    BY PushFacts
  <2> HIDE DEF w
  <2>2. /\ Len(Append(w, g)) = Len(w) + 1 /\ (\A i \in 1..Len(w) : Append(w, g)[i] = w[i])
        /\ Append(w, g)[Len(w) + 1] = g
    BY <2>1, PushFacts
  <2>3. Len(s) \in Nat
    BY <1>1
  <2> DEFINE z == Append(w, g)
  <2> HIDE DEF z
  <2>4. /\ Len(z) = Len(s) + 2 /\ (\A i \in 1..Len(s) : z[i] = s[i])
        /\ z[Len(s) + 1] = f /\ z[Len(s) + 2] = g
    BY <2>1, <2>2, <2>3 DEF z
  <2> QED BY <2>3, <2>4 DEF z, w
<1> HIDE DEF u, v, T
<1>6. /\ Len(u) = Len(s) + 2 /\ (\A i \in 1..Len(s) : u[i] = s[i])
      /\ u[Len(s) + 1] = f /\ u[Len(s) + 2] = g
  BY <1>4 DEF Pushed
<1>7. Len(u) = Len(v) /\ \A i \in 1..Len(u) : u[i] = v[i]
  BY <1>5, <1>6
<1>8. u = v
  BY <1>3, <1>7, SeqEqual
<1> QED BY <1>8 DEF u, v

\* What becomes of a stack in good order when the frame on top gives way to others.
LEMMA Replaced ==
  ASSUME Good(stack), Len(stack) >= 1
  PROVE  LET low == Pop(stack)
             v   == Now(low)
         IN  /\ Carries(Top) /\ Remembers(Top, v) /\ Now(stack) = Enter(v, Top)
             /\ Good(low)
             /\ \A f : Carries(f) /\ Remembers(f, v) =>
                  /\ Good(Append(low, f)) /\ Now(Append(low, f)) = Enter(v, f)
                  /\ \A g : Carries(g) /\ Remembers(g, Enter(v, f)) =>
                       Good(low \o <<f, g>>) /\ Now(low \o <<f, g>>) = Enter(Enter(v, f), g)
<1> DEFINE low == Pop(stack)
           v   == Now(low)
<1>1. Good(low) /\ Carries(Top) /\ Remembers(Top, v) /\ Now(stack) = Enter(v, Top)
  BY GoodPop DEF Top
<1> HIDE DEF low
<1>2. ASSUME NEW f, Carries(f), Remembers(f, v)
      PROVE  Good(Append(low, f)) /\ Now(Append(low, f)) = Enter(v, f)
  BY <1>1, <1>2, GoodPush
<1>3. ASSUME NEW f, Carries(f), Remembers(f, v), NEW g, Carries(g), Remembers(g, Enter(v, f))
      PROVE  Good(low \o <<f, g>>) /\ Now(low \o <<f, g>>) = Enter(Enter(v, f), g)
  <2> DEFINE w == Append(low, f)
  <2>1. Good(w) /\ Now(w) = Enter(v, f)
    BY <1>2, <1>3
  <2>2. low \o <<f, g>> = Append(w, g)
    BY <1>1, PushTwoIsTwice DEF Good
  <2> HIDE DEF w
  <2>3. Good(Append(w, g)) /\ Now(Append(w, g)) = Enter(Now(w), g)
    BY <1>3, <2>1, GoodPush
  <2> QED BY <2>1, <2>2, <2>3
<1>4. QED BY <1>1, <1>2, <1>3 DEF low

\* A routine that leaves the context alone leaves behind frames that say the same of it.
LEMMA MildStep ==
  ASSUME Settled(stack, context), Len(stack) >= 1, Unmarked, UNCHANGED context
  PROVE  Settled(stack', context')
<1> DEFINE low == Pop(stack)
           v   == Now(low)
<1>1. /\ Now(stack) = Enter(v, Top) /\ Good(low)
      /\ \A f : Carries(f) /\ Remembers(f, v) =>
           /\ Good(Append(low, f)) /\ Now(Append(low, f)) = Enter(v, f)
           /\ \A g : Carries(g) /\ Remembers(g, Enter(v, f)) =>
                Good(low \o <<f, g>>) /\ Now(low \o <<f, g>>) = Enter(Enter(v, f), g)
  BY Replaced DEF Settled
<1>2. \A f : f.at \notin Marks => Enter(v, f) = v
  BY EnterPlain DEF Now
<1>3. \A f : Plain(f) => Carries(f) /\ f.at \notin Marks
  BY DEF Plain
<1>4. \A f, w : Plain(f) => Remembers(f, w)
  BY DEF Plain, Remembers, Marks
<1>5. Now(stack) = v /\ context' = v
  BY <1>1, <1>2 DEF Unmarked, Settled
<1>6. CASE stack' = low
  BY <1>1, <1>5, <1>6 DEF Settled
<1>7. ASSUME NEW f, Plain(f), stack' = Append(low, f) PROVE Settled(stack', context')
  BY <1>1, <1>2, <1>3, <1>4, <1>5, <1>7 DEF Settled
<1>8. ASSUME NEW f, NEW g, Plain(f), Plain(g), stack' = low \o <<f, g>> PROVE Settled(stack', context')
  <2>1. Carries(f) /\ Remembers(f, v) /\ Enter(v, f) = v /\ Carries(g) /\ Remembers(g, v) /\ Enter(v, g) = v
    BY <1>2, <1>3, <1>4, <1>8
  <2>2. Good(low \o <<f, g>>) /\ Now(low \o <<f, g>>) = v
    BY <1>1, <2>1
  <2> QED BY <1>5, <1>8, <2>2 DEF Settled
<1> QED BY <1>6, <1>7, <1>8 DEF Unmarked, Mild

\* A frame that takes its place beside one that says the same.
LEMMA ClassSame ==
  ASSUME NEW v, NEW f, f.at \in ClassAt, NEW g, g.at \in ClassAt
  PROVE  Enter(v, f) = Enter(v, g) /\ Remembers(f, v)
<1>1. \A a \in ClassAt : a \notin FuncAt /\ a # "Func.body" /\ a # "Loop.body" /\ a # "For.post"
  BY DEF ClassAt, FuncAt
<1> QED BY <1>1 DEF Enter, Remembers

LEMMA MemberStep ==
  ASSUME Settled(stack, context), Len(stack) >= 1, Member, UNCHANGED context
  PROVE  Settled(stack', context')
<1> DEFINE low == Pop(stack)
           v   == Now(low)
<1>1. /\ Now(stack) = Enter(v, Top) /\ Good(low)
      /\ \A f : Carries(f) /\ Remembers(f, v) =>
           /\ Good(Append(low, f)) /\ Now(Append(low, f)) = Enter(v, f)
           /\ \A g : Carries(g) /\ Remembers(g, Enter(v, f)) =>
                Good(low \o <<f, g>>) /\ Now(low \o <<f, g>>) = Enter(Enter(v, f), g)
  BY Replaced DEF Settled
<1>2. Top.at \in ClassAt /\ context' = Enter(v, Top)
  BY <1>1 DEF Member, Settled
<1> HIDE DEF low, v
<1>3. ASSUME NEW f, Carries(f), f.at \in ClassAt
      PROVE  Remembers(f, v) /\ Enter(v, f) = context'
  BY <1>2, <1>3, ClassSame
<1>4. ASSUME NEW f, Carries(f), f.at \in ClassAt, stack' = Append(low, f) PROVE Settled(stack', context')
  BY <1>1, <1>3, <1>4 DEF Settled
<1>5. ASSUME NEW f, Carries(f), f.at \in ClassAt, NEW g, Plain(g), stack' = low \o <<f, g>>
      PROVE  Settled(stack', context')
  <2>1. Remembers(f, v) /\ Enter(v, f) = Now(stack)
    BY <1>3, <1>5 DEF Settled
  <2>2. Carries(g) /\ g.at \notin Marks /\ Remembers(g, Enter(v, f))
    BY <1>5 DEF Plain, Remembers, Marks
  <2>3. Enter(Enter(v, f), g) = Enter(v, f)
    BY <2>1, <2>2, EnterPlain DEF Now
  <2> QED BY <1>1, <1>3, <1>5, <2>1, <2>2, <2>3 DEF Settled
<1> QED BY <1>4, <1>5 DEF Member, low

\* The fields of a view.
LEMMA ViewFields ==
  ASSUME NEW s
  PROVE  LET v == Now(s)
         IN  /\ v = [loopDepth |-> v.loopDepth, funcDepth |-> v.funcDepth, funcIsAsync |-> v.funcIsAsync,
                     classDepth |-> v.classDepth, inMethod |-> v.inMethod, allowIncDec |-> v.allowIncDec]
             /\ v.allowIncDec \in BOOLEAN
             /\ IsSeq(s) => v.loopDepth \in Nat /\ v.classDepth \in Nat /\ v.funcDepth \in Nat
<1>1. ASSUME IsSeq(s) PROVE Now(s).loopDepth \in Nat /\ Now(s).classDepth \in Nat /\ Now(s).funcDepth \in Nat
  <2>1. Len(s) \in Nat
    BY <1>1 DEF IsSeq
  <2>2. \A L : IsFiniteSet(AtIn(s, Len(s), L)) /\ IsFiniteSet(LoopsIn(s, Len(s)))
    BY <2>1, AtInFinite
  <2> QED BY <2>2, FS_CardinalityType DEF Now, View
<1> QED BY <1>1 DEF Now, View

\* One frame on top of the others, or one and a plain one.
LEMMA Entered ==
  ASSUME Good(stack), Len(stack) >= 1, NEW f, Carries(f), Remembers(f, Now(Pop(stack)))
  PROVE  /\ stack' = Append(Pop(stack), f) => Good(stack') /\ Now(stack') = Enter(Now(Pop(stack)), f)
         /\ \A g : Plain(g) /\ stack' = Pop(stack) \o <<f, g>> =>
              Good(stack') /\ Now(stack') = Enter(Now(Pop(stack)), f)
<1> DEFINE low == Pop(stack)
           v   == Now(low)
<1>1. /\ Good(Append(low, f)) /\ Now(Append(low, f)) = Enter(v, f)
      /\ \A g : Carries(g) /\ Remembers(g, Enter(v, f)) =>
           Good(low \o <<f, g>>) /\ Now(low \o <<f, g>>) = Enter(Enter(v, f), g)
  BY Replaced
<1>2. ASSUME NEW g, Plain(g) PROVE Remembers(g, Enter(v, f)) /\ Carries(g) /\ g.at \notin Marks
  BY <1>2 DEF Plain, Remembers, Marks
<1>3. ASSUME NEW g, Plain(g) PROVE Enter(Enter(v, f), g) = Enter(v, f)
  <2>1. Enter(v, f) = Now(Append(low, f)) /\ g.at \notin Marks
    BY <1>1, <1>2, <1>3
  <2> QED BY <2>1, EnterPlain DEF Now
<1> QED BY <1>1, <1>2, <1>3

\* What the frames of functions, and of the clause after a loop's condition, make of a context.
ContextFields == {"loopDepth", "funcDepth", "funcIsAsync", "classDepth", "inMethod", "allowIncDec"}
LEMMA ContextMade ==
  ASSUME NEW u, NEW a, NEW b, NEW c, NEW d, NEW e, NEW h,
         u = [k \in DOMAIN u |-> u[k]], DOMAIN u = ContextFields,
         u.loopDepth = a, u.funcDepth = b, u.funcIsAsync = c, u.classDepth = d, u.inMethod = e, u.allowIncDec = h
  PROVE  u = [loopDepth |-> a, funcDepth |-> b, funcIsAsync |-> c, classDepth |-> d, inMethod |-> e, allowIncDec |-> h]
BY DEF ContextFields

InLambda(v) == [v EXCEPT !.loopDepth = 0, !.funcDepth = @ + 1, !.funcIsAsync = FALSE]
InFunction(v, a, m) == [v EXCEPT !.loopDepth = 0, !.funcDepth = @ + 1, !.funcIsAsync = a, !.inMethod = m]
InPost(v) == [v EXCEPT !.allowIncDec = TRUE]
LEMMA EnterMarks ==
  ASSUME NEW f, NEW v, v.allowIncDec \in BOOLEAN, f.at = "Func.body" => f.async \in BOOLEAN,
         v = [loopDepth |-> v.loopDepth, funcDepth |-> v.funcDepth, funcIsAsync |-> v.funcIsAsync,
              classDepth |-> v.classDepth, inMethod |-> v.inMethod, allowIncDec |-> v.allowIncDec]
  PROVE  /\ f.at = "Lambda.body" => Enter(v, f) = InLambda(v)
         /\ f.at = "Func.body" => Enter(v, f) = InFunction(v, f.async, f.method)
         /\ f.at = "For.post" => Enter(v, f) = InPost(v)
<1> DEFINE a == v.loopDepth
           b == v.funcDepth
           c == v.funcIsAsync
           d == v.classDepth
           e == v.inMethod
           h == v.allowIncDec
<1>0. /\ v = [loopDepth |-> a, funcDepth |-> b, funcIsAsync |-> c, classDepth |-> d, inMethod |-> e, allowIncDec |-> h]
      /\ v.loopDepth = a /\ v.funcDepth = b /\ v.funcIsAsync = c
      /\ v.classDepth = d /\ v.inMethod = e /\ v.allowIncDec = h /\ h \in BOOLEAN
  OBVIOUS
<1> HIDE DEF a, b, c, d, e, h
<1>1. ASSUME f.at = "Lambda.body" PROVE Enter(v, f) = InLambda(v)
  <2> DEFINE p == FALSE
             u == InLambda(v)
  <2>1. /\ f.at \in FuncAt /\ f.at \notin ClassAt /\ f.at # "Loop.body" /\ f.at # "Func.body"
        /\ (f.at = "Func.body" /\ f.async) = p /\ (f.at = "For.post" \/ h) = h
    BY <1>0, <1>1 DEF FuncAt, ClassAt
  <2>2. u = [k \in DOMAIN u |-> u[k]] /\ DOMAIN u = ContextFields
    BY <1>0 DEF InLambda, ContextFields
  <2>3. u.loopDepth = 0 /\ u.funcDepth = b + 1 /\ u.funcIsAsync = p /\ u.classDepth = d /\ u.inMethod = e /\ u.allowIncDec = h
    BY <1>0 DEF InLambda, ContextFields
  <2> HIDE DEF p, u
  <2>4. Enter(v, f) = [loopDepth |-> 0, funcDepth |-> b + 1, funcIsAsync |-> p, classDepth |-> d, inMethod |-> e, allowIncDec |-> h]
    BY <1>0, <2>1 DEF Enter
  <2>5. u = [loopDepth |-> 0, funcDepth |-> b + 1, funcIsAsync |-> p, classDepth |-> d, inMethod |-> e, allowIncDec |-> h]
    BY <2>2, <2>3, ContextMade
  <2> QED BY <2>4, <2>5 DEF u
<1>2. ASSUME f.at = "Func.body" PROVE Enter(v, f) = InFunction(v, f.async, f.method)
  <2> DEFINE p == f.async
             u == InFunction(v, f.async, f.method)
  <2>1. /\ f.at \in FuncAt /\ f.at \notin ClassAt /\ f.at # "Loop.body" /\ f.at = "Func.body"
        /\ (f.at = "Func.body" /\ f.async) = p /\ (f.at = "For.post" \/ h) = h
    BY <1>0, <1>2 DEF FuncAt, ClassAt
  <2>2. u = [k \in DOMAIN u |-> u[k]] /\ DOMAIN u = ContextFields
    BY <1>0 DEF InFunction, ContextFields
  <2>3. u.loopDepth = 0 /\ u.funcDepth = b + 1 /\ u.funcIsAsync = p /\ u.classDepth = d /\ u.inMethod = f.method /\ u.allowIncDec = h
    BY <1>0 DEF InFunction, ContextFields
  <2> HIDE DEF p, u
  <2>4. Enter(v, f) = [loopDepth |-> 0, funcDepth |-> b + 1, funcIsAsync |-> p, classDepth |-> d, inMethod |-> f.method, allowIncDec |-> h]
    BY <1>0, <2>1 DEF Enter
  <2>5. u = [loopDepth |-> 0, funcDepth |-> b + 1, funcIsAsync |-> p, classDepth |-> d, inMethod |-> f.method, allowIncDec |-> h]
    BY <2>2, <2>3, ContextMade
  <2> QED BY <2>4, <2>5 DEF u
<1>3. ASSUME f.at = "For.post" PROVE Enter(v, f) = InPost(v)
  <2> DEFINE p == TRUE
             u == InPost(v)
  <2>1. /\ f.at \notin FuncAt /\ f.at \notin ClassAt /\ f.at # "Loop.body" /\ f.at # "Func.body"
        /\ (f.at = "Func.body" /\ f.async) = FALSE /\ (f.at = "For.post" \/ h) = p
    BY <1>0, <1>3 DEF FuncAt, ClassAt
  <2>2. u = [k \in DOMAIN u |-> u[k]] /\ DOMAIN u = ContextFields
    BY <1>0 DEF InPost, ContextFields
  <2>3. u.loopDepth = a /\ u.funcDepth = b /\ u.funcIsAsync = c /\ u.classDepth = d /\ u.inMethod = e /\ u.allowIncDec = p
    BY <1>0 DEF InPost, ContextFields
  <2> HIDE DEF p, u
  <2>4. Enter(v, f) = [loopDepth |-> a, funcDepth |-> b, funcIsAsync |-> c, classDepth |-> d, inMethod |-> e, allowIncDec |-> p]
    BY <1>0, <2>1 DEF Enter
  <2>5. u = [loopDepth |-> a, funcDepth |-> b, funcIsAsync |-> c, classDepth |-> d, inMethod |-> e, allowIncDec |-> p]
    BY <2>2, <2>3, ContextMade
  <2> QED BY <2>4, <2>5 DEF u
<1> QED BY <1>1, <1>2, <1>3

\* What the routines find: their own frame, and below it the context they are to put back.
LEMMA Found ==
  ASSUME Settled(stack, context), Len(stack) >= 1
  PROVE  LET v == Now(Pop(stack))
         IN  /\ Good(Pop(stack)) /\ Carries(Top) /\ Remembers(Top, v) /\ context = Enter(v, Top)
             /\ Top.at \notin Marks => context = v
             /\ v = [loopDepth |-> v.loopDepth, funcDepth |-> v.funcDepth, funcIsAsync |-> v.funcIsAsync,
                     classDepth |-> v.classDepth, inMethod |-> v.inMethod, allowIncDec |-> v.allowIncDec]
             /\ v.allowIncDec \in BOOLEAN /\ v.loopDepth \in Nat /\ v.classDepth \in Nat
<1>1. /\ Good(Pop(stack)) /\ Carries(Top) /\ Remembers(Top, Now(Pop(stack)))
      /\ context = Enter(Now(Pop(stack)), Top)
  BY Replaced DEF Settled
<1>2. Top.at \notin Marks => context = Now(Pop(stack))
  BY <1>1, EnterPlain DEF Now
<1> QED BY <1>1, <1>2, ViewFields DEF Good

LEMMA LambdaStep ==
  ASSUME Settled(stack, context), Len(stack) >= 1, ParseLambdaBody
  PROVE  Settled(stack', context')
<1> DEFINE v == Now(Pop(stack))
           f == [at |-> "Lambda.body", saved |-> context]
<1>1. /\ Good(Pop(stack)) /\ Carries(Top) /\ Remembers(Top, v) /\ context = Enter(v, Top)
      /\ Top.at \notin Marks => context = v
      /\ v = [loopDepth |-> v.loopDepth, funcDepth |-> v.funcDepth, funcIsAsync |-> v.funcIsAsync,
              classDepth |-> v.classDepth, inMethod |-> v.inMethod, allowIncDec |-> v.allowIncDec]
      /\ v.allowIncDec \in BOOLEAN
  BY Found
<1>2. CASE /\ At("Lambda.colon")
           /\ context' = [context EXCEPT !.loopDepth = 0, !.funcDepth = @ + 1, !.funcIsAsync = FALSE]
           /\ Call(f, Expr(COND))
  <2>1. context = v
    BY <1>1, <1>2 DEF At, Marks, FuncAt, ClassAt
  <2>2. Carries(f) /\ Remembers(f, v)
    BY <2>1 DEF Carries, Remembers, ItemsAt, HeadAt
  <2>3. stack' = Pop(stack) \o <<f, Expr(COND)>>
    BY <1>2 DEF Call
  <2>4. Good(stack') /\ Now(stack') = Enter(v, f)
    BY <2>2, <2>3, PlainExpr, Entered DEF Settled
  <2> HIDE DEF v
  <2>5. Enter(v, f) = InLambda(v)
    BY <1>1, <2>2, EnterMarks
  <2>6. context' = InLambda(context)
    BY <1>2 DEF InLambda
  <2> QED BY <2>1, <2>4, <2>5, <2>6 DEF Settled
<1>3. CASE /\ At("Lambda.body")
           /\ context' = [context EXCEPT !.loopDepth = Top.saved.loopDepth, !.funcDepth = Top.saved.funcDepth,
                                         !.funcIsAsync = Top.saved.funcIsAsync]
           /\ Return(Node("LAMBDA", 15))
  <2>1. stack' = Pop(stack)
    BY <1>3 DEF Return
  <2> HIDE DEF v
  <2>2. Top.saved = v /\ Top.at = "Lambda.body"
    BY <1>1, <1>3 DEF At, Remembers, FuncAt
  <2>3. Enter(v, Top) = InLambda(v)
    BY <1>1, <2>2, EnterMarks
  <2>4. context' = v
    <3>1. context = InLambda(v) /\ DOMAIN v = ContextFields /\ v = [k \in DOMAIN v |-> v[k]]
      BY <1>1, <2>3 DEF ContextFields
    <3>2. /\ DOMAIN context = ContextFields /\ context = [k \in DOMAIN context |-> context[k]]
          /\ context.classDepth = v.classDepth /\ context.inMethod = v.inMethod
          /\ context.allowIncDec = v.allowIncDec
      BY <3>1 DEF InLambda, ContextFields
    <3>3. context' = [context EXCEPT !.loopDepth = v.loopDepth, !.funcDepth = v.funcDepth,
                                     !.funcIsAsync = v.funcIsAsync]
      BY <1>3, <2>2
    <3> DEFINE u == context'
    <3>4. /\ DOMAIN u = ContextFields /\ u = [k \in DOMAIN u |-> u[k]]
          /\ u.loopDepth = v.loopDepth /\ u.funcDepth = v.funcDepth /\ u.funcIsAsync = v.funcIsAsync
          /\ u.classDepth = v.classDepth /\ u.inMethod = v.inMethod /\ u.allowIncDec = v.allowIncDec
      BY <3>2, <3>3 DEF ContextFields
    <3> HIDE DEF u
    <3>5. u = v
      BY <1>1, <3>4, ContextMade
    <3> QED BY <3>5 DEF u
  <2> QED BY <1>1, <2>1, <2>4 DEF Settled, v
<1> QED BY <1>2, <1>3 DEF ParseLambdaBody

LEMMA FunctionStep ==
  ASSUME Settled(stack, context), Len(stack) >= 1, ParseFuncBody
  PROVE  Settled(stack', context')
<1> DEFINE v == Now(Pop(stack))
           f == [at |-> "Func.body", saved |-> context, async |-> Top.async, method |-> Top.method]
<1>1. /\ Good(Pop(stack)) /\ Carries(Top) /\ Remembers(Top, v) /\ context = Enter(v, Top)
      /\ Top.at \notin Marks => context = v
      /\ v = [loopDepth |-> v.loopDepth, funcDepth |-> v.funcDepth, funcIsAsync |-> v.funcIsAsync,
              classDepth |-> v.classDepth, inMethod |-> v.inMethod, allowIncDec |-> v.allowIncDec]
      /\ v.allowIncDec \in BOOLEAN
  BY Found
<1>2. CASE /\ At("Func.close")
           /\ context' = [context EXCEPT !.loopDepth = 0, !.funcDepth = @ + 1, !.funcIsAsync = Top.async,
                                         !.inMethod = Top.method]
           /\ Call(f, RequiredBlock)
  <2>1. context = v
    BY <1>1, <1>2 DEF At, Marks, FuncAt, ClassAt
  <2>2. Top.async \in BOOLEAN /\ Top.method \in BOOLEAN
    BY <1>1, <1>2 DEF At, Carries, HeadAt
  <2>3. Carries(f) /\ Remembers(f, v)
    BY <2>1, <2>2 DEF Carries, Remembers, ItemsAt, HeadAt
  <2>4. stack' = Pop(stack) \o <<f, RequiredBlock>> /\ Plain(RequiredBlock)
    BY <1>2, PlainF DEF Call, RequiredBlock, Marks, FuncAt, ClassAt, ItemsAt, HeadAt
  <2>5. Good(stack') /\ Now(stack') = Enter(v, f)
    BY <2>3, <2>4, Entered DEF Settled
  <2> HIDE DEF v
  <2>6. Enter(v, f) = InFunction(v, Top.async, Top.method)
    BY <1>1, <2>2, EnterMarks
  <2>7. context' = InFunction(context, Top.async, Top.method)
    BY <1>2 DEF InFunction
  <2> QED BY <2>1, <2>5, <2>6, <2>7 DEF Settled
<1>3. CASE /\ At("Func.body") /\ Done
           /\ context' = [Top.saved EXCEPT !.classDepth = context.classDepth, !.allowIncDec = context.allowIncDec]
  <2>1. stack' = Pop(stack)
    BY <1>3 DEF Done, Return
  <2> HIDE DEF v
  <2>2. Top.saved = v /\ Top.at = "Func.body"
    BY <1>1, <1>3 DEF At, Remembers, FuncAt
  <2>3. Enter(v, Top).classDepth = v.classDepth /\ Enter(v, Top).allowIncDec = v.allowIncDec
    BY <1>1, <2>2 DEF Enter, ClassAt
  <2>4. context' = v
    BY ZenonT(20), <1>1, <1>3, <2>2, <2>3
  <2> QED BY <1>1, <2>1, <2>4 DEF Settled, v
<1> QED BY <1>2, <1>3 DEF ParseFuncBody

LEMMA ClassStep ==
  ASSUME Settled(stack, context), Len(stack) >= 1, ParseClassEnds
  PROVE  Settled(stack', context')
<1> DEFINE v == Now(Pop(stack))
           f == F("Class.body")
<1>1. /\ Good(Pop(stack)) /\ Carries(Top) /\ Remembers(Top, v) /\ context = Enter(v, Top)
      /\ Top.at \notin Marks => context = v
      /\ v = [loopDepth |-> v.loopDepth, funcDepth |-> v.funcDepth, funcIsAsync |-> v.funcIsAsync,
              classDepth |-> v.classDepth, inMethod |-> v.inMethod, allowIncDec |-> v.allowIncDec]
      /\ v.allowIncDec \in BOOLEAN /\ v.classDepth \in Nat
  BY Found
<1>2. CASE At("Class.open") /\ Become(f) /\ context' = [context EXCEPT !.classDepth = @ + 1]
  <2>1. context = v
    BY <1>1, <1>2 DEF At, Marks, FuncAt, ClassAt
  <2>2. Carries(f) /\ Remembers(f, v)
    BY DEF Carries, Remembers, F, ItemsAt, HeadAt, FuncAt
  <2>3. Good(stack') /\ Now(stack') = Enter(v, f)
    BY <1>2, <2>2, Entered DEF Settled, Become
  <2> HIDE DEF v
  <2>4. Enter(v, f) = [v EXCEPT !.classDepth = @ + 1]
    BY <1>1 DEF Enter, F, FuncAt, ClassAt
  <2> QED BY <1>2, <2>1, <2>3, <2>4 DEF Settled
<1>3. CASE At("Class.body") /\ Done /\ context' = [context EXCEPT !.classDepth = @ - 1]
  <2>1. stack' = Pop(stack)
    BY <1>3 DEF Done, Return
  <2> HIDE DEF v
  <2>2. Enter(v, Top) = [v EXCEPT !.classDepth = v.classDepth + 1]
    BY <1>1, <1>3 DEF Enter, At, FuncAt, ClassAt
  <2>3. (v.classDepth + 1) - 1 = v.classDepth
    BY <1>1
  <2>4. context.classDepth = v.classDepth + 1 /\ context = [v EXCEPT !.classDepth = v.classDepth + 1]
    BY <1>1, <2>2
  <2>5. context' = [context EXCEPT !.classDepth = v.classDepth]
    BY <1>3, <2>3, <2>4
  <2>6. context' = v
    BY <1>1, <2>4, <2>5
  <2> QED BY <1>1, <2>1, <2>6 DEF Settled, v
<1> QED BY <1>2, <1>3 DEF ParseClassEnds

LEMMA LoopStep ==
  ASSUME Settled(stack, context), Len(stack) >= 1, ParseLoop
  PROVE  Settled(stack', context')
<1> DEFINE v == Now(Pop(stack))
           b == F("Loop.body")
           p == [at |-> "For.post", saved |-> context.allowIncDec]
<1>1. /\ Good(Pop(stack)) /\ Carries(Top) /\ Remembers(Top, v) /\ context = Enter(v, Top)
      /\ Top.at \notin Marks => context = v
      /\ v = [loopDepth |-> v.loopDepth, funcDepth |-> v.funcDepth, funcIsAsync |-> v.funcIsAsync,
              classDepth |-> v.classDepth, inMethod |-> v.inMethod, allowIncDec |-> v.allowIncDec]
      /\ v.allowIncDec \in BOOLEAN /\ v.loopDepth \in Nat
  BY Found
<1>2. ASSUME Top.at \notin Marks, NEW g, Plain(g), Call(b, g), InLoop PROVE Settled(stack', context')
  <2>1. context = v
    BY <1>1, <1>2
  <2>2. Carries(b) /\ Remembers(b, v)
    BY DEF Carries, Remembers, F, ItemsAt, HeadAt, FuncAt
  <2>3. Good(stack') /\ Now(stack') = Enter(v, b)
    BY <1>2, <2>2, Entered DEF Settled, Call
  <2> HIDE DEF v
  <2>4. Enter(v, b) = [v EXCEPT !.loopDepth = @ + 1]
    BY <1>1 DEF Enter, F, FuncAt, ClassAt
  <2> QED BY <1>2, <2>1, <2>3, <2>4 DEF Settled, InLoop
<1>3. CASE At("For.first") /\ InLoop /\ Call(b, Block)
  BY <1>2, <1>3, PlainF DEF At, Block, Marks, FuncAt, ClassAt, ItemsAt, HeadAt
<1>4. CASE At("Loop") /\ InLoop /\ Call(b, RequiredBlock)
  BY <1>2, <1>4, PlainF DEF At, RequiredBlock, Marks, FuncAt, ClassAt, ItemsAt, HeadAt
<1>5. CASE At("For.condition") /\ context' = [context EXCEPT !.allowIncDec = TRUE] /\ Call(p, Simple)
  <2>1. context = v
    BY <1>1, <1>5 DEF At, Marks, FuncAt, ClassAt
  <2>2. Carries(p) /\ Remembers(p, v)
    BY <2>1 DEF Carries, Remembers, ItemsAt, HeadAt, FuncAt
  <2>3. Common("Reinterpret")
    BY DEF Common, Marks, FuncAt, ClassAt, ItemsAt, HeadAt
  <2>4. Plain(Simple)
    BY <2>3, PlainMade DEF Simple
  <2>5. Good(stack') /\ Now(stack') = Enter(v, p)
    BY <1>5, <2>2, <2>4, Entered DEF Settled, Call
  <2> HIDE DEF v
  <2>6. Enter(v, p) = InPost(v)
    BY <1>1, EnterMarks
  <2>7. context' = InPost(context)
    BY <1>5 DEF InPost
  <2> QED BY <2>1, <2>5, <2>6, <2>7 DEF Settled
<1>6. CASE At("For.post") /\ context' = [context EXCEPT !.allowIncDec = Top.saved] /\ Become(F("Loop"))
  <2>1. Plain(F("Loop")) /\ F("Loop").at \notin Marks
    BY PlainF DEF F, Marks, FuncAt, ClassAt, ItemsAt, HeadAt
  <2>2. Carries(F("Loop")) /\ Remembers(F("Loop"), v)
    BY <2>1 DEF Plain, Remembers, Marks
  <2>3. Enter(v, F("Loop")) = v
    BY <2>1, EnterPlain DEF Now
  <2>4. Good(stack') /\ Now(stack') = v
    BY <1>6, <2>2, <2>3, Entered DEF Settled, Become
  <2> HIDE DEF v
  <2>5. Top.saved = v.allowIncDec /\ Enter(v, Top) = InPost(v)
    <3>1. Top.at = "For.post" /\ Top.saved = v.allowIncDec
      BY <1>1, <1>6 DEF At, Remembers
    <3> QED BY <1>1, <3>1, EnterMarks
  <2>6. context' = v
    <3>1. context = InPost(v) /\ DOMAIN v = ContextFields /\ v = [k \in DOMAIN v |-> v[k]]
      BY <1>1, <2>5 DEF ContextFields
    <3>2. context' = [context EXCEPT !.allowIncDec = v.allowIncDec]
      BY <1>6, <2>5
    <3>3. context' = [v EXCEPT !.allowIncDec = v.allowIncDec]
      BY <3>1, <3>2 DEF InPost
    <3> QED BY <3>1, <3>3
  <2> QED BY <2>4, <2>6 DEF Settled, v
<1>7. CASE At("Loop.body") /\ context' = [context EXCEPT !.loopDepth = @ - 1] /\ Done
  <2>1. stack' = Pop(stack)
    BY <1>7 DEF Done, Return
  <2> HIDE DEF v
  <2>2. Enter(v, Top) = [v EXCEPT !.loopDepth = v.loopDepth + 1]
    BY <1>1, <1>7 DEF Enter, At, FuncAt, ClassAt
  <2>3. (v.loopDepth + 1) - 1 = v.loopDepth
    BY <1>1
  <2>4. context.loopDepth = v.loopDepth + 1 /\ context = [v EXCEPT !.loopDepth = v.loopDepth + 1]
    BY <1>1, <2>2
  <2>5. context' = [context EXCEPT !.loopDepth = v.loopDepth]
    BY <1>7, <2>3, <2>4
  <2>6. context' = v
    BY <1>1, <2>4, <2>5
  <2> QED BY <1>1, <2>1, <2>6 DEF Settled, v
<1> QED BY <1>3, <1>4, <1>5, <1>6, <1>7 DEF ParseLoop

----------------------------------------------------------------------------
(* The theorem.                                                              *)

ContextInv == SilenceInv /\ (Running => Settled(stack, context))

LEMMA ContextInit == Init => ContextInv
<1> SUFFICES ASSUME Init PROVE Settled(stack, context)
  BY SilenceInit DEF ContextInv
<1> DEFINE f == F("Start")
<1>1. stack = <<f>> /\ context = Outside
  BY DEF Init
<1>2. Carries(f) /\ \A v : Remembers(f, v)
  BY DEF Carries, Remembers, F, FuncAt, ItemsAt, HeadAt
<1>3. f.at \notin Marks
  BY DEF F, Marks, FuncAt, ClassAt
<1> HIDE DEF f
<1>4. IsSeq(stack) /\ Len(stack) = 1 /\ stack[1] = f
  <2>1. <<f>> \in Seq({f}) /\ Len(<<f>>) = 1 /\ <<f>>[1] = f
    OBVIOUS
  <2> QED BY <1>1, <2>1 DEF IsSeq
<1>5. Good(stack)
  BY <1>2, <1>4 DEF Good
<1>6. View(stack, 0) = Outside
  <2>1. \A L : AtIn(stack, 0, L) = {}
    BY DEF AtIn
  <2>2. LoopsIn(stack, 0) = {}
    BY <2>1 DEF LoopsIn
  <2>3. Cardinality({}) = 0
    BY FS_EmptySet
  <2> QED BY <2>1, <2>2, <2>3 DEF View, Outside
<1>7. View(stack, 0 + 1) = Enter(View(stack, 0), f)
  BY <1>2, <1>4, ViewNext
<1>8. View(stack, 1) = Outside
  BY <1>3, <1>6, <1>7, EnterPlain
<1> QED BY <1>1, <1>4, <1>5, <1>8 DEF Settled, Now

LEMMA ContextStep == ContextInv /\ [Next]_vars => ContextInv'
<1> SUFFICES ASSUME ContextInv, [Next]_vars, Running' PROVE Settled(stack', context')
  BY SilenceStep DEF ContextInv
<1>1. CASE Parse
  <2>1. Settled(stack, context) /\ Len(stack) >= 1
    BY <1>1 DEF Parse, ContextInv, SilenceInv, Outermost
  <2>2. Carries(Top)
    BY <2>1, Found
  <2>3. CASE LookAhead
    BY <2>1, <2>3 DEF LookAhead
  <2>4. CASE ParseExpression
    BY <2>1, <2>2, <2>4, ExpressionMild, MildStep DEF ParseExpression
  <2>5. CASE ParseInContext
    BY <2>1, <2>5, LambdaStep, FunctionStep, ClassStep, LoopStep DEF ParseInContext
  <2>6. CASE ParseQuietly
    <3>1. UNCHANGED context
      BY <2>6 DEF ParseQuietly
    <3>2. CASE InnerStatement
      BY <2>1, <2>2, <3>1, <3>2, StatementMild, ClassMember, MildStep, MemberStep
    <3>3. CASE ParseStatement \/ ParseStatementEnd \/ Synchronize \/ Advancing \/ ParseNext
      BY <2>1, <2>2, <3>1, <3>3, OuterMild, MildStep
    <3> QED BY <2>6, <3>2, <3>3 DEF ParseQuietly, InnerStatement
  <2> QED BY <1>1, <2>3, <2>4, <2>5, <2>6 DEF Parse
<1>2. CASE Refuse
  BY <1>2 DEF Refuse, Running
<1>3. CASE Finish
  BY <1>3 DEF Finish, Running
<1>4. CASE Ended \/ UNCHANGED vars
  BY <1>4 DEF Ended, vars, ContextInv, Running
<1> QED BY <1>1, <1>2, <1>3, <1>4 DEF Next

LEMMA ContextImplied == ContextInv => ContextExact
<1> SUFFICES ASSUME Settled(stack, context) PROVE ContextExact
  BY DEF ContextInv, ContextExact
<1>1. DOMAIN stack = 1..Len(stack)
  BY DEF Settled, Good, IsSeq
<1>2. \A L : Inside(L) = AtIn(stack, Len(stack), L)
  BY <1>1 DEF Inside, AtIn
<1>3. Functions = AtIn(stack, Len(stack), FuncAt)
  BY <1>2 DEF Functions, FuncAt
<1>4. context = View(stack, Len(stack))
  BY DEF Settled, Now
<1> QED BY <1>2, <1>3, <1>4 DEF ContextExact, View, LoopsIn, ClassAt

\* Whatever the text, and whatever was nested, closed or given up before the token the
\* parser is at: the context the checks of break, return, await, self and '++' read is that
\* of the constructs open around it (parseFuncDecl, parseLambda, parseClassDecl, the loops).
THEOREM ContextAlwaysExact == Spec => []ContextExact
<1>1. Spec => []ContextInv
  BY ContextInit, ContextStep, PTL DEF Spec
<1> QED BY <1>1, ContextImplied, PTL

----------------------------------------------------------------------------
(* What the frames of expressions are made of, and which frame may stand on  *)
(* which.                                                                    *)

ExprAt  == {"Expr", "Fold"}
InfixAt == {"Binary", "Binary.right", "Logical", "Logical.right", "Compare", "Compare.link", "Conditional",
            "Conditional.else", "Call", "Call.equal", "Call.argument", "Call.close", "Index", "Attr"}
CloseAt == {"Clauses", "Clause.target", "Clause.comma", "Clause.in", "Elements", "Element"}
\* The routines called by the loop that folds operators, and what they go on to be.
OperatorAt ==
  InfixAt \cup CloseAt \cup
  {"Conditional.end", "Index.start", "Index.close", "Slice.stop", "Slice.colon", "Slice.step", "Slice.close",
   "Grouping", "Grouping.close", "Unary", "Unary.operand", "Await", "Await.end", "SelfSuper", "Lambda",
   "Lambda.comma", "Lambda.colon", "Lambda.body", "List", "List.first", "List.value", "Brace", "Brace.first",
   "Brace.value", "Dict.key", "Dict.colon", "Dict.pair", "Dict.close", "FString", "FString.format", "FString.close"}
\* Waiting for the operand of an operator.
WaitAt == {"Binary.right", "Logical.right", "Compare.link", "Conditional.else", "Conditional.end", "Unary.operand",
           "Await.end", "Lambda.body"}
\* Where a token is taken that the routine was called or continued for.
LeadAt == {"If", "For", "While", "Try", "With", "Select", "Class", "Return", "Raise", "Del", "Global", "Break", "Pass",
           "Block", "Func", "Items.star", "Call.equal"}
Pausing(f) == f.at \notin LeadAt \cup {"FString"}

IsNode(n) == n = [k \in DOMAIN n |-> n[k]] /\ {"kind", "level"} \subseteq DOMAIN n /\ n.level \in 1..15
Rule(a) == CASE a \in {"Binary", "Binary.right"} -> "Binary"
             [] a \in {"Logical", "Logical.right"} -> "Logical"
             [] a \in {"Compare", "Compare.link"} -> "Compare"
             [] a \in {"Conditional", "Conditional.else"} -> "Conditional"
             [] a \in {"Call", "Call.equal", "Call.argument", "Call.close"} -> "Call"
             [] OTHER -> a
Has(f, names) == f = [k \in DOMAIN f |-> f[k]] /\ names \subseteq DOMAIN f
Shaped(f) ==
  /\ f.at \in ExprAt  => Has(f, {"at", "min"}) /\ f.min \in 2..14
  /\ f.at \in InfixAt => /\ Has(f, {"at", "op", "operand", "args"})
                         /\ f.op \in DOMAIN Prec /\ InfixRule[f.op] = Rule(f.at) /\ IsNode(f.operand)
  /\ f.at \in CloseAt => Has(f, {"at", "close"}) /\ f.close \in {"]", "}"}
  /\ f.at \in ItemsAt => /\ Has(f, {"at", "min", "items", "then"})
                         /\ f.min \in 2..14 /\ f.then \in {"Reinterpret", "For.in"}

\* How tightly the operators of the operand bind that a frame waits for.
Bound(f) == CASE f.at = "Binary.right" -> (IF f.op = "**" THEN POWER ELSE Prec[f.op] + 1)
              [] f.at = "Logical.right" -> Prec[f.op] + 1
              [] f.at = "Compare.link" -> COMP + 1
              [] f.at = "Conditional.else" -> OR
              [] f.at \in {"Conditional.end", "Lambda.body"} -> COND
              [] f.at = "Unary.operand" -> UNARY + 1
              [] f.at = "Await.end" -> POST
Above(f, g) ==
  /\ Pausing(f)
  /\ f.at = "Fold" => /\ g.at \in OperatorAt
                      /\ g.at \in InfixAt => Prec[g.op] >= f.min
                      /\ g.at = "Conditional.end" => f.min = COND
  /\ f.at \in WaitAt => g.at \in ExprAt /\ g.min = Bound(f)
Tidy(s) == /\ IsSeq(s) /\ Len(s) \in Nat
           /\ \A i \in 1..Len(s) : Shaped(s[i])
           /\ \A i \in 1..(Len(s) - 1) : Above(s[i], s[i + 1])

\* No operator that binds at least as tightly as `min` can follow, when the token is `tok` and
\* the one after it `peek`.
Quiet(min, tok, peek) == ~(tok \in DOMAIN Prec /\ Prec[tok] >= min /\ (tok = "not" => peek \in {"in", "none"}))
\* What the operator has taken to its left.
LeftBinds(f) == f.at \in InfixAt => \/ f.operand.level < 16 - Prec[f.op]
                                    \/ f.operand.level = 16 - Prec[f.op] /\ Prec[f.op] \notin {COND, COMP, POWER}
\* A finished operation was not cut short.
Rests(n, tok, peek) == Quiet(IF n.level \in {3, 11, 14} THEN 16 - n.level ELSE 17 - n.level, tok, peek)
Got(f, n, tok, peek) ==
  /\ f.at = "Fold" => Binds(n, 16 - f.min) /\ Rests(n, tok, peek)
  /\ f.at \in WaitAt => Binds(n, 16 - Bound(f)) /\ Quiet(Bound(f), tok, peek)
AllLeft(s) == \A i \in 1..Len(s) : LeftBinds(s[i])
TableInv == Running => /\ Tidy(stack) /\ IsNode(ret)
                       /\ ~flawed => AllLeft(stack) /\ (Len(stack) >= 1 => Got(Top, ret, cur, ahead))

----------------------------------------------------------------------------
(* What becomes of the stack.                                              *)

LEMMA TidyPop ==
  ASSUME NEW s, Tidy(s), Len(s) >= 1
  PROVE  /\ Tidy(Pop(s)) /\ Shaped(s[Len(s)]) /\ Len(Pop(s)) = Len(s) - 1
         /\ \A i \in 1..(Len(s) - 1) : Pop(s)[i] = s[i]
         /\ Len(s) > 1 => Above(s[Len(s) - 1], s[Len(s)])
<1> DEFINE low == Pop(s)
           m   == Len(s) - 1
<1>1. /\ IsSeq(low) /\ Len(low) = m /\ m \in Nat /\ Len(s) = m + 1
      /\ \A i \in 1..m : low[i] = s[i]
  BY PopFacts DEF Tidy
<1> HIDE DEF low, m
<1>2. \A i \in 1..(m + 1) : Shaped(s[i])
  BY <1>1 DEF Tidy
<1>3. \A i \in 1..m : Above(s[i], s[i + 1])
  BY <1>1 DEF Tidy, m
<1>4. ASSUME NEW i \in 1..m PROVE Shaped(low[i])
  BY <1>1, <1>2
<1>5. ASSUME NEW i \in 1..(m - 1) PROVE Above(low[i], low[i + 1])
  <2>1. i \in 1..m /\ i + 1 \in 1..m
    BY <1>1
  <2> QED BY <1>1, <1>3, <2>1
<1>6. Tidy(low)
  BY <1>1, <1>4, <1>5 DEF Tidy
<1>7. ASSUME Len(s) > 1 PROVE Above(s[m], s[Len(s)])
  <2>1. m \in 1..m
    BY <1>1, <1>7
  <2> QED BY <1>1, <1>3, <2>1
<1>8. Shaped(s[Len(s)])
  <2>1. m + 1 \in 1..(m + 1)
    BY <1>1
  <2> QED BY <1>1, <1>2, <2>1
<1> QED BY <1>1, <1>6, <1>7, <1>8 DEF low, m

LEMMA TidyPush ==
  ASSUME NEW s, Tidy(s), NEW f, Shaped(f), Len(s) >= 1 => Above(s[Len(s)], f)
  PROVE  /\ Tidy(Append(s, f)) /\ Len(Append(s, f)) = Len(s) + 1 /\ Append(s, f)[Len(s) + 1] = f
         /\ \A i \in 1..Len(s) : Append(s, f)[i] = s[i]
<1> DEFINE t == Append(s, f)
           m == Len(s)
<1>1. /\ IsSeq(t) /\ Len(t) = m + 1 /\ m \in Nat
      /\ \A i \in 1..m : t[i] = s[i]
      /\ t[m + 1] = f
  BY PushFacts DEF Tidy
<1>2. /\ \A i \in 1..m : Shaped(s[i])
      /\ \A i \in 1..(m - 1) : Above(s[i], s[i + 1])
      /\ m >= 1 => Above(s[m], f)
  BY DEF Tidy
<1> HIDE DEF t, m
<1>3. ASSUME NEW i \in 1..(m + 1) PROVE Shaped(t[i])
  <2>1. i \in 1..m \/ i = m + 1
    BY <1>1
  <2> QED BY <1>1, <1>2, <2>1
<1>4. ASSUME NEW i \in 1..m PROVE Above(t[i], t[i + 1])
  <2>1. CASE i = m
    BY <1>1, <1>2, <2>1
  <2>2. CASE i # m
    <3>1. i \in 1..(m - 1) /\ i + 1 \in 1..m
      BY <1>1, <2>2
    <3> QED BY <1>1, <1>2, <3>1
  <2> QED BY <2>1, <2>2
<1>5. m + 1 \in Nat /\ (m + 1) - 1 = m
  BY <1>1
<1>6. Tidy(t)
  BY <1>1, <1>3, <1>4, <1>5 DEF Tidy
<1> QED BY <1>1, <1>6 DEF t, m

\* The frame under the one that runs.
Under == stack[Len(stack) - 1]
Stands(f) == Shaped(f) /\ (Len(stack) > 1 => Above(Under, f))
\* What becomes of a stack when its top gives way to other frames.
LEMMA TidyReplaced ==
  ASSUME Tidy(stack), Len(stack) >= 1
  PROVE  /\ Shaped(Top) /\ Stands(Top)
         /\ Tidy(Pop(stack)) /\ (AllLeft(stack) => AllLeft(Pop(stack)) /\ LeftBinds(Top))
         /\ Len(Pop(stack)) = Len(stack) - 1
         /\ Len(stack) > 1 => Pop(stack)[Len(Pop(stack))] = Under
         /\ \A f : Stands(f) =>
              LET t == Append(Pop(stack), f)
              IN  /\ Tidy(t) /\ t[Len(t)] = f /\ Len(t) = Len(stack)
                  /\ AllLeft(stack) /\ LeftBinds(f) => AllLeft(t)
         /\ \A f, g : Stands(f) /\ Shaped(g) /\ Above(f, g) =>
              LET t == Pop(stack) \o <<f, g>>
              IN  /\ Tidy(t) /\ t[Len(t)] = g /\ Len(t) = Len(stack) + 1
                  /\ AllLeft(stack) /\ LeftBinds(f) /\ LeftBinds(g) => AllLeft(t)
<1> DEFINE low == Pop(stack)
           m   == Len(low)
<1>1. /\ Tidy(low) /\ Shaped(Top) /\ m = Len(stack) - 1 /\ m \in Nat /\ Len(stack) = m + 1
      /\ (\A i \in 1..m : low[i] = stack[i]) /\ (m > 0 => Above(Under, Top))
  BY TidyPop DEF Top, Under, Tidy
<1> HIDE DEF low
<1>2. m > 0 => low[m] = Under
  BY <1>1 DEF Under
<1>3. ASSUME AllLeft(stack) PROVE AllLeft(low) /\ LeftBinds(Top)
  <2>1. \A i \in 1..m : LeftBinds(low[i])
    BY <1>1, <1>3 DEF AllLeft
  <2>2. Len(stack) \in 1..Len(stack)
    BY <1>1
  <2> QED BY <1>3, <2>1, <2>2 DEF AllLeft, Top
<1>4. ASSUME NEW f, Stands(f)
      PROVE  LET t == Append(low, f)
             IN  /\ Tidy(t) /\ t[Len(t)] = f /\ Len(t) = m + 1
                 /\ AllLeft(stack) /\ LeftBinds(f) => AllLeft(t)
  <2> DEFINE t == Append(low, f)
  <2>1. Tidy(t) /\ Len(t) = m + 1 /\ t[m + 1] = f /\ \A i \in 1..m : t[i] = low[i]
    <3>1. m >= 1 => Above(low[m], f)
      BY <1>1, <1>2, <1>4 DEF Stands
    <3> QED BY <1>1, <1>4, <3>1, TidyPush DEF Stands
  <2> HIDE DEF t
  <2>2. ASSUME AllLeft(stack), LeftBinds(f) PROVE AllLeft(t)
    <3>1. ASSUME NEW i \in 1..(m + 1) PROVE LeftBinds(t[i])
      <4>1. i \in 1..m \/ i = m + 1
        BY <1>1
      <4> QED BY <1>3, <2>1, <2>2, <4>1 DEF AllLeft
    <3> QED BY <2>1, <3>1 DEF AllLeft
  <2>3. Tidy(t) /\ t[Len(t)] = f /\ Len(t) = m + 1 /\ (AllLeft(stack) /\ LeftBinds(f) => AllLeft(t))
    BY <2>1, <2>2
  <2> QED BY <2>3 DEF t
<1>5. ASSUME NEW f, NEW g, Stands(f), Shaped(g), Above(f, g)
      PROVE  LET t == low \o <<f, g>>
             IN  /\ Tidy(t) /\ t[Len(t)] = g /\ Len(t) = m + 2
                 /\ AllLeft(stack) /\ LeftBinds(f) /\ LeftBinds(g) => AllLeft(t)
  <2> DEFINE u == Append(low, f)
             t == Append(u, g)
  <2>1. /\ Tidy(u) /\ u[Len(u)] = f /\ Len(u) = m + 1
        /\ AllLeft(stack) /\ LeftBinds(f) => AllLeft(u)
    BY <1>4, <1>5
  <2>2. low \o <<f, g>> = t
    BY <1>1, PushTwoIsTwice DEF Tidy
  <2> HIDE DEF u
  <2>3. Tidy(t) /\ Len(t) = Len(u) + 1 /\ t[Len(u) + 1] = g /\ \A i \in 1..Len(u) : t[i] = u[i]
    BY <1>5, <2>1, TidyPush
  <2> HIDE DEF t
  <2>4. ASSUME AllLeft(stack), LeftBinds(f), LeftBinds(g) PROVE AllLeft(t)
    <3>1. ASSUME NEW i \in 1..(m + 2) PROVE LeftBinds(t[i])
      <4>1. i \in 1..(m + 1) \/ i = m + 2
        BY <1>1
      <4> QED BY <1>1, <2>1, <2>3, <2>4, <4>1 DEF AllLeft
    <3> QED BY <1>1, <2>1, <2>3, <3>1 DEF AllLeft
  <2>5. Tidy(t) /\ t[Len(t)] = g /\ Len(t) = m + 2 /\ (AllLeft(stack) /\ LeftBinds(f) /\ LeftBinds(g) => AllLeft(t))
    BY <1>1, <2>1, <2>3, <2>4
  <2> QED BY <2>2, <2>5
<1> HIDE DEF m
<1>6. Len(low) = m
  BY DEF m
<1>7. m + 2 = Len(stack) + 1
  BY <1>1
<1>8. Len(stack) > 1 => low[Len(low)] = Under
  BY <1>1, <1>2, <1>6
<1>9. Stands(Top)
  BY <1>1 DEF Stands
<1> QED BY <1>1, <1>3, <1>4, <1>5, <1>6, <1>7, <1>8, <1>9 DEF low

----------------------------------------------------------------------------
(* Statements: frames that no operator has a claim on.                     *)

\* Statements: frames on which the operators of expressions have no claim.
Free(f)   == Shaped(f) /\ f.at \notin OperatorAt \cup {"Fold"}
FreeAt(a) == a \notin OperatorAt \cup ExprAt \cup ItemsAt
Loosely == /\ IsNode(ret')
           /\ \/ stack' = Pop(stack)
              \/ \E f : Free(f) /\ stack' = Append(Pop(stack), f)
              \/ \E f, g : Free(f) /\ Free(g) /\ Pausing(f) /\ stack' = Pop(stack) \o <<f, g>>
Loose == Top.at \notin OperatorAt \cup ExprAt /\ Loosely

LEMMA TheNodes ==
  /\ IsNode(Nothing) /\ IsNode(Invalid) /\ IsNode(Primary) /\ IsNode(Star)
  /\ \A k : \A l \in 1..15 : IsNode(Node(k, l)) /\ Node(k, l).kind = k /\ Node(k, l).level = l
<1>1. ASSUME NEW k, NEW l \in 1..15 PROVE IsNode(Node(k, l)) /\ Node(k, l).kind = k /\ Node(k, l).level = l
  BY DEF IsNode, Node
<1>2. 1 \in 1..15
  OBVIOUS
<1> QED BY ONLY <1>1, <1>2 DEF Nothing, Invalid, Primary, Star

LEMMA FreeFrames ==
  /\ \A f : FreeAt(f.at) => Free(f)
  /\ \A m \in 2..14 : Free(Expr(m))
  /\ \A m \in 2..14 : \A a \in {"Reinterpret", "For.in"} : Free(Items(m, a))
<1>1. ASSUME NEW f, FreeAt(f.at) PROVE Free(f)
  BY <1>1 DEF FreeAt, Free, Shaped, OperatorAt, ExprAt
<1>2. ASSUME NEW m \in 2..14 PROVE Free(Expr(m))
  BY DEF Free, Shaped, Has, Expr, OperatorAt, ExprAt, InfixAt, CloseAt, ItemsAt
<1>3. ASSUME NEW m \in 2..14, NEW a \in {"Reinterpret", "For.in"} PROVE Free(Items(m, a))
  BY DEF Free, Shaped, Has, Items, OperatorAt, ExprAt, InfixAt, CloseAt, ItemsAt
<1> QED BY <1>1, <1>2, <1>3

LEMMA CallsLoose ==
  /\ \A f : Free(f) /\ Become(f) => Loosely
  /\ \A f, n : Free(f) /\ IsNode(n) /\ Yield(f, n) => Loosely
  /\ \A f, g : Free(f) /\ Pausing(f) /\ Free(g) /\ Call(f, g) => Loosely
  /\ \A n : IsNode(n) /\ Return(n) => Loosely
  /\ \A f, g : Free(f) /\ Free(g) /\ Comma(f, g) => Loosely
  /\ Done => Loosely
BY TheNodes DEF Become, Yield, Call, Return, Comma, Done, Loosely

\* The frames of statements carry nothing but names and flags.
StatementAt == {"Reinterpret", "Values", "Names", "Names.comma", "Import", "Import.path", "Import.as", "Import.name",
  "From.path", "From.import", "From.names", "From.group", "From.comma", "From.close", "Return", "Return.value",
  "Return.comma", "Raise", "Raise.from", "Del", "Del.target", "Global", "Break", "Pass", "Block", "Block.body",
  "RequiredBlock", "If", "If.then", "If.else", "Else", "Try", "Try.clause", "Except", "Except.as", "Except.name",
  "Except.body", "With", "With.as", "With.name", "Case", "Case.targets", "Case.shape", "Case.comma", "Case.name",
  "Case.assign", "Case.colon", "Case.body", "Select", "Select.open", "Select.body", "Func", "Func.name", "Func.open",
  "Params", "Param", "Param.default", "Param.order", "Func.close", "Func.body", "Class", "Class.name", "Class.super",
  "Class.open", "Class.body", "Class.method", "Class.end", "For", "For.first", "For.in", "For.init", "For.condition",
  "For.post", "While", "Loop", "Loop.body", "Statement", "Statement.end", "Synchronize", "Start", "SourceFile"}
LEMMA StatementsFree == \A a \in StatementAt : FreeAt(a)
BY DEF StatementAt, FreeAt, OperatorAt, ExprAt, InfixAt, CloseAt, ItemsAt

\* A frame made of another one, which had a name.
LEMMA Renamed ==
  ASSUME Carries(Top)
  PROVE  /\ \A a : Go(a).at = a
         /\ \A a, x : /\ [Top EXCEPT !.at = a, !.kind = x].at = a /\ [Top EXCEPT !.at = a, !.names = x].at = a
                      /\ [Top EXCEPT !.at = a, !.args = x].at = a /\ [Top EXCEPT !.at = a, !.op = x].at = a
                      /\ [Top EXCEPT !.at = a, !.seen = x].at = a
         /\ \A x : [Top EXCEPT !.values = x].at = Top.at
BY DEF Carries, Go

WaitingAt == StatementAt \ LeadAt
LEMMA StatementFrame ==
  /\ \A a \in StatementAt : Free(F(a)) /\ (a \notin LeadAt => Pausing(F(a)))
  /\ Free(EXPR) /\ Free(Expr(COND)) /\ Free(Expr(OR)) /\ Free(Block) /\ Free(RequiredBlock) /\ Free(Names) /\ Free(Simple)
  /\ Free(Items(COMP + 1, "For.in"))
  /\ \A b : Free(Ending(b)) /\ Pausing(Ending(b))
  /\ \A a, b : Free(Func(a, b)) /\ Free(Params(a, b)) /\ Free(Method(a, b))
  /\ \A o, i, n : Free([at |-> "Values", op |-> o, items |-> i, values |-> n])
                  /\ Pausing([at |-> "Values", op |-> o, items |-> i, values |-> n])
  /\ \A h : /\ Free([at |-> "Try.clause", handled |-> h]) /\ Pausing([at |-> "Try.clause", handled |-> h])
            /\ Free([at |-> "Case.shape", targets |-> h]) /\ Pausing([at |-> "Case.shape", targets |-> h])
            /\ Free([at |-> "Reinterpret", items |-> h]) /\ Free([at |-> "For.in", items |-> h])
            /\ Free([at |-> "For.post", saved |-> h]) /\ Pausing([at |-> "For.post", saved |-> h])
  /\ \A c, a, m : LET f == [at |-> "Func.body", saved |-> c, async |-> a, method |-> m] IN Free(f) /\ Pausing(f)
<1>1. ASSUME NEW a \in StatementAt PROVE Free(F(a)) /\ (a \notin LeadAt => Pausing(F(a)))
  <2>1. F(a).at = a /\ a # "FString"
    BY DEF F, StatementAt
  <2> HIDE DEF F
  <2> QED BY <2>1, StatementsFree, FreeFrames DEF Pausing
<1>2. Free(EXPR) /\ Free(Expr(COND)) /\ Free(Expr(OR))
  BY FreeFrames DEF EXPR, COND, OR
<1>3. Free(Simple) /\ Free(Items(COMP + 1, "For.in"))
  BY FreeFrames DEF Simple, COND, COMP
<1>4. Free(Block) /\ Free(RequiredBlock) /\ Free(Names)
  BY <1>1 DEF Block, RequiredBlock, Names, StatementAt
<1>5. ASSUME NEW f, f.at \in StatementAt PROVE Free(f) /\ (f.at \notin LeadAt => Pausing(f))
  <2>1. f.at # "FString"
    BY <1>5 DEF StatementAt
  <2> QED BY <1>5, <2>1, StatementsFree, FreeFrames DEF Pausing
<1>6. {"Statement.end", "Values", "Try.clause", "Case.shape", "For.post", "Func.body"} \subseteq StatementAt \ LeadAt
  BY DEF StatementAt, LeadAt
<1>7. {"Func", "Params", "Class.method", "Reinterpret", "For.in"} \subseteq StatementAt
  BY DEF StatementAt
<1> QED BY <1>1, <1>2, <1>3, <1>4, <1>5, <1>6, <1>7 DEF Ending, Func, Params, Method

LEMMA StatementLoose == Shaped(Top) /\ Carries(Top) /\ InnerStatement => Loose
<1> SUFFICES ASSUME Shaped(Top), Carries(Top) PROVE InnerStatement => Loose
  OBVIOUS
<1>0. \A a \in StatementAt \cup ItemsAt : a \notin OperatorAt \cup ExprAt
  BY DEF StatementAt, OperatorAt, ExprAt, InfixAt, CloseAt, ItemsAt
<1>1. /\ Top.at \in StatementAt => Free(Top)
      /\ Top.at \in StatementAt \ LeadAt => Pausing(Top)
  <2>1. Top.at \in StatementAt => FreeAt(Top.at) /\ Top.at # "FString"
    BY StatementsFree DEF StatementAt
  <2> QED BY <2>1, FreeFrames DEF Pausing
<1>2. ParseNames => Loose
  <2>1. ParseNames => Top.at \in StatementAt
    BY DEF ParseNames, At, StatementAt
  <2>2. Free(F("Names.comma"))
    BY StatementFrame, <1>1 DEF At, StatementAt, LeadAt
  <2>3. ParseNames => Loosely
    BY ONLY <2>2, StatementFrame, CallsLoose, TheNodes DEF ParseNames
  <2> QED BY <2>1, <2>3, <1>0 DEF Loose
<1>3. ParseImport => Loose
  <2>1. ParseImport => Top.at \in StatementAt
    BY DEF ParseImport, At, StatementAt
  <2>2. /\ Free(F("From.close")) /\ Free(F("From.comma")) /\ Free(F("From.group")) /\ Free(F("From.import"))
        /\ Free(F("From.names")) /\ Free(F("From.path")) /\ Free(F("Import.as")) /\ Free(F("Import.name"))
        /\ Free(F("Import.path"))
    BY StatementFrame, <1>1 DEF At, StatementAt, LeadAt
  <2>3. ParseImport => Loosely
    BY ONLY <2>2, StatementFrame, CallsLoose, TheNodes DEF ParseImport
  <2> QED BY <2>1, <2>3, <1>0 DEF Loose
<1>4. ParseReturn => Loose
  <2>1. ParseReturn => Top.at \in StatementAt
    BY DEF ParseReturn, At, StatementAt
  <2>2. /\ Free(F("Return.comma")) /\ Free(F("Return.value")) /\ Pausing(F("Return.comma")) /\ Free(EXPR)
    BY StatementFrame, <1>1 DEF At, StatementAt, LeadAt
  <2>3. ParseReturn => Loosely
    BY ONLY <2>2, StatementFrame, CallsLoose, TheNodes DEF ParseReturn
  <2> QED BY <2>1, <2>3, <1>0 DEF Loose
<1>5. ParseRaise => Loose
  <2>1. ParseRaise => Top.at \in StatementAt
    BY DEF ParseRaise, At, StatementAt
  <2>2. /\ Free(F("Raise.from")) /\ Pausing(F("Raise.from")) /\ Free(EXPR)
    BY StatementFrame, <1>1 DEF At, StatementAt, LeadAt
  <2>3. ParseRaise => Loosely
    BY ONLY <2>2, StatementFrame, CallsLoose, TheNodes DEF ParseRaise
  <2> QED BY <2>1, <2>3, <1>0 DEF Loose
<1>6. ParseGlobal => Loose
  <2>1. ParseGlobal => Top.at \in StatementAt
    BY DEF ParseGlobal, At, StatementAt
  <2>2. ParseGlobal => Loosely
    BY ONLY StatementFrame, CallsLoose, TheNodes DEF ParseGlobal
  <2> QED BY <2>1, <2>2, <1>0 DEF Loose
<1>7. ParseBreakContinue => Loose
  <2>1. ParseBreakContinue => Top.at \in StatementAt
    BY DEF ParseBreakContinue, At, StatementAt
  <2>2. ParseBreakContinue => Loosely
    BY ONLY StatementFrame, CallsLoose, TheNodes DEF ParseBreakContinue
  <2> QED BY <2>1, <2>2, <1>0 DEF Loose
<1>8. ParsePass => Loose
  <2>1. ParsePass => Top.at \in StatementAt
    BY DEF ParsePass, At, StatementAt
  <2>2. ParsePass => Loosely
    BY ONLY StatementFrame, CallsLoose, TheNodes DEF ParsePass
  <2> QED BY <2>1, <2>2, <1>0 DEF Loose
<1>9. ParseBlock => Loose
  <2>1. ParseBlock => Top.at \in StatementAt
    BY DEF ParseBlock, At, StatementAt
  <2>2. /\ Free(F("Block.body")) /\ Free(F("Statement")) /\ (At("Block.body") => Free(Top) /\ Pausing(Top))
    BY StatementFrame, <1>1 DEF At, StatementAt, LeadAt
  <2>3. ParseBlock => Loosely
    BY ONLY <2>2, StatementFrame, CallsLoose, TheNodes DEF ParseBlock
  <2> QED BY <2>1, <2>3, <1>0 DEF Loose
<1>10. ParseRequiredBlock => Loose
  <2>1. ParseRequiredBlock => Top.at \in StatementAt
    BY DEF ParseRequiredBlock, At, StatementAt
  <2>2. ParseRequiredBlock => Loosely
    BY ONLY StatementFrame, CallsLoose, TheNodes DEF ParseRequiredBlock
  <2> QED BY <2>1, <2>2, <1>0 DEF Loose
<1>11. ParseIf => Loose
  <2>1. ParseIf => Top.at \in StatementAt
    BY DEF ParseIf, At, StatementAt
  <2>2. /\ Free(F("Else")) /\ Free(F("If")) /\ Free(F("If.else")) /\ Free(F("If.then")) /\ Pausing(F("If.else"))
        /\ Pausing(F("If.then")) /\ Free(EXPR)
    BY StatementFrame, <1>1 DEF At, StatementAt, LeadAt
  <2>3. ParseIf => Loosely
    BY ONLY <2>2, StatementFrame, CallsLoose, TheNodes DEF ParseIf
  <2> QED BY <2>1, <2>3, <1>0 DEF Loose
<1>12. ParseTry => Loose
  <2>1. ParseTry => Top.at \in StatementAt
    BY DEF ParseTry, At, StatementAt
  <2>2. /\ Free(F("Except")) /\ Free(F("Except.as")) /\ Free(F("Except.body")) /\ Free(F("Except.name"))
        /\ Pausing(F("Except.as")) /\ Free(EXPR)
    BY StatementFrame, <1>1 DEF At, StatementAt, LeadAt
  <2>3. ParseTry => Loosely
    BY ONLY <2>2, StatementFrame, CallsLoose, TheNodes DEF ParseTry
  <2> QED BY <2>1, <2>3, <1>0 DEF Loose
<1>13. ParseWith => Loose
  <2>1. ParseWith => Top.at \in StatementAt
    BY DEF ParseWith, At, StatementAt
  <2>2. /\ Free(F("With.as")) /\ Free(F("With.name")) /\ Pausing(F("With.as")) /\ Free(EXPR)
    BY StatementFrame, <1>1 DEF At, StatementAt, LeadAt
  <2>3. ParseWith => Loosely
    BY ONLY <2>2, StatementFrame, CallsLoose, TheNodes DEF ParseWith
  <2> QED BY <2>1, <2>3, <1>0 DEF Loose
<1>14. ParseSelectCaseBody => Loose
  <2>1. ParseSelectCaseBody => Top.at \in StatementAt
    BY DEF ParseSelectCaseBody, At, StatementAt
  <2>2. /\ Free(F("Statement")) /\ (At("Case.body") => Free(Top) /\ Pausing(Top))
    BY StatementFrame, <1>1 DEF At, StatementAt, LeadAt
  <2>3. ParseSelectCaseBody => Loosely
    BY ONLY <2>2, StatementFrame, CallsLoose, TheNodes DEF ParseSelectCaseBody
  <2> QED BY <2>1, <2>3, <1>0 DEF Loose
<1>15. ParseSelectCase => Loose
  <2>1. ParseSelectCase => Top.at \in StatementAt
    BY DEF ParseSelectCase, At, StatementAt
  <2>2. /\ Free(F("Case.assign")) /\ Free(F("Case.body")) /\ Free(F("Case.colon")) /\ Free(F("Case.comma"))
        /\ Free(F("Case.name")) /\ Free(F("Case.targets")) /\ Free(EXPR)
    BY StatementFrame, <1>1 DEF At, StatementAt, LeadAt
  <2>3. ParseSelectCase => Loosely
    BY ONLY <2>2, StatementFrame, CallsLoose, TheNodes DEF ParseSelectCase
  <2> QED BY <2>1, <2>3, <1>0 DEF Loose
<1>16. ParseSelect => Loose
  <2>1. ParseSelect => Top.at \in StatementAt
    BY DEF ParseSelect, At, StatementAt
  <2>2. /\ Free(F("Case")) /\ Free(F("Select.body")) /\ Free(F("Select.open"))
        /\ (At("Select.body") => Free(Top) /\ Pausing(Top))
    BY StatementFrame, <1>1 DEF At, StatementAt, LeadAt
  <2>3. ParseSelect => Loosely
    BY ONLY <2>2, StatementFrame, CallsLoose, TheNodes DEF ParseSelect
  <2> QED BY <2>1, <2>3, <1>0 DEF Loose
<1>17. ParseClassHead => Loose
  <2>1. ParseClassHead => Top.at \in StatementAt
    BY DEF ParseClassHead, At, StatementAt
  <2>2. /\ Free(F("Class.name")) /\ Free(F("Class.open")) /\ Free(F("Class.super")) /\ Pausing(F("Class.open"))
        /\ Free(EXPR)
    BY StatementFrame, <1>1 DEF At, StatementAt, LeadAt
  <2>3. ParseClassHead => Loosely
    BY ONLY <2>2, StatementFrame, CallsLoose, TheNodes DEF ParseClassHead
  <2> QED BY <2>1, <2>3, <1>0 DEF Loose
<1>18. ParseFor => Loose
  <2>1. ParseFor => Top.at \in StatementAt
    BY DEF ParseFor, At, StatementAt
  <2>2. /\ Free(F("For.condition")) /\ Free(F("For.first")) /\ Free(F("For.init")) /\ Free(F("Loop"))
        /\ Pausing(F("For.condition")) /\ Pausing(F("For.init")) /\ Pausing(F("Loop")) /\ Free(EXPR)
    BY StatementFrame, <1>1 DEF At, StatementAt, LeadAt
  <2>3. ParseFor => Loosely
    <3> DEFINE g == [at |-> "Reinterpret", items |-> Top.items]
    <3>1. Free(g) /\ Free(Items(COMP + 1, "For.in"))
      BY StatementFrame
    <3> HIDE DEF g
    <3>2. Call(F("For.init"), g) => Loosely
      BY ONLY <2>2, <3>1, CallsLoose
    <3> QED BY ONLY <2>2, <3>1, <3>2, CallsLoose DEF ParseFor, g
  <2> QED BY <2>1, <2>3, <1>0 DEF Loose
<1>19. ParseWhile => Loose
  <2>1. ParseWhile => Top.at \in StatementAt
    BY DEF ParseWhile, At, StatementAt
  <2>2. /\ Free(F("Loop")) /\ Pausing(F("Loop")) /\ Free(EXPR)
    BY StatementFrame, <1>1 DEF At, StatementAt, LeadAt
  <2>3. ParseWhile => Loosely
    BY ONLY <2>2, StatementFrame, CallsLoose, TheNodes DEF ParseWhile
  <2> QED BY <2>1, <2>3, <1>0 DEF Loose
<1>20. ParseSimpleItems => Loose
  <2>1. ParseSimpleItems => Top.at \in ItemsAt
    BY DEF ParseSimpleItems, At, ItemsAt
  <2>2. ASSUME Top.at \in ItemsAt
        PROVE  /\ Free(Go("Items.star")) /\ Free(Go("Items.item")) /\ Pausing(Go("Items.item"))
               /\ Free(Expr(Top.min))
               /\ \A i : Free([Top EXCEPT !.at = "Items", !.items = i]) /\ Free([at |-> Top.then, items |-> i])
    <3>1. /\ Has(Top, {"at", "min", "items", "then"})
          /\ Top.min \in 2..14 /\ Top.then \in {"Reinterpret", "For.in"}
      BY <2>2 DEF Shaped
    <3>2. ASSUME NEW f, f.at \in ItemsAt, Has(f, {"at", "min", "items", "then"}), f.min = Top.min, f.then = Top.then
          PROVE  Free(f) /\ (f.at # "Items.star" => Pausing(f))
      BY <3>1, <3>2 DEF Free, Shaped, Pausing, LeadAt, OperatorAt, ExprAt, InfixAt, CloseAt, ItemsAt
    <3>3. ASSUME NEW a \in ItemsAt, NEW i
          PROVE  /\ Free(Go(a)) /\ (a # "Items.star" => Pausing(Go(a)))
                 /\ Free([Top EXCEPT !.at = a, !.items = i])
      <4> DEFINE g == [Top EXCEPT !.at = a]
                 h == [Top EXCEPT !.at = a, !.items = i]
      <4>1. Has(g, {"at", "min", "items", "then"}) /\ g.at = a /\ g.min = Top.min /\ g.then = Top.then
        BY <3>1 DEF Has
      <4>2. Has(h, {"at", "min", "items", "then"}) /\ h.at = a /\ h.min = Top.min /\ h.then = Top.then
        BY <3>1 DEF Has
      <4> HIDE DEF g, h
      <4>3. Free(g) /\ (a # "Items.star" => Pausing(g)) /\ Free(h)
        BY <3>2, <4>1, <4>2
      <4> QED BY <4>3 DEF g, h, Go
    <3>4. Free(Expr(Top.min))
      BY <3>1, FreeFrames
    <3>5. ASSUME NEW i PROVE Free([at |-> Top.then, items |-> i])
      BY <3>1, StatementFrame
    <3> QED BY <3>3, <3>4, <3>5 DEF ItemsAt
  <2>3. ASSUME Top.at \in ItemsAt PROVE ParseSimpleItems => Loosely
    BY ONLY <2>2, <2>3, CallsLoose, TheNodes DEF ParseSimpleItems
  <2> QED BY <2>1, <2>3, <1>0 DEF Loose
<1>21. Reinterpret => Loose
  <2>1. Reinterpret => Top.at \in {"Reinterpret", "Values"}
    BY DEF Reinterpret, At
  <2>2. ASSUME At("Values") PROVE Free([Top EXCEPT !.values = 2]) /\ Pausing([Top EXCEPT !.values = 2])
    <3>1. [Top EXCEPT !.values = 2].at = "Values"
      BY <2>2, Renamed DEF At
    <3>2. FreeAt("Values") /\ "Values" \notin LeadAt \cup {"FString"}
      BY StatementsFree DEF StatementAt, LeadAt
    <3> QED BY <3>1, <3>2, FreeFrames DEF Pausing
  <2>3. Reinterpret => Loosely
    BY ONLY <2>2, StatementFrame, CallsLoose DEF Reinterpret
  <2> QED BY <2>1, <2>3, <1>0 DEF Loose, StatementAt
<1>22. ParseDel => Loose
  <2>1. ParseDel => Top.at \in StatementAt
    BY DEF ParseDel, At, StatementAt
  <2>2. Free(F("Del.target")) /\ Pausing(F("Del.target")) /\ Free(EXPR) /\ (At("Del.target") => Free(Top) /\ Pausing(Top))
    BY StatementFrame, <1>1 DEF At, StatementAt, LeadAt
  <2>3. ParseDel => Loosely
    <3>1. CASE cur = ","
      BY ONLY <2>2, <3>1, CallsLoose DEF ParseDel
    <3>2. CASE cur # ","
      BY ONLY <2>2, <3>2, CallsLoose DEF ParseDel
    <3> QED BY <3>1, <3>2
  <2> QED BY <2>1, <2>3, <1>0 DEF Loose
<1>23. ASSUME NEW a \in StatementAt, NEW x
       PROVE  /\ Free(Go(a)) /\ (a \notin LeadAt => Pausing(Go(a)))
              /\ Free([Top EXCEPT !.at = a, !.kind = x]) /\ Free([Top EXCEPT !.at = a, !.names = x])
              /\ Free([Top EXCEPT !.at = a, !.seen = x])
  <2>1. FreeAt(a) /\ a # "FString"
    BY StatementsFree DEF StatementAt
  <2>2. ASSUME NEW f, f.at = a PROVE Free(f) /\ (a \notin LeadAt => Pausing(f))
    BY <2>1, <2>2, FreeFrames DEF Pausing
  <2>3. Go(a).at = a
    BY Renamed
  <2>4. /\ [Top EXCEPT !.at = a, !.kind = x].at = a /\ [Top EXCEPT !.at = a, !.names = x].at = a
        /\ [Top EXCEPT !.at = a, !.seen = x].at = a
    BY Renamed
  <2> QED BY ONLY <2>2, <2>3, <2>4
<1>24. ParseParams => Loose
  <2>1. ParseParams => Top.at \in StatementAt
    BY DEF ParseParams, At, StatementAt
  <2>2. {"Params", "Param", "Param.default", "Param.order", "Func.close"} \subseteq StatementAt \ LeadAt
    BY DEF StatementAt, LeadAt
  <2>3. ASSUME NEW a \in StatementAt \ LeadAt, NEW x
        PROVE  /\ Become(Go(a)) => Loosely
               /\ Call(Go(a), EXPR) => Loosely
               /\ Become([Top EXCEPT !.at = a, !.kind = x]) => Loosely
               /\ Become([Top EXCEPT !.at = a, !.names = x]) => Loosely
               /\ Become([Top EXCEPT !.at = a, !.seen = x]) => Loosely
    BY <1>23, StatementFrame, CallsLoose
  <2>4. ParseParams => Loosely
    BY ONLY <2>2, <2>3 DEF ParseParams
  <2> QED BY <2>1, <2>4, <1>0 DEF Loose
<1>25. ParseFuncHead => Loose
  <2>1. ParseFuncHead => Top.at \in StatementAt
    BY DEF ParseFuncHead, At, StatementAt
  <2>2. Free(Go("Func.name")) /\ Free(Go("Func.open")) /\ Free(Params(Top.async, Top.method))
    <3>1. {"Func.name", "Func.open"} \subseteq StatementAt
      BY DEF StatementAt
    <3>2. Free(Go("Func.name")) /\ Free(Go("Func.open"))
      BY ONLY <1>23, <3>1
    <3> QED BY ONLY <3>2, StatementFrame
  <2>3. ParseFuncHead => Loosely
    BY ONLY <2>2, CallsLoose DEF ParseFuncHead
  <2> QED BY <2>1, <2>3, <1>0 DEF Loose
<1>26. ParseClassMember => Loose
  <2>1. ParseClassMember => Top.at \in StatementAt
    BY DEF ParseClassMember, At, StatementAt
  <2>2. Free(F("Class.body")) /\ Free(F("Class.end")) /\ Pausing(F("Class.end"))
    BY StatementFrame DEF StatementAt, LeadAt
  <2>3. ParseClassMember => Loosely
    BY ONLY <2>2, StatementFrame, CallsLoose DEF ParseClassMember
  <2> QED BY <2>1, <2>3, <1>0 DEF Loose
<1> QED BY ONLY <1>2, <1>3, <1>4, <1>5, <1>6, <1>7, <1>8, <1>9, <1>10, <1>11, <1>12, <1>13, <1>14, <1>15, <1>16, <1>17, <1>18, <1>19,
           <1>20, <1>21, <1>22, <1>24, <1>25, <1>26 DEF InnerStatement

LEMMA OuterLoose ==
  Shaped(Top) /\ Carries(Top)
    => (ParseStatement \/ ParseStatementEnd \/ Synchronize \/ Advancing \/ ParseNext => Loose)
<1> SUFFICES ASSUME Shaped(Top), Carries(Top)
             PROVE  ParseStatement \/ ParseStatementEnd \/ Synchronize \/ Advancing \/ ParseNext => Loose
  OBVIOUS
<1>0. \A a \in StatementAt : a \notin OperatorAt \cup ExprAt
  BY DEF StatementAt, OperatorAt, ExprAt, InfixAt, CloseAt
<1>1. Top.at \in StatementAt \ LeadAt => Free(Top) /\ Pausing(Top)
  <2>1. Top.at \in StatementAt => FreeAt(Top.at) /\ Top.at # "FString"
    BY StatementsFree DEF StatementAt
  <2> QED BY <2>1, FreeFrames DEF Pausing
<1>2. Free(F("Synchronize")) /\ Free(F("Statement")) /\ Free(F("SourceFile"))
  BY StatementFrame DEF StatementAt
<1>3. ParseStatement => Loose
  <2>1. ParseStatement => Top.at \in StatementAt
    BY DEF ParseStatement, At, StatementAt
  <2>2. cur \in DOMAIN Keyword => Free(F(Keyword[cur]))
    <3>1. cur \in DOMAIN Keyword => Keyword[cur] \in StatementAt
      BY DEF Keyword, StatementAt
    <3> QED BY <3>1, StatementFrame
  <2>3. ParseStatement => Loosely
    <3>1. CASE panic
      BY ONLY <1>2, <2>2, <3>1, StatementFrame, CallsLoose, ZenonT(40) DEF ParseStatement
    <3>2. CASE ~panic
      BY ONLY <1>2, <2>2, <3>2, StatementFrame, CallsLoose, ZenonT(40) DEF ParseStatement
    <3> QED BY <3>1, <3>2
  <2> QED BY <2>1, <2>3, <1>0 DEF Loose
<1>4. ParseStatementEnd => Loose
  <2>1. ParseStatementEnd => Top.at \in StatementAt
    BY DEF ParseStatementEnd, At, StatementAt
  <2>2. (IF cur = ";" \/ Top.was THEN Done ELSE Become(F("Synchronize"))) => Loosely
    BY ONLY <1>2, CallsLoose
  <2>3. ParseStatementEnd => Loosely
    BY ONLY <1>2, <2>2, CallsLoose DEF ParseStatementEnd
  <2> QED BY <2>1, <2>3, <1>0 DEF Loose
<1>5. Synchronize => Loose
  <2>1. Synchronize => Top.at \in StatementAt /\ Top.at \notin LeadAt
    BY DEF Synchronize, At, StatementAt, LeadAt
  <2>2. Synchronize => Done \/ Become(Top)
    BY DEF Synchronize
  <2> QED BY <2>1, <2>2, <1>0, <1>1, CallsLoose DEF Loose
<1>6. Advancing => Loose
  <2>1. Advancing => Top.at \in StatementAt
    BY DEF Advancing, At, StatementAt
  <2>2. Advancing => Loosely
    BY <1>2, CallsLoose DEF Advancing
  <2> QED BY <2>1, <2>2, <1>0 DEF Loose
<1>7. ParseNext => Loose
  <2>1. ParseNext => Top.at \in StatementAt /\ Top.at \notin LeadAt
    BY DEF ParseNext, At, StatementAt, LeadAt
  <2>2. ParseNext => Loosely
    BY <1>1, <1>2, <2>1, CallsLoose DEF ParseNext
  <2> QED BY <2>1, <2>2, <1>0 DEF Loose
<1> QED BY <1>3, <1>4, <1>5, <1>6, <1>7

LEMMA BodiesLoose ==
  Shaped(Top) /\ Carries(Top) => (ParseFuncBody \/ ParseClassEnds \/ ParseLoop => Loose)
<1>0. \A a \in StatementAt : a \notin OperatorAt \cup ExprAt
  BY DEF StatementAt, OperatorAt, ExprAt, InfixAt, CloseAt
<1>1. ParseFuncBody => Loose
  <2>1. ParseFuncBody => Top.at \in StatementAt
    BY DEF ParseFuncBody, At, StatementAt
  <2> DEFINE f == [at |-> "Func.body", saved |-> context, async |-> Top.async, method |-> Top.method]
  <2>2. Free(f) /\ Pausing(f) /\ Free(RequiredBlock)
    BY StatementFrame
  <2> HIDE DEF f
  <2>3. Call(f, RequiredBlock) => Loosely
    BY ONLY <2>2, CallsLoose
  <2>4. ParseFuncBody => Loosely
    BY ONLY <2>3, CallsLoose DEF ParseFuncBody, f
  <2> QED BY <2>1, <2>4, <1>0 DEF Loose
<1>2. ParseClassEnds => Loose
  <2>1. ParseClassEnds => Top.at \in StatementAt
    BY DEF ParseClassEnds, At, StatementAt
  <2>2. Free(F("Class.body"))
    BY StatementFrame DEF StatementAt
  <2>3. ParseClassEnds => Loosely
    BY ONLY <2>2, CallsLoose DEF ParseClassEnds
  <2> QED BY <2>1, <2>3, <1>0 DEF Loose
<1>3. ParseLoop => Loose
  <2>1. ParseLoop => Top.at \in StatementAt
    BY DEF ParseLoop, At, StatementAt
  <2> DEFINE f == [at |-> "For.post", saved |-> context.allowIncDec]
  <2>2. Free(F("Loop.body")) /\ Pausing(F("Loop.body")) /\ Free(F("Loop")) /\ Free(f) /\ Pausing(f)
    BY StatementFrame, ZenonT(40) DEF StatementAt, LeadAt
  <2> HIDE DEF f
  <2>3. Call(f, Simple) => Loosely
    BY ONLY <2>2, StatementFrame, CallsLoose
  <2>4. ParseLoop => Loosely
    BY ONLY <2>2, <2>3, StatementFrame, CallsLoose DEF ParseLoop, f
  <2> QED BY <2>1, <2>4, <1>0 DEF Loose
<1> QED BY <1>1, <1>2, <1>3

----------------------------------------------------------------------------
(* Operators: the frames that keep what they were called with.             *)

\* The table of the parser is the one of the document, the other way round.
LEMMA Tables ==
  ASSUME NEW t \in DOMAIN Prec
  PROVE  /\ Prec[t] \in 2..14 /\ Level[t] = 16 - Prec[t]
         /\ InfixRule[t] \in {"Binary", "Logical", "Compare", "Conditional", "Call", "Index", "Attr"}
         /\ InfixRule[t] = "Binary" => Prec[t] \in (6..11) \cup {13} /\ (Prec[t] = 13 <=> t = "**")
         /\ InfixRule[t] = "Logical" => Prec[t] \in {3, 4}
         /\ InfixRule[t] = "Compare" <=> Prec[t] = 5
         /\ InfixRule[t] = "Conditional" => Prec[t] = 2
         /\ InfixRule[t] \in {"Call", "Index", "Attr"} => Prec[t] = 14
<1> DEFINE T == {"(", "[", ".", "not", "in", "is", "<", "==", "|", "^", "&", "<<", "+", "-", "*", "%", "**", "and",
                 "or", "if"}
<1>1. t \in T
  BY DEF Prec
<1>2. /\ t \in {"(", "[", "."} => Prec[t] = 14 /\ Level[t] = 2
      /\ t = "**" => Prec[t] = 13 /\ Level[t] = 3
      /\ t \in {"*", "%"} => Prec[t] = 11 /\ Level[t] = 5
      /\ t \in {"+", "-"} => Prec[t] = 10 /\ Level[t] = 6
      /\ t = "<<" => Prec[t] = 9 /\ Level[t] = 7
      /\ t = "&" => Prec[t] = 8 /\ Level[t] = 8
      /\ t = "^" => Prec[t] = 7 /\ Level[t] = 9
      /\ t = "|" => Prec[t] = 6 /\ Level[t] = 10
      /\ t \in {"not", "in", "is", "<", "=="} => Prec[t] = 5 /\ Level[t] = 11
      /\ t = "and" => Prec[t] = 4 /\ Level[t] = 12
      /\ t = "or" => Prec[t] = 3 /\ Level[t] = 13
      /\ t = "if" => Prec[t] = 2 /\ Level[t] = 14
  BY <1>1 DEF Prec, Level, POST, POWER, AND, OR, COND, COMP
<1>3. InfixRule[t] = (CASE t = "(" -> "Call" [] t = "[" -> "Index" [] t = "." -> "Attr" [] t = "if" -> "Conditional"
                        [] Prec[t] = COMP -> "Compare" [] t \in {"and", "or"} -> "Logical" [] OTHER -> "Binary")
  BY DEF InfixRule
<1> QED BY <1>1, <1>2, <1>3 DEF COMP

\* A frame of the same operation.
Keeps(f) ==
  /\ Shaped(f) /\ f.at \in OperatorAt
  /\ f.at \in InfixAt => Top.at \in InfixAt /\ Prec[f.op] = Prec[Top.op] /\ f.operand = Top.operand
  /\ f.at = "Conditional.end" => Top.at \in InfixAt /\ Prec[Top.op] = COND
\* What an operator whose right operand was read returns.
Claimed == /\ Len(stack) > 1 /\ Stands(Top) /\ LeftBinds(Top) /\ Got(Top, ret, cur, ahead)
           /\ Under.at = "Fold" /\ Shaped(Under)
Answers == Claimed => Binds(ret', 16 - Under.min) /\ Rests(ret', cur', ahead')
Operates ==
  /\ IsNode(ret')
  /\ \/ stack' = Pop(stack) /\ (ret'.level <= 2 \/ Answers)
     \/ \E f : Keeps(f) /\ f.at \notin WaitAt /\ stack' = Append(Pop(stack), f)
     \/ \E f : \E m \in 2..14 : /\ Keeps(f) /\ Pausing(f) /\ (f.at \in WaitAt => m = Bound(f))
                                /\ stack' = Pop(stack) \o <<f, Expr(m)>>
Operating == Top.at \in OperatorAt /\ Operates

LEMMA CallsOperate ==
  /\ \A f : Keeps(f) /\ f.at \notin WaitAt /\ Become(f) => Operates
  /\ \A f, n : Keeps(f) /\ f.at \notin WaitAt /\ IsNode(n) /\ Yield(f, n) => Operates
  /\ \A f : \A m \in 2..14 : Keeps(f) /\ Pausing(f) /\ f.at \notin WaitAt /\ Call(f, Expr(m)) => Operates
  /\ \A f : \A m \in 2..14 : Keeps(f) /\ Pausing(f) /\ m = Bound(f) /\ Call(f, Expr(m)) => Operates
  /\ \A n : IsNode(n) /\ n.level <= 2 /\ Return(n) => Operates
  /\ \A n : IsNode(n) /\ Answers /\ Return(n) => Operates
  /\ \A f, g : Keeps(f) /\ f.at \notin WaitAt /\ Keeps(g) /\ g.at \notin WaitAt /\ Comma(f, g) => Operates
<1>1. IsNode(Nothing)
  BY TheNodes
<1> QED BY ONLY <1>1 DEF Become, Yield, Call, Return, Comma, Operates

EnclosedAt == OperatorAt \ (InfixAt \cup CloseAt \cup WaitAt)
LEMMA Enclosed ==
  /\ \A f : f.at \in EnclosedAt => Keeps(f) /\ f.at \notin WaitAt /\ (f.at # "FString" => Pausing(f))
  /\ \A a \in EnclosedAt : Keeps(F(a)) /\ F(a).at \notin WaitAt /\ (a # "FString" => Pausing(F(a)))
<1>1. ASSUME NEW f, f.at \in EnclosedAt PROVE Keeps(f) /\ f.at \notin WaitAt /\ (f.at # "FString" => Pausing(f))
  <2>1. /\ f.at \notin ExprAt /\ f.at \notin InfixAt /\ f.at \notin CloseAt /\ f.at \notin ItemsAt
        /\ f.at \notin LeadAt /\ f.at # "Conditional.end" /\ f.at \notin WaitAt /\ f.at \in OperatorAt
    BY <1>1 DEF EnclosedAt, OperatorAt, InfixAt, CloseAt, WaitAt, ExprAt, ItemsAt, LeadAt
  <2> QED BY <2>1 DEF Keeps, Shaped, Pausing
<1>2. ASSUME NEW a \in EnclosedAt PROVE F(a).at = a
  BY DEF F
<1> QED BY <1>1, <1>2
EXPRS == EXPR = Expr(2) /\ COND = 2 /\ OR = 3 /\ 2 \in 2..14 /\ 3 \in 2..14

Named(f, a) == [f EXCEPT !.at = a]
Same(f)     == Has(f, {"at", "op", "operand", "args"}) /\ f.op = Top.op /\ f.operand = Top.operand
\* The frames of an infix operator: what it was called with stays.
LEMMA InfixFrames ==
  ASSUME Shaped(Top), Top.at \in InfixAt
  PROVE  /\ Top.op \in DOMAIN Prec /\ InfixRule[Top.op] = Rule(Top.at) /\ IsNode(Top.operand)
         /\ \A a \in InfixAt : Rule(a) = Rule(Top.at) => Keeps(Go(a)) /\ Go(a).at = a /\ Go(a).op = Top.op
         /\ \A a \in InfixAt : \A x : Rule(a) = Rule(Top.at) =>
              LET f == [Top EXCEPT !.at = a, !.args = x] IN Keeps(f) /\ f.at = a /\ Same(f)
         /\ \A f : \A b \in InfixAt : Same(f) /\ Rule(b) = Rule(Top.at) => Keeps(Named(f, b)) /\ Named(f, b).at = b
         /\ \A o \in DOMAIN Prec : InfixRule[o] = Rule(Top.at) /\ Prec[o] = Prec[Top.op] =>
              \A a \in InfixAt : Rule(a) = Rule(Top.at) =>
                Keeps([Top EXCEPT !.at = a, !.op = o]) /\ [Top EXCEPT !.at = a, !.op = o].at = a
<1> DEFINE N == {"at", "op", "operand", "args"}
<1>1. Has(Top, N) /\ Top.op \in DOMAIN Prec /\ InfixRule[Top.op] = Rule(Top.at) /\ IsNode(Top.operand)
  BY DEF Shaped
<1>2. ASSUME NEW f, Has(f, N), f.at \in InfixAt, Rule(f.at) = Rule(Top.at), f.op \in DOMAIN Prec,
             InfixRule[f.op] = Rule(Top.at), Prec[f.op] = Prec[Top.op], f.operand = Top.operand
      PROVE  Keeps(f)
  <2>1. f.at \in OperatorAt /\ f.at \notin ExprAt /\ f.at \notin CloseAt /\ f.at \notin ItemsAt /\ f.at # "Conditional.end"
    BY <1>2 DEF OperatorAt, InfixAt, ExprAt, CloseAt, ItemsAt
  <2> QED BY <1>1, <1>2, <2>1 DEF Keeps, Shaped
<1>3. ASSUME NEW a \in InfixAt, NEW x, Rule(a) = Rule(Top.at)
      PROVE  LET f == [Top EXCEPT !.at = a, !.args = x] IN Keeps(f) /\ f.at = a /\ Same(f)
  <2> DEFINE f == [Top EXCEPT !.at = a, !.args = x]
  <2>1. Has(f, N) /\ f.at = a /\ f.op = Top.op /\ f.operand = Top.operand
    BY <1>1 DEF Has
  <2> HIDE DEF f
  <2>2. Keeps(f) /\ f.at = a /\ Same(f)
    BY <1>1, <1>2, <1>3, <2>1 DEF Same
  <2> QED BY <2>2 DEF f
<1>4. ASSUME NEW a \in InfixAt, Rule(a) = Rule(Top.at) PROVE Keeps(Go(a)) /\ Go(a).at = a /\ Go(a).op = Top.op
  <2> DEFINE f == [Top EXCEPT !.at = a]
  <2>1. Has(f, N) /\ f.at = a /\ f.op = Top.op /\ f.operand = Top.operand
    BY <1>1 DEF Has
  <2> HIDE DEF f
  <2>2. Keeps(f) /\ f.at = a /\ f.op = Top.op
    BY <1>1, <1>2, <1>4, <2>1
  <2> QED BY <2>2 DEF f, Go
<1>5. ASSUME NEW o \in DOMAIN Prec, InfixRule[o] = Rule(Top.at), Prec[o] = Prec[Top.op],
             NEW a \in InfixAt, Rule(a) = Rule(Top.at)
      PROVE  Keeps([Top EXCEPT !.at = a, !.op = o]) /\ [Top EXCEPT !.at = a, !.op = o].at = a
  <2> DEFINE f == [Top EXCEPT !.at = a, !.op = o]
  <2>1. Has(f, N) /\ f.at = a /\ f.op = o /\ f.operand = Top.operand
    BY <1>1 DEF Has
  <2> HIDE DEF f
  <2>2. Keeps(f) /\ f.at = a
    BY <1>1, <1>2, <1>5, <2>1
  <2> QED BY <2>2 DEF f
<1>6. ASSUME NEW f, NEW b \in InfixAt, Same(f), Rule(b) = Rule(Top.at) PROVE Keeps(Named(f, b)) /\ Named(f, b).at = b
  <2> DEFINE g == Named(f, b)
  <2>1. Has(g, N) /\ g.at = b /\ g.op = Top.op /\ g.operand = Top.operand
    BY <1>6 DEF Same, Has, Named
  <2> HIDE DEF g
  <2>2. Keeps(g) /\ g.at = b
    BY <1>1, <1>2, <1>6, <2>1
  <2> QED BY <2>2 DEF g
<1>7. \A o \in DOMAIN Prec : InfixRule[o] = Rule(Top.at) /\ Prec[o] = Prec[Top.op] =>
        \A a \in InfixAt : Rule(a) = Rule(Top.at) =>
          Keeps([Top EXCEPT !.at = a, !.op = o]) /\ [Top EXCEPT !.at = a, !.op = o].at = a
  BY ONLY <1>5
<1>8. \A a \in InfixAt : Rule(a) = Rule(Top.at) => Keeps(Go(a)) /\ Go(a).at = a /\ Go(a).op = Top.op
  BY ONLY <1>4
<1> QED BY ONLY <1>1, <1>3, <1>6, <1>7, <1>8

\* A frame of a list, a set or a comprehension: the bracket that closes it stays.
LEMMA CloseFrames ==
  /\ \A c \in {"]", "}"} : \A f \in {Clauses(c), Elements(c)} : Keeps(f) /\ f.at \notin WaitAt /\ Pausing(f)
  /\ Shaped(Top) /\ Top.at \in CloseAt =>
       \A a \in CloseAt : Keeps(Go(a)) /\ Go(a).at \notin WaitAt /\ Pausing(Go(a))
  /\ Shaped(Top) /\ Top.at \in CloseAt => Keeps(Top) /\ Top.at \notin WaitAt /\ Pausing(Top)
<1>1. ASSUME NEW f, f.at \in CloseAt, Has(f, {"at", "close"}), f.close \in {"]", "}"}
      PROVE  Keeps(f) /\ f.at \notin WaitAt /\ Pausing(f)
  <2>1. /\ f.at \in OperatorAt /\ f.at \notin ExprAt /\ f.at \notin InfixAt /\ f.at \notin ItemsAt
        /\ f.at # "Conditional.end" /\ f.at \notin WaitAt /\ f.at \notin LeadAt /\ f.at # "FString"
    BY <1>1 DEF OperatorAt, InfixAt, ExprAt, CloseAt, ItemsAt, WaitAt, LeadAt
  <2> QED BY <1>1, <2>1 DEF Keeps, Shaped, Pausing
<1>2. ASSUME NEW c \in {"]", "}"}, NEW a \in CloseAt
      PROVE  LET f == [at |-> a, close |-> c] IN Keeps(f) /\ f.at \notin WaitAt /\ Pausing(f)
  <2> DEFINE f == [at |-> a, close |-> c]
  <2>1. f.at \in CloseAt /\ Has(f, {"at", "close"}) /\ f.close \in {"]", "}"}
    BY DEF Has
  <2> HIDE DEF f
  <2>2. Keeps(f) /\ f.at \notin WaitAt /\ Pausing(f)
    BY <1>1, <2>1
  <2> QED BY <2>2 DEF f
<1>3. ASSUME Shaped(Top), Top.at \in CloseAt, NEW a \in CloseAt
      PROVE  Keeps(Go(a)) /\ Go(a).at \notin WaitAt /\ Pausing(Go(a))
  <2> DEFINE f == [Top EXCEPT !.at = a]
  <2>1. Has(Top, {"at", "close"}) /\ Top.close \in {"]", "}"}
    BY <1>3 DEF Shaped
  <2>2. f.at = a /\ Has(f, {"at", "close"}) /\ f.close = Top.close
    BY <2>1 DEF Has
  <2> HIDE DEF f
  <2>3. Keeps(f) /\ f.at \notin WaitAt /\ Pausing(f)
    BY <1>1, <1>3, <2>1, <2>2
  <2> QED BY <2>3 DEF f, Go
<1>4. "Clauses" \in CloseAt /\ "Elements" \in CloseAt
  BY DEF CloseAt
<1>5. Shaped(Top) /\ Top.at \in CloseAt => Keeps(Top) /\ Top.at \notin WaitAt /\ Pausing(Top)
  BY <1>1 DEF Shaped
<1> QED BY <1>2, <1>3, <1>4, <1>5 DEF Clauses, Elements

LEMMA StayKeepsToken == Stay => cur' = cur /\ ahead' = ahead
BY DEF Stay, Read, input

\* The operator whose right operand was read is as long as the one it stands for wants.
LEMMA OperandRead ==
  ASSUME Stay
  PROVE  /\ At("Binary.right") \/ At("Logical.right") => (ret' = Node("OTHER", Level[Top.op]) => Answers)
         /\ At("Compare.link") /\ ~(cur \in DOMAIN Prec /\ Prec[cur] = COMP /\ (cur = "not" => ahead = "in")) /\ ~Peeks
              => (ret' = Node("OTHER", 11) => Answers)
         /\ At("Conditional.end") => (ret' = Node("OTHER", 14) => Answers)
         /\ At("Unary.operand") => (ret' = Node("UNARY", 4) => Answers)
         /\ At("Lambda.body") => (ret' = Node("LAMBDA", 15) => Answers)
<1>0. cur' = cur /\ ahead' = ahead
  BY StayKeepsToken
<1>1. ASSUME Claimed
      PROVE  /\ Shaped(Top) /\ Above(Under, Top) /\ Under.min \in 2..14
             /\ Top.at \in InfixAt => /\ Prec[Top.op] >= Under.min /\ Top.op \in DOMAIN Prec
                                      /\ InfixRule[Top.op] = Rule(Top.at)
             /\ Top.at \in WaitAt => Quiet(Bound(Top), cur, ahead)
             /\ At("Conditional.end") => Under.min = 2
  BY <1>1 DEF Claimed, Stands, Got, Above, Shaped, ExprAt, At, COND
<1>2. \A k \in STRING, l \in 1..15 : Node(k, l).level = l /\ Node(k, l).kind = k
  BY TheNodes
<1>3. ASSUME At("Binary.right") \/ At("Logical.right"), ret' = Node("OTHER", Level[Top.op]), Claimed
      PROVE  Binds(ret', 16 - Under.min) /\ Rests(ret', cur', ahead')
  <2>1. /\ Top.op \in DOMAIN Prec /\ InfixRule[Top.op] \in {"Binary", "Logical"} /\ Prec[Top.op] >= Under.min
        /\ Quiet(Bound(Top), cur, ahead)
        /\ At("Binary.right") <=> InfixRule[Top.op] = "Binary"
    BY <1>1, <1>3 DEF At, InfixAt, WaitAt, Rule
  <2> DEFINE p == Prec[Top.op]
  <2>2. p \in (6..11) \cup {13, 3, 4} /\ Level[Top.op] = 16 - p /\ (At("Binary.right") => (p = 13 <=> Top.op = "**"))
        /\ (At("Logical.right") => p \in {3, 4})
    BY <2>1, <1>3, Tables DEF At
  <2>3. Bound(Top) = IF p = 13 THEN 13 ELSE p + 1
    BY <1>3, <2>2 DEF Bound, At, POWER
  <2>4. ret'.level = 16 - p
    BY <1>3, <2>2, TheNodes
  <2> HIDE DEF p
  <2>5. Under.min \in 2..14 /\ p >= Under.min
    BY <1>1, <1>3, <2>1 DEF p
  <2>6. Binds(ret', 16 - Under.min)
    BY <2>2, <2>4, <2>5 DEF Binds
  <2>7. Rests(ret', cur', ahead')
    BY <1>0, <2>1, <2>2, <2>3, <2>4 DEF Rests
  <2> QED BY <2>6, <2>7
<1>4. ASSUME At("Compare.link"), ~(cur \in DOMAIN Prec /\ Prec[cur] = COMP /\ (cur = "not" => ahead = "in")), ~Peeks,
             ret' = Node("OTHER", 11), Claimed
      PROVE  Binds(ret', 16 - Under.min) /\ Rests(ret', cur', ahead')
  <2>1. /\ Top.op \in DOMAIN Prec /\ InfixRule[Top.op] = "Compare" /\ Prec[Top.op] >= Under.min
        /\ Quiet(6, cur, ahead) /\ Under.min \in 2..14
    BY <1>1, <1>4 DEF At, InfixAt, WaitAt, Rule, Bound, COMP
  <2>2. Prec[Top.op] = 5
    BY <2>1, Tables
  <2>3. ret'.level = 11
    BY <1>4, TheNodes
  <2>4. cur = "not" => ahead # "none"
    BY <1>4 DEF Peeks
  <2>5. Quiet(5, cur, ahead)
    <3>1. cur \in DOMAIN Prec => Prec[cur] \in 2..14
      BY Tables
    <3> QED BY <1>4, <2>1, <2>4, <3>1 DEF Quiet, COMP
  <2> QED BY <1>0, <2>1, <2>2, <2>3, <2>5 DEF Binds, Rests
<1>5. ASSUME At("Conditional.end"), ret' = Node("OTHER", 14), Claimed
      PROVE  Binds(ret', 16 - Under.min) /\ Rests(ret', cur', ahead')
  <2>1. Quiet(2, cur, ahead) /\ Under.min = 2 /\ ret'.level = 14
    BY <1>1, <1>5, TheNodes DEF At, WaitAt, Bound, COND
  <2> QED BY <1>0, <2>1 DEF Binds, Rests
<1>6. ASSUME At("Unary.operand"), ret' = Node("UNARY", 4), Claimed
      PROVE  Binds(ret', 16 - Under.min) /\ Rests(ret', cur', ahead')
  <2>1. Quiet(13, cur, ahead) /\ ret'.level = 4 /\ ret'.kind = "UNARY"
    BY <1>1, <1>6, TheNodes DEF At, WaitAt, Bound, UNARY
  <2> QED BY <1>0, <2>1 DEF Binds, Rests
<1>7. ASSUME At("Lambda.body"), ret' = Node("LAMBDA", 15), Claimed
      PROVE  Binds(ret', 16 - Under.min) /\ Rests(ret', cur', ahead')
  <2>1. Quiet(2, cur, ahead) /\ ret'.level = 15 /\ ret'.kind = "LAMBDA"
    BY <1>1, <1>7, TheNodes DEF At, WaitAt, Bound, COND
  <2> QED BY <1>0, <2>1 DEF Binds, Rests
<1> QED BY <1>3, <1>4, <1>5, <1>6, <1>7 DEF Answers

LEMMA InfixOperates ==
  Shaped(Top) /\ ~Peeks
    => (ParseBinary \/ ParseLogical \/ ParseCall \/ ParseCompareChain \/ ParseConditional => Operating)
<1> SUFFICES ASSUME Shaped(Top), ~Peeks
             PROVE  ParseBinary \/ ParseLogical \/ ParseCall \/ ParseCompareChain \/ ParseConditional => Operating
  OBVIOUS
<1>0. /\ InfixAt \subseteq OperatorAt /\ "Conditional.end" \in OperatorAt
      /\ \A a \in {"Binary.right", "Logical.right", "Compare.link", "Conditional.else", "Call.argument"} :
           \A f : f.at = a => Pausing(f)
  BY DEF OperatorAt, InfixAt, Pausing, LeadAt
<1>1. ASSUME Top.at \in InfixAt
      PROVE  /\ Top.op \in DOMAIN Prec /\ InfixRule[Top.op] = Rule(Top.at) /\ IsNode(Top.operand)
             /\ Prec[Top.op] \in 2..14 /\ Level[Top.op] \in 2..14
  <2>1. Top.op \in DOMAIN Prec /\ InfixRule[Top.op] = Rule(Top.at) /\ IsNode(Top.operand)
    BY <1>1, InfixFrames
  <2>2. Prec[Top.op] \in 2..14 /\ Level[Top.op] = 16 - Prec[Top.op]
    BY <2>1, Tables
  <2> QED BY <2>1, <2>2
<1>2. ParseBinary => Operating
  <2>1. ParseBinary => At("Binary") \/ At("Binary.right")
    BY DEF ParseBinary
  <2>2. At("Binary") \/ At("Binary.right") =>
          /\ Top.at \in InfixAt /\ Rule(Top.at) = "Binary" /\ Rule("Binary.right") = "Binary"
          /\ "Binary.right" \in InfixAt /\ "Binary.right" \in WaitAt
    BY DEF At, InfixAt, Rule, WaitAt
  <2>3. ASSUME At("Binary"), Stay,
               Call(Go("Binary.right"), Expr(IF Top.op = "**" THEN Prec[Top.op] ELSE Prec[Top.op] + 1))
        PROVE  Operates
    <3> DEFINE f == Go("Binary.right")
               m == IF Top.op = "**" THEN Prec[Top.op] ELSE Prec[Top.op] + 1
    <3>1. Keeps(f) /\ f.at = "Binary.right" /\ f.op = Top.op
      BY <2>2, <2>3, InfixFrames
    <3>2. m \in 2..14 /\ m = Bound(f)
      <4>1. Top.op \in DOMAIN Prec /\ InfixRule[Top.op] = "Binary"
        BY <1>1, <2>2, <2>3
      <4>2. Prec[Top.op] \in (6..11) \cup {13} /\ (Prec[Top.op] = 13 <=> Top.op = "**")
        BY <4>1, Tables
      <4> QED BY <3>1, <4>2 DEF Bound, POWER
    <3> HIDE DEF f, m
    <3>3. Call(f, Expr(m))
      BY <2>3 DEF f, m
    <3> QED BY <1>0, <3>1, <3>2, <3>3, CallsOperate
  <2>4. ASSUME At("Binary.right"), Stay, Return(Node("OTHER", Level[Top.op])) PROVE Operates
    <3>1. IsNode(Node("OTHER", Level[Top.op]))
      BY <1>1, <2>2, <2>4, TheNodes
    <3>2. ret' = Node("OTHER", Level[Top.op])
      BY <2>4 DEF Return
    <3>3. Answers
      BY <2>4, <3>2, OperandRead
    <3> QED BY <2>4, <3>1, <3>3, CallsOperate
  <2>5. ParseBinary => Operates
    BY <2>3, <2>4 DEF ParseBinary
  <2> QED BY <2>1, <2>2, <2>5, <1>0 DEF Operating
<1>3. ParseLogical => Operating
  <2>1. ParseLogical => At("Logical") \/ At("Logical.right")
    BY DEF ParseLogical
  <2>2. At("Logical") \/ At("Logical.right") =>
          /\ Top.at \in InfixAt /\ Rule(Top.at) = "Logical" /\ Rule("Logical.right") = "Logical"
          /\ "Logical.right" \in InfixAt /\ "Logical.right" \in WaitAt
    BY DEF At, InfixAt, Rule, WaitAt
  <2>3. ASSUME At("Logical"), Stay, Call(Go("Logical.right"), Expr(Prec[Top.op] + 1)) PROVE Operates
    <3> DEFINE f == Go("Logical.right")
               m == Prec[Top.op] + 1
    <3>1. Keeps(f) /\ f.at = "Logical.right" /\ f.op = Top.op
      BY <2>2, <2>3, InfixFrames
    <3>2. m \in 2..14 /\ m = Bound(f)
      <4>1. Top.op \in DOMAIN Prec /\ InfixRule[Top.op] = "Logical"
        BY <1>1, <2>2, <2>3
      <4> QED BY <3>1, <4>1, Tables DEF Bound
    <3> HIDE DEF f, m
    <3>3. Call(f, Expr(m))
      BY <2>3 DEF f, m
    <3> QED BY <1>0, <3>1, <3>2, <3>3, CallsOperate
  <2>4. ASSUME At("Logical.right"), Stay, Return(Node("OTHER", Level[Top.op])) PROVE Operates
    <3>1. IsNode(Node("OTHER", Level[Top.op]))
      BY <1>1, <2>2, <2>4, TheNodes
    <3>2. ret' = Node("OTHER", Level[Top.op])
      BY <2>4 DEF Return
    <3>3. Answers
      BY <2>4, <3>2, OperandRead
    <3> QED BY <2>4, <3>1, <3>3, CallsOperate
  <2>5. ParseLogical => Operates
    BY <2>3, <2>4 DEF ParseLogical
  <2> QED BY <2>1, <2>2, <2>5, <1>0 DEF Operating
<1>4. ParseCall => Operating
  <2>1. ParseCall => Top.at \in {"Call", "Call.equal", "Call.argument", "Call.close"}
    BY DEF ParseCall, At
  <2>2. /\ \A a \in {"Call", "Call.equal", "Call.argument", "Call.close"} :
             a \in InfixAt /\ a \notin WaitAt /\ Rule(a) = "Call"
    BY DEF InfixAt, Rule, WaitAt
  <2>3. ASSUME Top.at \in {"Call", "Call.equal", "Call.argument", "Call.close"},
               NEW a \in {"Call", "Call.equal", "Call.argument", "Call.close"}
        PROVE  Keeps(Go(a)) /\ Go(a).at = a
    BY <2>2, <2>3, InfixFrames
  <2>4. ASSUME ParseCall PROVE Operates
    <3>1. /\ Keeps(Go("Call.close")) /\ Go("Call.close").at \notin WaitAt
          /\ Keeps(Go("Call.equal")) /\ Go("Call.equal").at \notin WaitAt
          /\ Keeps(Go("Call.argument")) /\ Go("Call.argument").at \notin WaitAt /\ Pausing(Go("Call.argument"))
      BY <1>0, <2>1, <2>2, <2>3, <2>4
    <3>2. Become(Go("Call.close")) \/ Become(Go("Call.equal")) => Operates
      BY ONLY <3>1, CallsOperate
    <3>3. Call(Go("Call.argument"), EXPR) => Operates
      <4>1. EXPR = Expr(2) /\ 2 \in 2..14
        BY DEF EXPR, COND
      <4> QED BY ONLY <3>1, <4>1, CallsOperate
    <3> DEFINE more == [Top EXCEPT !.at = "Call", !.args = Least(2, @ + 1)]
               last == [more EXCEPT !.at = "Call.close"]
    <3>4. Comma(more, last) => Operates
      <4> DEFINE x == Least(2, Top.args + 1)
      <4>0. more = [Top EXCEPT !.at = "Call", !.args = x]
        OBVIOUS
      <4> HIDE DEF more, last, x
      <4>5. /\ Top.at \in InfixAt /\ "Call" \in InfixAt /\ Rule("Call") = Rule(Top.at)
            /\ "Call.close" \in InfixAt /\ Rule("Call.close") = Rule(Top.at)
        BY <2>1, <2>2, <2>4
      <4>6. LET f == [Top EXCEPT !.at = "Call", !.args = x] IN Keeps(f) /\ f.at = "Call" /\ Same(f)
        BY <4>5, InfixFrames, Zenon
      <4>7. Keeps(Named(more, "Call.close")) /\ Named(more, "Call.close").at = "Call.close"
        <5>1. Same(more)
          BY <4>0, <4>6
        <5> QED BY <4>5, <5>1, InfixFrames, ZenonT(40)
      <4>1. Keeps(more) /\ more.at = "Call"
        BY <4>0, <4>6
      <4>2. last = Named(more, "Call.close")
        BY DEF Named, last
      <4>3. Keeps(Named(more, "Call.close")) /\ Named(more, "Call.close").at = "Call.close"
        BY <4>0, <4>7
      <4>4. Keeps(more) /\ more.at \notin WaitAt /\ Keeps(last) /\ last.at \notin WaitAt
        BY <4>1, <4>2, <4>3 DEF WaitAt
      <4> QED BY ONLY <4>4, CallsOperate
    <3> DEFINE n == [Node("CALL", 2) EXCEPT !.name = IF Top.operand.kind = "ATTR" THEN Top.operand.name ELSE "",
                                           !.args = Top.args]
    <3>5. Return(n) => Operates
      <4>1. IsNode(n) /\ n.level = 2
        <5> DEFINE g == Node("CALL", 2)
                   x == IF Top.operand.kind = "ATTR" THEN Top.operand.name ELSE ""
                   y == Top.args
        <5>1. IsNode(g) /\ g.level = 2
          BY TheNodes
        <5>2. n = [g EXCEPT !.name = x, !.args = y]
          OBVIOUS
        <5> HIDE DEF g, x, y, n
        <5> QED BY <5>1, <5>2 DEF IsNode
      <4> HIDE DEF n
      <4> QED BY <4>1, CallsOperate
    <3> HIDE DEF more, last, n
    <3> QED BY ONLY <2>4, <3>2, <3>3, <3>4, <3>5 DEF ParseCall, more, last, n
  <2> QED BY <2>1, <2>2, <2>4, <1>0 DEF Operating
<1>5. ParseCompareChain => Operating
  <2>1. ParseCompareChain => At("Compare") \/ At("Compare.link")
    BY DEF ParseCompareChain
  <2>2. /\ At("Compare") \/ At("Compare.link") => Top.at \in InfixAt /\ Rule(Top.at) = "Compare"
        /\ Rule("Compare.link") = "Compare" /\ "Compare.link" \in InfixAt /\ "Compare.link" \in WaitAt
        /\ Rule("Compare") = "Compare" /\ "Compare" \in InfixAt /\ "Compare" \notin WaitAt
    BY DEF At, InfixAt, Rule, WaitAt
  <2>3. ASSUME At("Compare"), Call(Go("Compare.link"), Expr(COMP + 1)) PROVE Operates
    <3> DEFINE f == Go("Compare.link")
               m == COMP + 1
    <3>1. Keeps(f) /\ f.at = "Compare.link" /\ f.op = Top.op
      BY <2>2, <2>3, InfixFrames
    <3> HIDE DEF f
    <3>2. m \in 2..14 /\ m = Bound(f)
      BY <3>1 DEF Bound, COMP
    <3> HIDE DEF m
    <3>3. Call(f, Expr(m))
      BY <2>3 DEF f, m
    <3> QED BY <1>0, <3>1, <3>2, <3>3, CallsOperate
  <2> DEFINE links == cur \in DOMAIN Prec /\ Prec[cur] = COMP /\ (cur = "not" => ahead = "in")
             more  == [Top EXCEPT !.at = "Compare", !.op = cur]
  <2>4. ASSUME At("Compare.link"), links, Become(more) PROVE Operates
    <3>1. Prec[Top.op] = 5 /\ Rule(Top.at) = "Compare"
      BY <1>1, <2>2, <2>4, Tables
    <3>2. cur \in DOMAIN Prec /\ InfixRule[cur] = "Compare" /\ Prec[cur] = 5
      BY <2>4, Tables DEF COMP
    <3>3. Keeps(more) /\ more.at = "Compare"
      <4>1. Top.at \in InfixAt /\ InfixRule[cur] = Rule(Top.at) /\ Prec[cur] = Prec[Top.op] /\ Rule("Compare") = Rule(Top.at)
        BY <2>2, <2>4, <3>1, <3>2
      <4> QED BY <2>2, <3>2, <4>1, InfixFrames, Zenon
    <3> HIDE DEF more
    <3> QED BY <2>2, <2>4, <3>3, CallsOperate
  <2>5. ASSUME At("Compare.link"), ~links, Stay, Return(Node("OTHER", 11)) PROVE Operates
    <3>1. ret' = Node("OTHER", 11)
      BY <2>5 DEF Return
    <3>2. Answers
      BY <2>5, <3>1, OperandRead
    <3>3. IsNode(Node("OTHER", 11))
      BY TheNodes
    <3> QED BY <2>5, <3>2, <3>3, CallsOperate
  <2> HIDE DEF links, more
  <2>6. ParseCompareChain => Operates
    BY <2>3, <2>4, <2>5 DEF ParseCompareChain, links, more
  <2> QED BY <2>1, <2>2, <2>6, <1>0 DEF Operating
<1>6. ParseConditional => Operating
  <2>1. ParseConditional => Top.at \in {"Conditional", "Conditional.else", "Conditional.end"}
    BY DEF ParseConditional, At
  <2>2. /\ At("Conditional") \/ At("Conditional.else") => Top.at \in InfixAt /\ Rule(Top.at) = "Conditional"
        /\ Rule("Conditional.else") = "Conditional" /\ "Conditional.else" \in InfixAt /\ "Conditional.else" \in WaitAt
    BY DEF At, InfixAt, Rule, WaitAt
  <2>3. ASSUME At("Conditional"), Call(Go("Conditional.else"), Expr(OR)) PROVE Operates
    <3> DEFINE f == Go("Conditional.else")
               m == OR
    <3>1. Keeps(f) /\ f.at = "Conditional.else"
      BY <2>2, <2>3, InfixFrames
    <3> HIDE DEF f
    <3>2. m \in 2..14 /\ m = Bound(f)
      BY <3>1 DEF Bound, OR
    <3> HIDE DEF m
    <3>3. Call(f, Expr(m))
      BY <2>3 DEF f, m
    <3> QED BY <1>0, <3>1, <3>2, <3>3, CallsOperate
  <2>4. ASSUME At("Conditional.else"), Call(F("Conditional.end"), Expr(COND)) PROVE Operates
    <3> DEFINE f == F("Conditional.end")
               m == COND
    <3>1. f.at = "Conditional.end"
      BY DEF F
    <3> HIDE DEF f
    <3>2. m \in 2..14 /\ m = Bound(f)
      BY <3>1 DEF Bound, COND
    <3>3. Top.at \in InfixAt /\ Prec[Top.op] = COND
      BY <1>1, <2>2, <2>4, Tables DEF COND
    <3>4. Keeps(f) /\ Pausing(f)
      <4>1. /\ f.at \notin ExprAt /\ f.at \notin InfixAt /\ f.at \notin CloseAt /\ f.at \notin ItemsAt
            /\ f.at \notin LeadAt /\ f.at # "FString" /\ f.at \in OperatorAt
        BY <3>1 DEF OperatorAt, InfixAt, CloseAt, ExprAt, ItemsAt, LeadAt
      <4> QED BY <3>3, <4>1 DEF Keeps, Shaped, Pausing
    <3> HIDE DEF m
    <3>5. Call(f, Expr(m))
      BY <2>4 DEF f, m
    <3> QED BY <3>2, <3>4, <3>5, CallsOperate
  <2>5. ASSUME At("Conditional.end"), Stay, Return(Node("OTHER", 14)) PROVE Operates
    <3>1. ret' = Node("OTHER", 14)
      BY <2>5 DEF Return
    <3>2. Answers
      BY <2>5, <3>1, OperandRead
    <3>3. IsNode(Node("OTHER", 14))
      BY TheNodes
    <3> QED BY <2>5, <3>2, <3>3, CallsOperate
  <2>6. ParseConditional => Operates
    BY <2>3, <2>4, <2>5 DEF ParseConditional
  <2> QED BY <2>1, <2>2, <2>6, <1>0 DEF Operating, At
<1> QED BY <1>2, <1>3, <1>4, <1>5, <1>6

OtherOperator ==
  \/ ParseGrouping \/ ParseUnary \/ ParseIndexOrSlice \/ ParseAttr \/ ParseAwait \/ ParseSelfSuper
  \/ ParseLambdaParams \/ ParseLambdaBody \/ ParseComprehensionClauses \/ ParseElements
  \/ ParseListOrComprehension \/ ParseBraceLiteral \/ ParseFString
LEMMA OthersOperate == Shaped(Top) /\ IsNode(ret) /\ ~Peeks /\ OtherOperator => Operating
<1> SUFFICES ASSUME Shaped(Top), IsNode(ret), ~Peeks PROVE OtherOperator => Operating
  OBVIOUS
<1>0. /\ EXPR = Expr(2) /\ OR = 3 /\ 2 \in 2..14 /\ 3 \in 2..14
      /\ IsNode(Primary) /\ Primary.level <= 2 /\ IsNode(Invalid) /\ Invalid.level <= 2
      /\ IsNode(Node("INDEX", 2)) /\ Node("INDEX", 2).level <= 2 /\ IsNode(Node("OTHER", 2)) /\ Node("OTHER", 2).level <= 2
      /\ IsNode(Node("IDENT", 1)) /\ Node("IDENT", 1).level <= 2
  <2>1. 1 \in 1..15 /\ 2 \in 1..15
    OBVIOUS
  <2>2. EXPR = Expr(2) /\ OR = 3 /\ 2 \in 2..14 /\ 3 \in 2..14
    BY DEF EXPR, COND, OR
  <2>3. \A k : Node(k, 1).level <= 2 /\ Node(k, 2).level <= 2 /\ IsNode(Node(k, 1)) /\ IsNode(Node(k, 2))
    BY <2>1, TheNodes
  <2> QED BY <2>2, <2>3 DEF Primary, Invalid
<1>1. ParseIndexOrSlice => Operating
  <2>1. ParseIndexOrSlice => Top.at \in OperatorAt
    BY DEF ParseIndexOrSlice, At, OperatorAt, InfixAt, CloseAt
  <2>2. /\ Keeps(F("Index.close")) /\ F("Index.close").at \notin WaitAt
        /\ Keeps(F("Index.start")) /\ F("Index.start").at \notin WaitAt
        /\ Keeps(F("Slice.close")) /\ F("Slice.close").at \notin WaitAt
        /\ Keeps(F("Slice.colon")) /\ F("Slice.colon").at \notin WaitAt
        /\ Keeps(F("Slice.step")) /\ F("Slice.step").at \notin WaitAt
        /\ Keeps(F("Slice.stop")) /\ F("Slice.stop").at \notin WaitAt /\ Pausing(F("Index.start"))
        /\ Pausing(F("Slice.close")) /\ Pausing(F("Slice.colon"))
    BY <1>0, Enclosed, CloseFrames DEF At, EnclosedAt, OperatorAt, InfixAt, CloseAt, WaitAt
  <2>3. ParseIndexOrSlice => Operates
    BY ONLY <2>2, <1>0, CallsOperate, TheNodes DEF ParseIndexOrSlice
  <2> QED BY <2>1, <2>3 DEF Operating
<1>2. ParseSelfSuper => Operating
  <2>1. ParseSelfSuper => Top.at \in OperatorAt
    BY DEF ParseSelfSuper, At, OperatorAt, InfixAt, CloseAt
  <2>2. ParseSelfSuper => Operates
    BY ONLY <1>0, CallsOperate, TheNodes DEF ParseSelfSuper
  <2> QED BY <2>1, <2>2 DEF Operating
<1>3. ParseLambdaParams => Operating
  <2>1. ParseLambdaParams => Top.at \in OperatorAt
    BY DEF ParseLambdaParams, At, OperatorAt, InfixAt, CloseAt
  <2>2. /\ Keeps(F("Lambda")) /\ F("Lambda").at \notin WaitAt
        /\ Keeps(F("Lambda.colon")) /\ F("Lambda.colon").at \notin WaitAt
        /\ Keeps(F("Lambda.comma")) /\ F("Lambda.comma").at \notin WaitAt
    BY <1>0, Enclosed, CloseFrames DEF At, EnclosedAt, OperatorAt, InfixAt, CloseAt, WaitAt
  <2>3. ParseLambdaParams => Operates
    BY ONLY <2>2, <1>0, CallsOperate, TheNodes DEF ParseLambdaParams
  <2> QED BY <2>1, <2>3 DEF Operating
<1>4. ParseListOrComprehension => Operating
  <2>1. ParseListOrComprehension => Top.at \in OperatorAt
    BY DEF ParseListOrComprehension, At, OperatorAt, InfixAt, CloseAt
  <2>2. /\ Keeps(F("List.first")) /\ F("List.first").at \notin WaitAt
        /\ Keeps(F("List.value")) /\ F("List.value").at \notin WaitAt /\ Pausing(F("List.first"))
        /\ Pausing(F("List.value")) /\ Keeps(Clauses("]")) /\ Clauses("]").at \notin WaitAt
        /\ Keeps(Elements("]")) /\ Elements("]").at \notin WaitAt
    BY <1>0, Enclosed, CloseFrames DEF At, EnclosedAt, OperatorAt, InfixAt, CloseAt, WaitAt
  <2>3. ParseListOrComprehension => Operates
    BY ONLY <2>2, <1>0, CallsOperate, TheNodes DEF ParseListOrComprehension
  <2> QED BY <2>1, <2>3 DEF Operating
<1>5. ParseBraceLiteral => Operating
  <2>1. ParseBraceLiteral => Top.at \in OperatorAt
    BY DEF ParseBraceLiteral, At, OperatorAt, InfixAt, CloseAt
  <2>2. /\ Keeps(F("Brace.first")) /\ F("Brace.first").at \notin WaitAt
        /\ Keeps(F("Brace.value")) /\ F("Brace.value").at \notin WaitAt
        /\ Keeps(F("Dict.close")) /\ F("Dict.close").at \notin WaitAt
        /\ Keeps(F("Dict.colon")) /\ F("Dict.colon").at \notin WaitAt
        /\ Keeps(F("Dict.key")) /\ F("Dict.key").at \notin WaitAt
        /\ Keeps(F("Dict.pair")) /\ F("Dict.pair").at \notin WaitAt /\ Pausing(F("Brace.first"))
        /\ Pausing(F("Brace.value")) /\ Pausing(F("Dict.colon")) /\ Pausing(F("Dict.pair"))
        /\ Keeps(Clauses("}")) /\ Clauses("}").at \notin WaitAt
        /\ Keeps(Elements("}")) /\ Elements("}").at \notin WaitAt
    BY <1>0, Enclosed, CloseFrames DEF At, EnclosedAt, OperatorAt, InfixAt, CloseAt, WaitAt
  <2>3. ParseBraceLiteral => Operates
    BY ONLY <2>2, <1>0, CallsOperate, TheNodes DEF ParseBraceLiteral
  <2> QED BY <2>1, <2>3 DEF Operating
<1>6. ParseFString => Operating
  <2>1. ParseFString => Top.at \in OperatorAt
    BY DEF ParseFString, At, OperatorAt, InfixAt, CloseAt
  <2>2. /\ Keeps(F("FString")) /\ F("FString").at \notin WaitAt
        /\ Keeps(F("FString.close")) /\ F("FString.close").at \notin WaitAt
        /\ Keeps(F("FString.format")) /\ F("FString.format").at \notin WaitAt /\ Pausing(F("FString.format"))
        /\ (At("FString") => Keeps(Top) /\ Top.at \notin WaitAt)
    BY <1>0, Enclosed, CloseFrames DEF At, EnclosedAt, OperatorAt, InfixAt, CloseAt, WaitAt
  <2>3. ParseFString => Operates
    BY ONLY <2>2, <1>0, CallsOperate, TheNodes DEF ParseFString
  <2> QED BY <2>1, <2>3 DEF Operating
<1>7. Top.at \in CloseAt => Keeps(Top) /\ Top.at \notin WaitAt /\ Pausing(Top)
  BY CloseFrames
<1>8. Top.at \in CloseAt => /\ Keeps(Go("Clauses")) /\ Go("Clauses").at \notin WaitAt /\ Pausing(Go("Clauses"))
                            /\ Keeps(Go("Clause.target")) /\ Go("Clause.target").at \notin WaitAt
                            /\ Keeps(Go("Clause.comma")) /\ Go("Clause.comma").at \notin WaitAt
                            /\ Keeps(Go("Clause.in")) /\ Go("Clause.in").at \notin WaitAt
                            /\ Keeps(Go("Element")) /\ Go("Element").at \notin WaitAt
                            /\ Keeps(Go("Elements")) /\ Go("Elements").at \notin WaitAt /\ Pausing(Go("Elements"))
  BY CloseFrames DEF CloseAt
<1>9. ParseComprehensionClauses => Operating
  <2>1. ParseComprehensionClauses => Top.at \in CloseAt
    BY DEF ParseComprehensionClauses, At, CloseAt
  <2>2. Top.at \in CloseAt => (ParseComprehensionClauses => Operates)
    BY ONLY <1>0, <1>7, <1>8, CallsOperate DEF ParseComprehensionClauses
  <2> QED BY <2>1, <2>2 DEF Operating, OperatorAt
<1>10. ParseElements => Operating
  <2>1. ParseElements => Top.at \in CloseAt
    BY DEF ParseElements, At, CloseAt
  <2>2. Top.at \in CloseAt => (ParseElements => Operates)
    BY ONLY <1>0, <1>7, <1>8, CallsOperate DEF ParseElements
  <2> QED BY <2>1, <2>2 DEF Operating, OperatorAt
<1>11. ParseGrouping => Operating
  <2>1. ParseGrouping => Top.at \in OperatorAt
    BY DEF ParseGrouping, At, OperatorAt, InfixAt, CloseAt
  <2>2. Keeps(F("Grouping.close")) /\ F("Grouping.close").at \notin WaitAt /\ Pausing(F("Grouping.close"))
    BY Enclosed DEF EnclosedAt, OperatorAt, InfixAt, CloseAt, WaitAt
  <2> DEFINE n == [ret EXCEPT !.level = 1]
  <2>3. IsNode(n) /\ n.level <= 2
    BY DEF IsNode
  <2> HIDE DEF n
  <2>4. ParseGrouping => Operates
    BY ONLY <1>0, <2>2, <2>3, CallsOperate DEF ParseGrouping, n
  <2> QED BY <2>1, <2>4 DEF Operating
<1>12. ParseAttr => Operating
  <2>1. ParseAttr => Top.at \in OperatorAt
    BY DEF ParseAttr, At, OperatorAt, InfixAt, CloseAt
  <2> DEFINE x == IF cur \in Ident THEN cur ELSE "."
             g == Node("ATTR", 2)
             n == [g EXCEPT !.name = x]
  <2>2. IsNode(g) /\ g.level = 2
    BY TheNodes
  <2> HIDE DEF g, x
  <2>3. IsNode(n) /\ n.level <= 2
    BY <2>2 DEF IsNode
  <2> HIDE DEF n
  <2>4. ParseAttr => Return(n)
    BY DEF ParseAttr, n, g, x
  <2> QED BY <2>1, <2>3, <2>4, CallsOperate DEF Operating
<1>13. ASSUME NEW a \in {"Unary.operand", "Await.end", "Lambda.body"}, NEW f, f.at = a, Bound(f) \in 2..14,
              Call(f, Expr(Bound(f)))
       PROVE  Operates
  <2>1. /\ f.at \notin ExprAt /\ f.at \notin InfixAt /\ f.at \notin CloseAt /\ f.at \notin ItemsAt
        /\ f.at \notin LeadAt /\ f.at # "FString" /\ f.at # "Conditional.end" /\ f.at \in OperatorAt
    BY <1>13 DEF OperatorAt, InfixAt, CloseAt, ExprAt, ItemsAt, LeadAt
  <2>2. Keeps(f) /\ Pausing(f)
    BY <2>1 DEF Keeps, Shaped, Pausing
  <2> QED BY <1>13, <2>2, CallsOperate
<1>14. ParseUnary => Operating
  <2>1. ParseUnary => Top.at \in OperatorAt
    BY DEF ParseUnary, At, OperatorAt, InfixAt, CloseAt
  <2>2. ASSUME Call(F("Unary.operand"), Expr(UNARY + 1)) PROVE Operates
    <3> DEFINE f == F("Unary.operand")
    <3>1. f.at = "Unary.operand"
      BY DEF F
    <3> HIDE DEF f
    <3>2. Bound(f) = UNARY + 1 /\ UNARY + 1 \in 2..14
      BY <3>1 DEF Bound, UNARY
    <3> QED BY <1>13, <2>2, <3>1, <3>2 DEF f
  <2>3. ASSUME At("Unary.operand"), Stay, Return(Node("UNARY", 4)) PROVE Operates
    <3>1. ret' = Node("UNARY", 4)
      BY <2>3 DEF Return
    <3>2. Answers
      BY <2>3, <3>1, OperandRead
    <3>3. IsNode(Node("UNARY", 4))
      BY TheNodes
    <3> QED BY <2>3, <3>2, <3>3, CallsOperate
  <2> QED BY <2>1, <2>2, <2>3 DEF ParseUnary, Operating
<1>15. ParseAwait => Operating
  <2>1. ParseAwait => Top.at \in OperatorAt
    BY DEF ParseAwait, At, OperatorAt, InfixAt, CloseAt
  <2>2. ASSUME Call(F("Await.end"), Expr(POST)) PROVE Operates
    <3> DEFINE f == F("Await.end")
    <3>1. f.at = "Await.end"
      BY DEF F
    <3> HIDE DEF f
    <3>2. Bound(f) = POST /\ POST \in 2..14
      BY <3>1 DEF Bound, POST
    <3> QED BY <1>13, <2>2, <3>1, <3>2 DEF f
  <2>3. Return(Node("OTHER", 2)) => Operates
    BY ONLY <1>0, CallsOperate
  <2> QED BY <2>1, <2>2, <2>3 DEF ParseAwait, Operating
<1>16. ParseLambdaBody => Operating
  <2>1. ParseLambdaBody => Top.at \in OperatorAt
    BY DEF ParseLambdaBody, At, OperatorAt, InfixAt, CloseAt
  <2>2. ASSUME Call([at |-> "Lambda.body", saved |-> context], Expr(COND)) PROVE Operates
    <3> DEFINE f == [at |-> "Lambda.body", saved |-> context]
    <3>1. f.at = "Lambda.body"
      OBVIOUS
    <3> HIDE DEF f
    <3>2. Bound(f) = COND /\ COND \in 2..14
      BY <3>1 DEF Bound, COND
    <3> QED BY <1>13, <2>2, <3>1, <3>2 DEF f
  <2>3. ASSUME At("Lambda.body"), Stay, Return(Node("LAMBDA", 15)) PROVE Operates
    <3>1. ret' = Node("LAMBDA", 15)
      BY <2>3 DEF Return
    <3>2. Answers
      BY <2>3, <3>1, OperandRead
    <3>3. IsNode(Node("LAMBDA", 15))
      BY TheNodes
    <3> QED BY <2>3, <3>2, <3>3, CallsOperate
  <2> QED BY <2>1, <2>2, <2>3 DEF ParseLambdaBody, Operating
<1> QED BY ONLY <1>1, <1>2, <1>3, <1>4, <1>5, <1>6, <1>9, <1>10, <1>11, <1>12, <1>14, <1>15, <1>16
       DEF OtherOperator

----------------------------------------------------------------------------
(* One step of the parser, seen from the frame it leaves on top.           *)

\* What a step leaves is tidy, and what it returned or called is what the frame waits for.
TableNext == /\ Tidy(stack') /\ IsNode(ret')
             /\ ~flawed' => AllLeft(stack') /\ (Len(stack') >= 1 => Got(stack'[Len(stack')], ret', cur', ahead'))
TableNow  == /\ Tidy(stack) /\ IsNode(ret) /\ Len(stack) >= 1
             /\ ~flawed' => AllLeft(stack) /\ Got(Top, ret, cur, ahead)

\* Frames that wait for no operand.
LEMMA NothingToGet ==
  ASSUME NEW f, f.at \notin WaitAt \cup {"Fold"}, NEW n, NEW tok, NEW peek
  PROVE  Got(f, n, tok, peek)
BY DEF Got

LEMMA LooseStep == TableNow /\ Loose => TableNext
<1> SUFFICES ASSUME TableNow, Loose PROVE TableNext
  OBVIOUS
<1>0. WaitAt \subseteq OperatorAt /\ InfixAt \subseteq OperatorAt
  BY DEF WaitAt, OperatorAt, InfixAt
<1>1. /\ Shaped(Top) /\ Stands(Top) /\ Tidy(Pop(stack)) /\ Len(Pop(stack)) = Len(stack) - 1 /\ Len(stack) \in Nat
      /\ AllLeft(stack) => AllLeft(Pop(stack))
      /\ Len(stack) > 1 => Pop(stack)[Len(Pop(stack))] = Under
  BY TidyReplaced DEF TableNow, Tidy
<1>2. Len(stack) > 1 => Pausing(Under) /\ Under.at \notin WaitAt \cup {"Fold"}
  BY <1>1 DEF Stands, Above, Loose
<1>3. ASSUME NEW f, Free(f)
      PROVE  /\ Stands(f) /\ LeftBinds(f) /\ Shaped(f)
             /\ \A n, tok, peek : Got(f, n, tok, peek)
             /\ Pausing(f) => \A g : Above(f, g)
  BY <1>0, <1>2, <1>3, NothingToGet DEF Free, Stands, Above, LeftBinds
<1>4. CASE stack' = Pop(stack)
  <2>1. Len(stack) > 1 => Got(Under, ret', cur', ahead')
    BY <1>2, NothingToGet
  <2>2. Len(stack') >= 1 => Len(stack) > 1
    BY <1>1, <1>4
  <2> QED BY <1>1, <1>4, <2>1, <2>2 DEF TableNext, TableNow, Loose, Loosely
<1>5. ASSUME NEW f, Free(f), stack' = Append(Pop(stack), f) PROVE TableNext
  <2>1. Tidy(stack') /\ stack'[Len(stack')] = f /\ (AllLeft(stack) => AllLeft(stack'))
    BY <1>3, <1>5, TidyReplaced DEF TableNow
  <2> QED BY <1>3, <1>5, <2>1 DEF TableNext, TableNow, Loose, Loosely
<1>6. ASSUME NEW f, NEW g, Free(f), Free(g), Pausing(f), stack' = Pop(stack) \o <<f, g>> PROVE TableNext
  <2>1. Stands(f) /\ Shaped(g) /\ Above(f, g) /\ LeftBinds(f) /\ LeftBinds(g)
    BY <1>3, <1>6
  <2>2. Tidy(stack') /\ stack'[Len(stack')] = g /\ (AllLeft(stack) => AllLeft(stack'))
    BY <1>6, <2>1, TidyReplaced DEF TableNow
  <2> QED BY <1>3, <1>6, <2>2 DEF TableNext, TableNow, Loose, Loosely
<1> QED BY <1>4, <1>5, <1>6 DEF Loose, Loosely

LEMMA OperatingStep == TableNow /\ Operating => TableNext
<1> SUFFICES ASSUME TableNow, Operating PROVE TableNext
  OBVIOUS
<1>0. /\ WaitAt \subseteq OperatorAt /\ InfixAt \subseteq OperatorAt
      /\ \A a \in OperatorAt : a \notin ExprAt
      /\ "Fold" \in ExprAt /\ "Expr" \in ExprAt
      /\ \A a \in ExprAt : a \notin OperatorAt \cup InfixAt \cup WaitAt \cup CloseAt \cup ItemsAt
  BY DEF WaitAt, OperatorAt, InfixAt, CloseAt, ExprAt, ItemsAt
<1>1. /\ Shaped(Top) /\ Stands(Top) /\ Tidy(Pop(stack)) /\ Len(Pop(stack)) = Len(stack) - 1 /\ Len(stack) \in Nat
      /\ AllLeft(stack) => AllLeft(Pop(stack)) /\ LeftBinds(Top)
      /\ Len(stack) > 1 => Pop(stack)[Len(Pop(stack))] = Under
  BY TidyReplaced DEF TableNow, Tidy
<1>2. Len(stack) > 1 => Shaped(Under)
  <2>1. Len(stack) > 1 => Len(Pop(stack)) \in 1..Len(Pop(stack))
    BY <1>1
  <2> QED BY <1>1, <2>1 DEF Tidy
<1>3. Len(stack) > 1 => /\ Pausing(Under) /\ Under.at \notin WaitAt
                        /\ Under.at = "Fold" => Under.min \in 2..14
                        /\ Under.at = "Fold" /\ Top.at \in InfixAt => Prec[Top.op] >= Under.min
  BY <1>0, <1>1, <1>2 DEF Stands, Above, Operating, Shaped
<1>4. ASSUME NEW f, Keeps(f)
      PROVE  Stands(f) /\ Shaped(f) /\ (LeftBinds(Top) => LeftBinds(f))
  <2>1. ASSUME Len(stack) > 1 PROVE Above(Under, f)
    <3>1. Under.at = "Fold" /\ f.at = "Conditional.end" => Under.min = COND
      BY <1>3, <1>4, <2>1 DEF Keeps, COND
    <3> QED BY <1>0, <1>3, <1>4, <2>1, <3>1 DEF Keeps, Above
  <2>2. Shaped(f)
    BY <1>4 DEF Keeps
  <2>3. LeftBinds(Top) => LeftBinds(f)
    BY <1>4 DEF Keeps, LeftBinds
  <2> QED BY <2>1, <2>2, <2>3 DEF Stands
<1>5. ASSUME stack' = Pop(stack), ret'.level <= 2 \/ Answers PROVE TableNext
  <2>1. ASSUME ~flawed', Len(stack) > 1 PROVE Got(Under, ret', cur', ahead')
    <3>1. CASE Under.at # "Fold"
      BY <1>3, <2>1, <3>1, NothingToGet
    <3>2. CASE Under.at = "Fold" /\ ret'.level <= 2
      <4>1. ret'.level \in 1..2
        BY <3>2 DEF Operating, Operates, IsNode
      <4>2. ~\E t \in DOMAIN Prec : Prec[t] >= 15
        BY Tables
      <4>3. Rests(ret', cur', ahead')
        BY <4>1, <4>2, Tables DEF Rests, Quiet
      <4>4. Binds(ret', 16 - Under.min)
        BY <1>3, <2>1, <3>2, <4>1, SMTT(40) DEF Binds
      <4> QED BY <1>3, <2>1, <4>3, <4>4 DEF Got
    <3>3. CASE Under.at = "Fold" /\ Answers
      <4>1. Claimed
        BY <1>1, <1>2, <2>1, <3>3 DEF Claimed, TableNow
      <4>2. Binds(ret', 16 - Under.min) /\ Rests(ret', cur', ahead')
        BY <3>3, <4>1 DEF Answers
      <4> QED BY <1>3, <2>1, <4>2 DEF Got
    <3> QED BY <1>5, <3>1, <3>2, <3>3
  <2>2. Len(stack') >= 1 => Len(stack) > 1
    BY <1>1, <1>5
  <2> QED BY <1>1, <1>5, <2>1, <2>2 DEF TableNext, TableNow, Operating, Operates
<1>6. ASSUME NEW f, Keeps(f), f.at \notin WaitAt, stack' = Append(Pop(stack), f) PROVE TableNext
  <2>1. Tidy(stack') /\ stack'[Len(stack')] = f /\ (AllLeft(stack) => AllLeft(stack'))
    BY <1>1, <1>4, <1>6, TidyReplaced DEF TableNow
  <2>2. f.at \notin WaitAt \cup {"Fold"}
    BY <1>0, <1>6 DEF Keeps
  <2> QED BY <1>6, <2>1, <2>2, NothingToGet DEF TableNext, TableNow, Operating, Operates
<1>7. ASSUME NEW f, NEW m \in 2..14, Keeps(f), Pausing(f), f.at \in WaitAt => m = Bound(f),
             stack' = Pop(stack) \o <<f, Expr(m)>>
      PROVE  TableNext
  <2> DEFINE g == Expr(m)
  <2>1. g.at = "Expr" /\ g.min = m /\ Shaped(g)
    <3>1. Free(g)
      BY FreeFrames
    <3> QED BY <3>1 DEF Expr, Free
  <2>2. stack' = Pop(stack) \o <<f, g>>
    BY <1>7
  <2> HIDE DEF g
  <2>3. Above(f, g) /\ LeftBinds(g) /\ g.at \notin WaitAt \cup {"Fold"}
    BY <1>0, <1>7, <2>1 DEF Above, Keeps, LeftBinds
  <2>4. Tidy(stack') /\ stack'[Len(stack')] = g /\ (AllLeft(stack) => AllLeft(stack'))
    BY <1>1, <1>4, <1>7, <2>1, <2>2, <2>3, TidyReplaced DEF TableNow
  <2> QED BY <2>3, <2>4, NothingToGet DEF TableNext, TableNow, Operating, Operates
<1> QED BY <1>5, <1>6, <1>7 DEF Operating, Operates

LEMMA PrecedenceStep == TableNow /\ ~Peeks /\ ParsePrecedence /\ flawed' = (flawed \/ ret'.kind = "INVALID") => TableNext
<1> SUFFICES ASSUME TableNow, ~Peeks, ParsePrecedence, flawed' = (flawed \/ ret'.kind = "INVALID") PROVE TableNext
  OBVIOUS
<1>0. /\ \A a \in OperatorAt : a \notin ExprAt
      /\ \A a \in ExprAt : a \notin OperatorAt \cup InfixAt \cup WaitAt \cup CloseAt \cup ItemsAt \cup LeadAt
      /\ "Fold" \in ExprAt /\ "Expr" \in ExprAt /\ "FString" \notin ExprAt /\ "Fold" \notin WaitAt
      /\ InfixAt \subseteq OperatorAt
  BY DEF WaitAt, OperatorAt, InfixAt, CloseAt, ExprAt, ItemsAt, LeadAt
<1>1. /\ Shaped(Top) /\ Stands(Top) /\ Tidy(Pop(stack)) /\ Len(Pop(stack)) = Len(stack) - 1 /\ Len(stack) \in Nat
      /\ AllLeft(stack) => AllLeft(Pop(stack))
      /\ Len(stack) > 1 => Pop(stack)[Len(Pop(stack))] = Under
  BY TidyReplaced DEF TableNow, Tidy
<1>2. Top.at \in ExprAt /\ Has(Top, {"at", "min"}) /\ Top.min \in 2..14
  BY <1>0, <1>1 DEF ParsePrecedence, At, Shaped
<1>3. Len(stack) > 1 => /\ Pausing(Under) /\ Under.at # "Fold"
                        /\ Under.at \in WaitAt => Bound(Under) = Top.min
  BY <1>0, <1>1, <1>2 DEF Stands, Above
<1>4. /\ Stands(Go("Fold")) /\ Go("Fold").at = "Fold" /\ Go("Fold").min = Top.min /\ Pausing(Go("Fold"))
      /\ LeftBinds(Go("Fold"))
  <2> DEFINE f == [Top EXCEPT !.at = "Fold"]
  <2>1. Has(f, {"at", "min"}) /\ f.at = "Fold" /\ f.min = Top.min
    BY <1>2 DEF Has
  <2> HIDE DEF f
  <2>2. Shaped(f) /\ Pausing(f) /\ LeftBinds(f)
    BY <1>0, <1>2, <2>1 DEF Shaped, Pausing, LeftBinds
  <2>3. Len(stack) > 1 => Above(Under, f)
    BY <1>0, <1>3, <2>1 DEF Above
  <2>4. Stands(f) /\ f.at = "Fold" /\ f.min = Top.min /\ Pausing(f) /\ LeftBinds(f)
    BY <2>1, <2>2, <2>3 DEF Stands
  <2> QED BY <2>4 DEF f, Go
<1>5. CASE At("Expr") /\ Return(Invalid)
  <2>1. flawed' /\ IsNode(ret') /\ stack' = Pop(stack)
    BY <1>5, TheNodes DEF Return, Invalid, Node
  <2> QED BY <1>1, <2>1 DEF TableNext
<1>6. ASSUME NEW n, IsNode(n), n.level = 1, Yield(Go("Fold"), n) PROVE TableNext
  <2>1. stack' = Append(Pop(stack), Go("Fold")) /\ ret' = n
    BY <1>6 DEF Yield
  <2>2. Tidy(stack') /\ stack'[Len(stack')] = Go("Fold") /\ (AllLeft(stack) => AllLeft(stack'))
    BY <1>4, <2>1, TidyReplaced DEF TableNow
  <2>3. Got(Go("Fold"), n, cur', ahead')
    <3>1. Rests(n, cur', ahead')
      BY <1>6, Tables DEF Rests, Quiet
    <3>2. Binds(n, 16 - Top.min)
      BY <1>2, <1>6 DEF Binds
    <3> QED BY <1>0, <1>4, <3>1, <3>2 DEF Got
  <2> QED BY <1>6, <2>1, <2>2, <2>3 DEF TableNext, TableNow
<1>7. ASSUME cur \in DOMAIN PrefixRule, Call(Go("Fold"), [at |-> PrefixRule[cur], op |-> cur]) PROVE TableNext
  <2> DEFINE g == [at |-> PrefixRule[cur], op |-> cur]
             f == Go("Fold")
  <2>1. g.at \in {"Grouping", "List", "Brace", "FString", "Await", "Lambda", "SelfSuper", "Unary"}
    BY <1>7 DEF PrefixRule
  <2> HIDE DEF g
  <2>2. /\ g.at \in OperatorAt
        /\ g.at \notin ExprAt \cup InfixAt \cup CloseAt \cup ItemsAt \cup WaitAt \cup {"Fold", "Conditional.end"}
    BY <2>1 DEF WaitAt, OperatorAt, InfixAt, CloseAt, ExprAt, ItemsAt
  <2>3. Stands(f) /\ LeftBinds(f) /\ f.at = "Fold" /\ Pausing(f)
    BY <1>4
  <2>4. stack' = Pop(stack) \o <<f, g>> /\ ret' = Nothing
    BY <1>7 DEF Call, g
  <2> HIDE DEF f
  <2>5. Shaped(g) /\ LeftBinds(g) /\ Above(f, g) /\ Got(g, ret', cur', ahead')
    BY <1>0, <2>2, <2>3, NothingToGet DEF Shaped, LeftBinds, Above
  <2>6. Tidy(stack') /\ stack'[Len(stack')] = g /\ (AllLeft(stack) => AllLeft(stack'))
    BY <2>3, <2>4, <2>5, TidyReplaced DEF TableNow
  <2> QED BY <2>4, <2>5, <2>6, TheNodes DEF TableNext, TableNow
<1>8. ASSUME At("Fold"), Folds, Call(Top, [at |-> InfixRule[cur], op |-> cur, operand |-> ret, args |-> 0])
      PROVE  TableNext
  <2> DEFINE g == [at |-> InfixRule[cur], op |-> cur, operand |-> ret, args |-> 0]
  <2>1. cur \in DOMAIN Prec /\ Prec[cur] >= Top.min /\ (cur = "not" => ahead = "in")
    BY <1>8 DEF Folds
  <2>2. /\ Has(g, {"at", "op", "operand", "args"}) /\ g.op = cur /\ g.operand = ret
        /\ g.at = InfixRule[cur]
    BY DEF Has
  <2>3. stack' = Pop(stack) \o <<Top, g>> /\ ret' = Nothing
    BY <1>8 DEF Call
  <2> HIDE DEF g
  <2>4. InfixRule[cur] \in {"Binary", "Logical", "Compare", "Conditional", "Call", "Index", "Attr"} /\ Prec[cur] \in 2..14
    BY <2>1, Tables
  <2>5. /\ g.at \in InfixAt /\ g.at \notin WaitAt \cup {"Fold", "Conditional.end"} \cup CloseAt \cup ItemsAt \cup ExprAt
        /\ Rule(g.at) = g.at
    BY <2>2, <2>4 DEF WaitAt, InfixAt, CloseAt, ExprAt, ItemsAt, Rule
  <2>6. Shaped(g)
    BY <2>1, <2>2, <2>5 DEF Shaped, TableNow
  <2>7. Pausing(Top)
    BY <1>0, <1>2 DEF Pausing
  <2>8. Above(Top, g)
    BY <1>0, <1>8, <2>1, <2>2, <2>5, <2>7 DEF Above, At
  <2>9. ASSUME ~flawed' PROVE LeftBinds(g) /\ LeftBinds(Top)
    <3>1. Rests(ret, cur, ahead)
      BY <1>8, <2>9 DEF TableNow, Got, At
    <3>2. ret.level \in 1..15
      BY DEF TableNow, IsNode
    <3>3. Prec[cur] < IF ret.level \in {3, 11, 14} THEN 16 - ret.level ELSE 17 - ret.level
      BY <2>1, <2>4, <3>1, <3>2 DEF Rests, Quiet
    <3>4. ret.level < 16 - Prec[cur] \/ (ret.level = 16 - Prec[cur] /\ Prec[cur] \notin {2, 5, 13})
      BY <2>4, <3>2, <3>3
    <3>5. LeftBinds(g)
      BY <2>2, <3>4 DEF LeftBinds, COND, COMP, POWER
    <3> QED BY <1>0, <1>2, <3>5 DEF LeftBinds
  <2>10. Tidy(stack') /\ stack'[Len(stack')] = g /\ (AllLeft(stack) /\ LeftBinds(Top) /\ LeftBinds(g) => AllLeft(stack'))
    BY <1>1, <2>3, <2>6, <2>8, TidyReplaced DEF TableNow
  <2>11. Got(g, ret', cur', ahead')
    BY <2>5, NothingToGet
  <2> QED BY <2>3, <2>9, <2>10, <2>11, TheNodes DEF TableNext, TableNow
<1>9. ASSUME At("Fold"), ~Folds, Stay, Return(ret) PROVE TableNext
  <2>1. stack' = Pop(stack) /\ ret' = ret /\ cur' = cur /\ ahead' = ahead
    BY <1>9, StayKeepsToken DEF Return
  <2>2. Quiet(Top.min, cur, ahead)
    <3>1. cur = "not" => Prec[cur] = COMP
      BY DEF Prec, COMP
    <3>2. cur = "not" /\ COMP >= Top.min => ahead # "none"
      BY <1>9 DEF Peeks
    <3> QED BY <1>9, <3>1, <3>2 DEF Folds, Quiet
  <2>3. ASSUME ~flawed', Len(stack) > 1 PROVE Got(Under, ret', cur', ahead')
    <3>1. Binds(ret, 16 - Top.min)
      BY <1>9, <2>3 DEF TableNow, Got, At
    <3> QED BY <1>3, <2>1, <2>2, <2>3, <3>1 DEF Got
  <2>4. Len(stack') >= 1 => Len(stack) > 1
    BY <1>1, <2>1
  <2> QED BY <1>1, <2>1, <2>3, <2>4 DEF TableNext, TableNow
<1>10. IsNode(Primary) /\ Primary.level = 1 /\ IsNode(Node("IDENT", 1)) /\ Node("IDENT", 1).level = 1
  BY TheNodes DEF Primary
<1>11. \A c : Yield(Go("Fold"), IF c THEN Node("IDENT", 1) ELSE Primary) => TableNext
  BY <1>6, <1>10
<1> QED BY ONLY ParsePrecedence, <1>5, <1>7, <1>8, <1>9, <1>11 DEF ParsePrecedence

\* Looking ahead takes back nothing that was settled.
LEMMA LookAheadStep == TableNow /\ Peeks /\ LookAhead => TableNext
<1> SUFFICES ASSUME TableNow, Peeks, LookAhead PROVE TableNext
  OBVIOUS
<1>1. cur' = cur /\ stack' = stack /\ ret' = ret /\ ahead = "none"
  BY DEF LookAhead, Peeks
<1>2. ASSUME NEW m, Quiet(m, cur, ahead) PROVE Quiet(m, cur', ahead')
  BY <1>1, <1>2 DEF Quiet
<1>3. ASSUME NEW f, NEW n, Got(f, n, cur, ahead) PROVE Got(f, n, cur', ahead')
  BY <1>2, <1>3 DEF Got, Rests
<1> QED BY <1>1, <1>3 DEF TableNext, TableNow, Top

LEMMA TableInit == Init => TableInv
<1> SUFFICES ASSUME Init PROVE Tidy(stack) /\ IsNode(ret) /\ AllLeft(stack) /\ Got(Top, ret, cur, ahead)
  BY DEF TableInv
<1> DEFINE f == F("Start")
<1>1. stack = <<f>> /\ ret = Nothing
  BY DEF Init
<1>2. Shaped(f) /\ LeftBinds(f) /\ f.at = "Start" /\ f.at \notin WaitAt \cup {"Fold"}
  BY DEF Shaped, LeftBinds, WaitAt, F, ExprAt, InfixAt, CloseAt, ItemsAt
<1> HIDE DEF f
<1>3. IsSeq(stack) /\ Len(stack) = 1 /\ stack[1] = f
  <2>1. <<f>> \in Seq({f}) /\ Len(<<f>>) = 1 /\ <<f>>[1] = f
    OBVIOUS
  <2> QED BY <1>1, <2>1 DEF IsSeq
<1>4. Tidy(stack) /\ AllLeft(stack) /\ Top = f
  BY <1>2, <1>3 DEF Tidy, AllLeft, Top
<1> QED BY <1>1, <1>2, <1>4, TheNodes, NothingToGet

LEMMA TableStep == ContextInv /\ TableInv /\ [Next]_vars => TableInv'
<1> SUFFICES ASSUME ContextInv, TableInv, [Next]_vars, Running' PROVE TableInv'
  BY DEF TableInv
<1>1. CASE Parse
  <2>1. /\ Settled(stack, context) /\ Len(stack) >= 1 /\ (flawed' = (flawed \/ ret'.kind = "INVALID"))
        /\ IF Peeks THEN LookAhead ELSE ParseExpression \/ ParseQuietly \/ ParseInContext
    BY <1>1 DEF Parse, ContextInv, SilenceInv, Outermost
  <2>2. Carries(Top) /\ TableNow
    BY <1>1, <2>1, Found DEF Parse, TableInv, TableNow
  <2>3. Shaped(Top) /\ IsNode(ret)
    BY <2>2, TidyReplaced DEF TableNow
  <2>4. ASSUME Peeks PROVE TableNext
    BY <2>1, <2>2, <2>4, LookAheadStep
  <2>5. ASSUME ~Peeks, ParseExpression PROVE TableNext
    <3>1. CASE ParsePrecedence
      BY <2>1, <2>2, <2>5, <3>1, PrecedenceStep
    <3>2. CASE ParseBinary \/ ParseLogical \/ ParseCall \/ ParseCompareChain \/ ParseConditional
      BY <2>2, <2>3, <2>5, <3>2, InfixOperates, OperatingStep
    <3>3. CASE \/ ParseGrouping \/ ParseUnary \/ ParseIndexOrSlice \/ ParseAttr \/ ParseAwait \/ ParseSelfSuper
               \/ ParseLambdaParams \/ ParseComprehensionClauses \/ ParseElements
               \/ ParseListOrComprehension \/ ParseBraceLiteral \/ ParseFString
      BY <2>2, <2>3, <2>5, <3>3, OthersOperate, OperatingStep DEF OtherOperator
    <3> QED BY <2>5, <3>1, <3>2, <3>3 DEF ParseExpression
  <2>6. ASSUME ~Peeks, ParseInContext PROVE TableNext
    <3>1. CASE ParseLambdaBody
      BY <2>2, <2>3, <2>6, <3>1, OthersOperate, OperatingStep DEF OtherOperator
    <3>2. CASE ParseFuncBody \/ ParseClassEnds \/ ParseLoop
      BY <2>2, <2>3, <3>2, BodiesLoose, LooseStep
    <3> QED BY <2>6, <3>1, <3>2 DEF ParseInContext
  <2>7. ASSUME ~Peeks, ParseQuietly PROVE TableNext
    <3>1. CASE InnerStatement
      BY <2>2, <2>3, <3>1, StatementLoose, LooseStep
    <3>2. CASE ParseStatement \/ ParseStatementEnd \/ Synchronize \/ Advancing \/ ParseNext
      BY <2>2, <2>3, <3>2, OuterLoose, LooseStep
    <3> QED BY <2>7, <3>1, <3>2 DEF ParseQuietly, InnerStatement
  <2>8. TableNext
    BY <2>1, <2>4, <2>5, <2>6, <2>7
  <2> QED BY <2>8 DEF TableNext, TableInv, Top
<1>2. CASE Refuse
  BY <1>2 DEF Refuse, Running
<1>3. CASE Finish
  BY <1>3 DEF Finish, Running
<1>4. CASE Ended \/ UNCHANGED vars
  BY <1>4 DEF Ended, vars, input, TableInv, Running, Top
<1> QED BY <1>1, <1>2, <1>3, <1>4 DEF Next

LEMMA TableImplied == ContextInv /\ TableInv => FollowsTable
<1> SUFFICES ASSUME ContextInv, TableInv, Running, ~flawed PROVE FollowsTable
  BY DEF FollowsTable
<1>1. Tidy(stack) /\ AllLeft(stack) /\ Len(stack) >= 1 /\ Got(Top, ret, cur, ahead)
  BY DEF TableInv, ContextInv, SilenceInv, Outermost
<1>2. Shaped(Top) /\ LeftBinds(Top)
  BY <1>1, TidyReplaced
<1>3. ASSUME Top.at \in InfixAt
      PROVE  /\ Top.op \in DOMAIN Prec /\ InfixRule[Top.op] = Rule(Top.at) /\ Top.operand.level \in 1..15
             /\ Level[Top.op] = 16 - Prec[Top.op] /\ Prec[Top.op] \in 2..14
             /\ \/ Top.operand.level < 16 - Prec[Top.op]
                \/ Top.operand.level = 16 - Prec[Top.op] /\ Prec[Top.op] \notin {2, 5, 13}
  <2>1. Top.op \in DOMAIN Prec /\ InfixRule[Top.op] = Rule(Top.at) /\ Top.operand.level \in 1..15
    BY <1>2, <1>3 DEF Shaped, IsNode
  <2>2. Level[Top.op] = 16 - Prec[Top.op] /\ Prec[Top.op] \in 2..14
    BY <2>1, Tables
  <2> QED BY <1>2, <1>3, <2>1, <2>2 DEF LeftBinds, COND, COMP, POWER
<1>4. Top.at \in WaitAt => Binds(ret, 16 - Bound(Top))
  BY <1>1 DEF Got
<1>5. ASSUME At("Binary.right") \/ At("Logical.right")
      PROVE  LET level == Level[Top.op]
             IN  IF Top.op = "**" THEN Top.operand.level < level /\ Binds(ret, level)
                 ELSE Top.operand.level <= level /\ Binds(ret, level - 1)
  <2>1. Top.at \in InfixAt /\ Top.at \in WaitAt /\ Rule(Top.at) \in {"Binary", "Logical"}
        /\ (Rule(Top.at) = "Binary" <=> At("Binary.right"))
    BY <1>5 DEF At, InfixAt, WaitAt, Rule
  <2>2. (Top.op = "**" => Prec[Top.op] = 13) /\ (At("Logical.right") => Prec[Top.op] \in {3, 4})
    <3>1. Prec["**"] = 13 /\ "**" \in DOMAIN Prec
      BY DEF Prec, POWER
    <3> QED BY <1>3, <2>1, <3>1, Tables, <1>5 DEF At
  <2>3. Bound(Top) = IF Top.op = "**" THEN 13 ELSE Prec[Top.op] + 1
    BY <1>5, <2>2 DEF Bound, At, POWER
  <2> QED BY <1>3, <1>4, <2>1, <2>2, <2>3 DEF Binds
<1>6. ASSUME At("Compare.link") PROVE Top.operand.level < 11 /\ Binds(ret, 10)
  <2>1. Top.at \in InfixAt /\ Top.at \in WaitAt /\ Rule(Top.at) = "Compare" /\ Bound(Top) = 6
    BY <1>6 DEF At, InfixAt, WaitAt, Rule, Bound, COMP
  <2>2. Prec[Top.op] = 5
    BY <1>3, <2>1, Tables
  <2> QED BY <1>3, <1>4, <2>1, <2>2
<1>7. ASSUME At("Conditional.else") PROVE Top.operand.level < 14 /\ Binds(ret, 13)
  <2>1. Top.at \in InfixAt /\ Top.at \in WaitAt /\ Rule(Top.at) = "Conditional" /\ Bound(Top) = 3
    BY <1>7 DEF At, InfixAt, WaitAt, Rule, Bound, OR
  <2>2. Prec[Top.op] = 2
    BY <1>3, <2>1, Tables
  <2> QED BY <1>3, <1>4, <2>1, <2>2
<1>8. ASSUME At("Call") \/ At("Index") \/ At("Attr") PROVE Top.operand.level <= 2
  <2>1. Top.at \in InfixAt /\ Rule(Top.at) \in {"Call", "Index", "Attr"}
    BY <1>8 DEF At, InfixAt, Rule
  <2>2. Prec[Top.op] = 14
    BY <1>3, <2>1, Tables
  <2> QED BY <1>3, <2>1, <2>2
<1>9. /\ At("Conditional.end") => Binds(ret, 14)
      /\ At("Unary.operand") => Binds(ret, 3)
      /\ At("Await.end") => Binds(ret, 2)
  <2>1. ASSUME Top.at \in {"Conditional.end", "Unary.operand", "Await.end"}
        PROVE  /\ Top.at \in WaitAt
               /\ Bound(Top) = IF At("Conditional.end") THEN 2 ELSE IF At("Unary.operand") THEN 13 ELSE 14
    BY <2>1 DEF At, WaitAt, Bound, COND, UNARY, POST
  <2> QED BY <1>4, <2>1 DEF At
<1> QED BY <1>5, <1>6, <1>7, <1>8, <1>9 DEF FollowsTable

\* Whatever the text: each operation whose operands were read without error binds them as the
\* table of docs/language/03-syntax.md, section 6, wants, however the operators, the
\* brackets and the statements around it are nested (parsePrecedence and its infix rules).
THEOREM OperatorsFollowTable == Spec => []FollowsTable
<1>1. ContextInv /\ TableInv /\ [Next]_vars => (ContextInv /\ TableInv)'
  BY ContextStep, TableStep
<1>2. Spec => [](ContextInv /\ TableInv)
  BY ContextInit, TableInit, <1>1, PTL DEF Spec
<1> QED BY <1>2, TableImplied, PTL

----------------------------------------------------------------------------
(* What the scanner makes of the brackets that are open.                     *)

Ends(b, k)  == b # <<>> /\ b[Len(b)] = k
Braces(b)   == {i \in DOMAIN b : b[i] \in {"{", "i"}}
Last(S)     == CHOOSE i \in S : \A j \in S : j <= i
After(b, t) ==
  CASE t \in {"(", "["} -> Append(b, t)
    [] t = "{"          -> Append(b, IF Ends(b, "f") THEN "i" ELSE "{")
    [] t = "fstart"     -> Append(b, "f")
    [] t = "fend"       -> Pop(b)
    [] t = "}" /\ Braces(b) # {} -> SubSeq(b, 1, Last(Braces(b)) - 1)
    [] t \in DOMAIN Opener -> IF Ends(b, Opener[t]) THEN Pop(b) ELSE b
    [] OTHER            -> b
TearsAt(b, t) == \/ t \in DOMAIN Opener /\ After(b, t) = b
                 \/ t = "}" /\ b[Len(b)] \notin {"{", "i"}

LEMMA AfterNest == \A t : NestAfter(t) = After(nest, t) /\ Tears(t) = TearsAt(nest, t)
<1>1. ASSUME NEW t PROVE NestAfter(t) = After(nest, t)
  BY DEF NestAfter, After, InText, Ends, OpenBraces, Braces, Last
<1>2. ASSUME NEW t PROVE Tears(t) = TearsAt(nest, t)
  BY <1>1 DEF Tears, TearsAt
<1> QED BY <1>1, <1>2

\* A set of positions that is not empty has a last one.
LEMMA LastIn ==
  ASSUME NEW n \in Nat, NEW S, S \subseteq 1..n, S # {}
  PROVE  Last(S) \in S /\ \A j \in S : j <= Last(S)
<1> DEFINE D == {n - i : i \in S}
<1>1. D \subseteq Nat /\ D # {}
  <2>1. \A i \in S : i \in 1..n /\ n - i \in Nat
    OBVIOUS
  <2>2. PICK i \in S : TRUE
    OBVIOUS
  <2>3. n - i \in D
    BY <2>2
  <2> QED BY <2>1, <2>3
<1>2. PICK d \in D : \A e \in D : d <= e
  BY <1>1, NatLeast
<1>3. PICK i \in S : d = n - i
  BY <1>2
<1>4. ASSUME NEW j \in S PROVE j <= i
  <2>1. n - j \in D
    OBVIOUS
  <2>2. d <= n - j
    BY <1>2, <2>1
  <2> QED BY <1>3, <2>2
<1> QED BY <1>3, <1>4 DEF Last

LEMMA PopIsSeq == ASSUME NEW b, IsSeq(b) PROVE IsSeq(Pop(b))
<1>1. PICK S : b \in Seq(S)
  BY DEF IsSeq
<1>2. CASE Len(b) >= 1
  BY <1>2, PopFacts
<1>3. CASE Len(b) = 0
  <2>1. b = <<>>
    BY <1>1, <1>3
  <2>2. SubSeq(b, 1, 0 - 1) \in Seq({})
    BY <2>1
  <2> QED BY <1>3, <2>2 DEF Pop, IsSeq
<1> QED BY <1>1, <1>2, <1>3

LEMMA AfterIsSeq == ASSUME NEW b, IsSeq(b), NEW t PROVE IsSeq(After(b, t))
<1>1. PICK S : b \in Seq(S)
  BY DEF IsSeq
<1>2. ASSUME NEW x PROVE IsSeq(Append(b, x))
  BY PushFacts
<1>3. IsSeq(Pop(b))
  BY PopIsSeq
<1>4. ASSUME Braces(b) # {} PROVE IsSeq(SubSeq(b, 1, Last(Braces(b)) - 1))
  <2> DEFINE m == Last(Braces(b))
  <2>1. Braces(b) \subseteq 1..Len(b) /\ Len(b) \in Nat
    <3>1. DOMAIN b = 1..Len(b) /\ Len(b) \in Nat
      BY <1>1
    <3> QED BY ONLY <3>1 DEF Braces
  <2>2. m \in 1..Len(b)
    BY <1>4, <2>1, LastIn
  <2> HIDE DEF m
  <2>3. SubSeq(b, 1, m - 1) \in Seq(S)
    BY <1>1, <2>2
  <2> QED BY <2>3 DEF IsSeq, m
<1> QED BY <1>2, <1>3, <1>4 DEF After

\* What no bracket is changes nothing.
Brackets == {"(", ")", "[", "]", "{", "}", "fstart", "fend"}
LEMMA AfterNeutral ==
  ASSUME NEW b, NEW t, t \notin Brackets
  PROVE  After(b, t) = b /\ ~TearsAt(b, t)
BY DEF After, TearsAt, Brackets, Opener

LEMMA ScanNests ==
  ASSUME NEW s, Scan(s)
  PROVE  nest' = After(nest, s.token) /\ (torn' <=> torn \/ TearsAt(nest, s.token))
<1>1. CASE s.token = "INVALID"
  <2>1. "INVALID" \notin Brackets
    BY DEF Brackets
  <2>2. After(nest, s.token) = nest /\ ~TearsAt(nest, s.token)
    BY <1>1, <2>1, AfterNeutral
  <2>3. nest' = nest /\ (torn' <=> torn)
    BY <1>1 DEF Scan
  <2> QED BY ONLY <2>2, <2>3
<1>2. CASE s.token # "INVALID"
  BY <1>2, AfterNest DEF Scan
<1> QED BY <1>1, <1>2

\* A token that was not read ahead is scanned when it is taken.
Peeked == ahead \notin {"none", "INVALID"}
Takes(s) == /\ cur' = s.token /\ ahead' = "none"
            /\ IF Peeked THEN UNCHANGED <<script, left, nest, torn>> ELSE Scan(s)
Taken == /\ ahead' = "none"
         /\ Peeked => cur' = ahead /\ nest' = nest /\ (torn' <=> torn)
         /\ ~Peeked => nest' = After(nest, cur') /\ (torn' <=> torn \/ TearsAt(nest, cur'))
LEMMA TakesNest ==
  ASSUME NEW d, NEW s \in Arriving(d), Takes(s)
  PROVE  Taken
<1>1. CASE Peeked
  BY <1>1 DEF Peeked, Arriving, Scanned, Takes, Taken
<1>2. CASE ~Peeked
  BY <1>2, ScanNests DEF Takes, Taken
<1> QED BY <1>1, <1>2

LEMMA ReadNests ==
  ASSUME NEW before, NEW take, NEW after, Read(before, take, after)
  PROVE  /\ ~take => UNCHANGED input
         /\ take => Taken
<1>1. CASE take
  <2>1. PICK s \in Arriving(Counted(diags, before)) :
          /\ cur' = s.token /\ ahead' = "none"
          /\ IF ahead \notin {"none", "INVALID"} THEN UNCHANGED <<script, left, nest, torn>> ELSE Scan(s)
    BY <1>1 DEF Read
  <2>2. Takes(s)
    BY <2>1 DEF Takes, Peeked
  <2> QED BY <1>1, <2>2, TakesNest
<1>2. CASE ~take
  BY <1>2 DEF Read
<1> QED BY <1>1, <1>2

----------------------------------------------------------------------------
(* The list of diagnostics only grows, and is longer than at entry while the *)
(* parser panics.                                                            *)

Counting == /\ IsSeq(nest) /\ atEntry \in {0, 1} /\ diags \in atEntry..MaxDiags
            /\ panic => diags > atEntry
CountInv == Running => Counting

LEMMA OpenStringsCount ==
  ASSUME IsSeq(nest) PROVE Cardinality(OpenStrings) \in Nat
<1>1. PICK S : nest \in Seq(S)
  BY DEF IsSeq
<1>2. DOMAIN nest = 1..Len(nest) /\ Len(nest) \in Nat
  BY <1>1
<1>3. OpenStrings \subseteq 1..Len(nest)
  BY ONLY <1>2 DEF OpenStrings
<1>4. IsFiniteSet(1..Len(nest))
  BY <1>2, FS_Interval
<1> QED BY <1>3, <1>4, FS_Subset, FS_CardinalityType

LEMMA SoundCounts ==
  ASSUME IsSeq(nest), NEW d \in 0..MaxDiags, NEW ends, NEW s \in Sound(d, ends)
  PROVE  s.diags \in d..MaxDiags
<1> DEFINE c == Cardinality(OpenStrings)
<1>1. c \in Nat /\ MaxDiags \in Nat
  BY OpenStringsCount, ParserAssumption
<1> HIDE DEF c
<1>2. \A t, n : Scanned(t, d, n).diags = d
  BY DEF Scanned
<1>3. \A t, n : Scanned(t, Least(MaxDiags, d + c), n).diags = Least(MaxDiags, d + c)
  BY DEF Scanned
<1>4. Least(MaxDiags, d + c) \in d..MaxDiags /\ d \in d..MaxDiags
  BY <1>1 DEF Least
<1>5. s.diags \in {d, Least(MaxDiags, d + c)}
  BY <1>2, <1>3 DEF Sound, c
<1> QED BY <1>4, <1>5

LEMMA BrokenCounts ==
  ASSUME NEW d \in 0..MaxDiags, NEW s \in Broken(d)
  PROVE  s.diags \in d..MaxDiags
<1>1. MaxDiags \in Nat
  BY ParserAssumption
<1>2. s.diags = d \/ (d # MaxDiags /\ s.diags = d + 1)
  BY DEF Broken, Scanned
<1> QED BY <1>1, <1>2

LEMMA SkippedCounts ==
  ASSUME NEW d \in 0..MaxDiags, NEW e \in Skipped(d)
  PROVE  e \in d..MaxDiags
<1>1. MaxDiags \in Nat
  BY ParserAssumption
<1>2. e \in (d + 1)..MaxDiags
  BY DEF Skipped
<1> QED BY <1>1, <1>2

LEMMA ArrivingCounts ==
  ASSUME IsSeq(nest), NEW d \in 0..MaxDiags, NEW s \in Arriving(d)
  PROVE  s.diags \in d..MaxDiags
<1>1. MaxDiags \in Nat /\ d \in d..MaxDiags
  BY ParserAssumption
<1>2. CASE s.diags = d
  BY <1>1, <1>2
<1>3. CASE \E end : s \in Sound(d, end)
  BY <1>3, SoundCounts
<1>4. CASE \E e \in Skipped(d) : s \in Sound(e, FALSE)
  <2>1. PICK e \in Skipped(d) : s \in Sound(e, FALSE)
    BY <1>4
  <2>2. e \in d..MaxDiags
    BY <1>1, <2>1, SkippedCounts
  <2>3. e \in 0..MaxDiags
    BY <1>1, <2>2
  <2>4. s.diags \in e..MaxDiags
    BY <2>1, <2>3, SoundCounts
  <2> QED BY <1>1, <2>2, <2>4
<1>5. CASE \E e \in {d} \cup Skipped(d) : s \in Broken(e)
  <2>1. PICK e \in {d} \cup Skipped(d) : s \in Broken(e)
    BY <1>5
  <2>2. e \in d..MaxDiags
    BY <1>1, <2>1, SkippedCounts
  <2>3. e \in 0..MaxDiags
    BY <1>1, <2>2
  <2>4. s.diags \in e..MaxDiags
    BY <2>1, <2>3, BrokenCounts
  <2> QED BY <1>1, <2>2, <2>4
<1>6. \/ s = Scanned(ahead, d, left)
      \/ \E end : s \in Sound(d, end)
      \/ \E e \in Skipped(d) : s \in Sound(e, FALSE)
      \/ \E e \in {d} \cup Skipped(d) : s \in Broken(e)
  <2>1. CASE Peeked
    BY <2>1 DEF Arriving, Peeked
  <2>2. CASE ~Peeked
    <3> DEFINE scans == Sound(d, cur \in Enders /\ ahead = "none")
               later == UNION {Sound(e, FALSE) : e \in Skipped(d)}
               ends  == {b \in UNION {Broken(e) : e \in {d} \cup Skipped(d)} : b.token = "EOF"}
    <3>1. s \in scans \/ s \in later \/ s \in ends
      BY <2>2 DEF Arriving, Peeked
    <3>2. s \in scans => \E end : s \in Sound(d, end)
      OBVIOUS
    <3>3. s \in later => \E e \in Skipped(d) : s \in Sound(e, FALSE)
      OBVIOUS
    <3>4. s \in ends => \E e \in {d} \cup Skipped(d) : s \in Broken(e)
      OBVIOUS
    <3> HIDE DEF scans, later, ends
    <3> QED BY <3>1, <3>2, <3>3, <3>4
  <2> QED BY <2>1, <2>2
<1>7. Scanned(ahead, d, left).diags = d
  BY DEF Scanned
<1> QED BY <1>2, <1>3, <1>4, <1>5, <1>6, <1>7

\* Reading reports at most, and what was reported stays.
LEMMA CountedMore ==
  ASSUME Counting, NEW d \in diags..MaxDiags, NEW report
  PROVE  /\ Counted(d, report) \in diags..MaxDiags
         /\ report => Counted(d, report) > atEntry
<1>1. MaxDiags \in Nat /\ MaxDiags > 1 /\ atEntry \in {0, 1} /\ diags \in atEntry..MaxDiags /\ (panic => diags > atEntry)
  BY ParserAssumption DEF Counting
<1>2. CASE report /\ ~panic
  BY <1>1, <1>2 DEF Counted, Least
<1>3. CASE ~(report /\ ~panic)
  <2>1. Counted(d, report) = d
    BY <1>3 DEF Counted
  <2> QED BY <1>1, <1>3, <2>1
<1> QED BY <1>2, <1>3

LEMMA TakenIsSeq == IsSeq(nest) /\ Taken => IsSeq(nest')
BY AfterIsSeq DEF Taken

LEMMA ReadCounts ==
  ASSUME Counting, NEW before, NEW take, NEW after,
         Read(before, take, after), atEntry' = atEntry
  PROVE  Counting' /\ diags' >= diags /\ (before \/ after => diags' > atEntry)
<1>1. /\ MaxDiags \in Nat /\ MaxDiags > 1 /\ atEntry \in {0, 1} /\ diags \in atEntry..MaxDiags
      /\ panic => diags > atEntry
      /\ IsSeq(nest)
  BY ParserAssumption DEF Counting
<1>2. IsSeq(nest')
  BY <1>1, ReadNests, TakenIsSeq DEF input
<1>3. /\ diags' \in diags..MaxDiags
      /\ before \/ after => diags' > atEntry
  <2>1. CASE ~take
    <3>1. diags' = Counted(diags, before \/ after)
      BY <2>1 DEF Read
    <3>2. diags \in diags..MaxDiags
      BY <1>1
    <3> QED BY <3>1, <3>2, CountedMore
  <2>2. CASE take
    <3> DEFINE d == Counted(diags, before)
    <3>1. PICK s \in Arriving(d) : diags' = Counted(s.diags, after /\ ~before)
      BY <2>2 DEF Read
    <3>2. diags \in diags..MaxDiags
      BY <1>1
    <3>3. d \in diags..MaxDiags /\ (before => d > atEntry)
      BY <3>2, CountedMore
    <3> HIDE DEF d
    <3>4. s.diags \in d..MaxDiags
      BY <1>1, <3>1, <3>3, ArrivingCounts
    <3>5. s.diags \in diags..MaxDiags /\ (before => s.diags > atEntry)
      BY <1>1, <3>3, <3>4
    <3>6. /\ diags' \in diags..MaxDiags
          /\ after /\ ~before => diags' > atEntry
      BY <3>1, <3>2, <3>5, CountedMore
    <3>7. before => diags' = s.diags
      BY <3>1 DEF Counted
    <3> QED BY <3>5, <3>6, <3>7
  <2> QED BY <2>1, <2>2
<1>4. panic' => diags' > atEntry
  <2>1. panic' => panic \/ before \/ after
    BY DEF Read
  <2> QED BY <1>1, <1>3, <2>1
<1> QED BY <1>1, <1>2, <1>3, <1>4 DEF Counting

LEMMA LookAheadCounts ==
  ASSUME Counting, LookAhead, atEntry' = atEntry
  PROVE  Counting' /\ diags' >= diags
<1>1. /\ MaxDiags \in Nat /\ atEntry \in {0, 1} /\ diags \in atEntry..MaxDiags
      /\ panic => diags > atEntry
      /\ IsSeq(nest)
  BY ParserAssumption DEF Counting
<1>2. PICK s \in Sound(diags, cur \in Enders) \cup Broken(diags) : Scan(s) /\ diags' = s.diags
  BY DEF LookAhead
<1>3. diags \in 0..MaxDiags
  BY <1>1
<1>4. diags' \in diags..MaxDiags
  BY <1>1, <1>2, <1>3, SoundCounts, BrokenCounts
<1>5. IsSeq(nest') /\ panic' = panic
  BY <1>1, <1>2, ScanNests, AfterIsSeq DEF LookAhead
<1> QED BY <1>1, <1>4, <1>5 DEF Counting

LEMMA SynchronizeCounts ==
  ASSUME Counting, Synchronize, atEntry' = atEntry
  PROVE  Counting' /\ diags' >= diags
<1>1. /\ MaxDiags \in Nat /\ atEntry \in {0, 1} /\ diags \in atEntry..MaxDiags
      /\ IsSeq(nest)
  BY ParserAssumption DEF Counting
<1>2. ~panic'
  BY DEF Synchronize
<1>3. CASE cur = "EOF" \/ cur \in Boundary
  <2>1. nest' = nest /\ diags' = diags
    BY <1>3 DEF Synchronize, input
  <2> QED BY <1>1, <1>2, <2>1 DEF Counting
<1>4. CASE ~(cur = "EOF" \/ cur \in Boundary)
  <2>1. PICK s \in Arriving(diags) : Takes(s) /\ diags' = s.diags
    BY <1>4 DEF Synchronize, Takes, Peeked
  <2>2. diags \in 0..MaxDiags
    BY <1>1
  <2>3. diags' \in diags..MaxDiags
    BY <1>1, <2>1, <2>2, ArrivingCounts
  <2>4. IsSeq(nest')
    BY <1>1, <2>1, TakesNest, TakenIsSeq
  <2> QED BY <1>1, <1>2, <2>3, <2>4 DEF Counting
<1> QED BY <1>3, <1>4

----------------------------------------------------------------------------
(* The bracket that each routine under way has opened and will close.        *)

RoundAt  == {"Grouping", "Grouping.close", "Call", "Call.equal", "Call.argument", "Call.close", "From.group",
             "From.comma", "From.close", "Params", "Param", "Param.default", "Param.order", "Func.close"}
SquareAt == {"Index", "Index.start", "Index.close", "Slice.stop", "Slice.colon", "Slice.step", "Slice.close", "List",
             "List.first", "List.value"}
CurlyAt  == {"Brace", "Brace.first", "Brace.value", "Dict.key", "Dict.colon", "Dict.pair", "Dict.close", "Block.body",
             "Select.body", "Class.body", "Class.method", "Class.end"}
\* "field" is an interpolation, open in the text of an f-string.
Opened(f) ==
  CASE f.at \in RoundAt  -> "round"
    [] f.at \in SquareAt -> "square"
    [] f.at \in CurlyAt  -> "curly"
    [] f.at \in CloseAt  -> IF f.close = "]" THEN "square" ELSE "curly"
    [] f.at = "FString"  -> "text"
    [] f.at \in {"FString.format", "FString.close"} -> "field"
    [] OTHER -> "none"
Put(b, k) == CASE k = "none"   -> b
               [] k = "round"  -> Append(b, "(")
               [] k = "square" -> Append(b, "[")
               [] k = "curly"  -> Append(b, "{")
               [] k = "text"   -> Append(b, "f")
               [] k = "field"  -> Append(Append(b, "f"), "i")

\* What a routine holds open before a token, the token, and after it.
Turns == {<<"none", "(", "round">>, <<"none", "[", "square">>, <<"none", "{", "curly">>, <<"none", "fstart", "text">>,
          <<"round", ")", "none">>, <<"square", "]", "none">>, <<"curly", "}", "none">>, <<"text", "fend", "none">>,
          <<"text", "{", "field">>, <<"field", "}", "text">>}

\* The token that a routine was called for and that it takes unseen.
Led(f, tok) ==
  /\ f.at = "If"         => tok = "if"
  /\ f.at = "For"        => tok = "for"
  /\ f.at = "While"      => tok = "while"
  /\ f.at = "Try"        => tok = "try"
  /\ f.at = "With"       => tok = "with"
  /\ f.at = "Select"     => tok = "select"
  /\ f.at = "Class"      => tok = "class"
  /\ f.at = "Return"     => tok = "return"
  /\ f.at = "Raise"      => tok = "raise"
  /\ f.at = "Del"        => tok = "del"
  /\ f.at = "Global"     => tok = "global"
  /\ f.at = "Break"      => tok \in {"break", "continue"}
  /\ f.at = "Pass"       => tok = "pass"
  /\ f.at = "Block"      => tok = "{"
  /\ f.at = "Func"       => tok = "func"
  /\ f.at = "Items.star" => tok \in Ident
  /\ f.at = "Call.equal" => tok = "="
  /\ f.at = "Compare"    => (f.op = "not" => tok = "in")
  /\ f.at = "Start"      => tok = "START"
  /\ f.at # "Synchronize"
Ready(f)   == f.at \notin LeadAt \cup {"Compare", "Start", "Synchronize"}
Resting(f) == Ready(f) /\ f.at # "FString"
BottomAt   == {"Start", "SourceFile"}
Kin(f)     == f.at \in BottomAt => Top.at \in BottomAt

----------------------------------------------------------------------------
(* What a routine does with the brackets: it reports an error, takes no      *)
(* bracket and holds what it held, or takes the bracket that is due.         *)

Faulty  == \E before, take, after : Read(before, take, after) /\ (before \/ after)
Neutral == Stay \/ (Take /\ cur \notin Brackets)
Holding(k) ==
  \/ k = "none" /\ stack' = Pop(stack)
  \/ \E f : Opened(f) = k /\ Led(f, cur') /\ Kin(f) /\ stack' = Append(Pop(stack), f)
  \/ \E f, g : /\ Resting(f) /\ Kin(f) /\ Led(g, cur') /\ g.at \notin BottomAt
               /\ (Opened(f) = k /\ Opened(g) = "none") \/ (Opened(f) = "none" /\ Opened(g) = k)
               /\ stack' = Pop(stack) \o <<f, g>>
Whole  == ret'.kind = "INVALID" => ret.kind = "INVALID"
Turned == \/ Faulty
          \/ Whole /\ Neutral /\ Holding(Opened(Top))
          \/ Whole /\ Take /\ \E k : <<Opened(Top), cur, k>> \in Turns /\ Holding(k)

\* Closing what was opened last leaves what was open before.
LEMMA PushedEnds ==
  ASSUME NEW b, IsSeq(b), NEW x
  PROVE  /\ Ends(Append(b, x), x) /\ Append(b, x)[Len(Append(b, x))] = x
         /\ Pop(Append(b, x)) = b /\ Append(b, x) # b /\ IsSeq(Append(b, x))
<1>1. PICK S : b \in Seq(S)
  BY DEF IsSeq
<1> DEFINE c == Append(b, x)
<1>2. c \in Seq(S \cup {x}) /\ Len(c) = Len(b) + 1 /\ c[Len(b) + 1] = x /\ b \in Seq(S \cup {x})
  BY <1>1
<1>3. \A i \in 1..Len(b) : c[i] = b[i]
  BY <1>1
<1> HIDE DEF c
<1>4. Ends(c, x) /\ c[Len(c)] = x
  BY <1>1, <1>2 DEF Ends
<1>5. c # b
  BY <1>1, <1>2
<1>6. SubSeq(c, 1, Len(b)) = b
  <2>1. SubSeq(c, 1, Len(b)) \in Seq(S \cup {x}) /\ Len(SubSeq(c, 1, Len(b))) = Len(b)
    BY <1>1, <1>2
  <2>2. \A i \in 1..Len(b) : SubSeq(c, 1, Len(b))[i] = b[i]
    BY <1>1, <1>2, <1>3
  <2> QED BY <1>1, <1>2, <2>1, <2>2
<1>7. Pop(c) = b
  BY <1>1, <1>2, <1>6 DEF Pop
<1> QED BY <1>2, <1>4, <1>5, <1>7 DEF c, IsSeq

Spots(b, X) == {i \in DOMAIN b : b[i] \in X}
\* The last position that holds one of X, when one was just pushed.
LEMMA LastPushed ==
  ASSUME NEW b, IsSeq(b), NEW X, NEW x \in X
  PROVE  Spots(Append(b, x), X) # {} /\ SubSeq(Append(b, x), 1, Last(Spots(Append(b, x), X)) - 1) = b
<1> DEFINE c == Append(b, x)
           B == Spots(c, X)
<1>1. PICK S : b \in Seq(S)
  BY DEF IsSeq
<1> DEFINE n == Len(b)
<1>2. n \in Nat /\ c \in Seq(S \cup {x}) /\ c[n + 1] = x /\ Len(c) = n + 1
  BY <1>1
<1>3. Pop(c) = b
  BY PushedEnds
<1> HIDE DEF c, B, n
<1>4. DOMAIN c = 1..(n + 1) /\ n + 1 \in 1..(n + 1) /\ n + 1 \in Nat
  BY <1>2
<1>5. n + 1 \in B /\ B \subseteq 1..(n + 1)
  BY <1>2, <1>4 DEF B, Spots
<1>6. Last(B) \in B /\ \A j \in B : j <= Last(B)
  BY <1>4, <1>5, LastIn
<1>7. Last(B) = n + 1
  <2>1. Last(B) \in 1..(n + 1) /\ n + 1 <= Last(B)
    BY <1>5, <1>6
  <2>2. \A m \in 1..(n + 1) : n + 1 <= m => m = n + 1
    BY ONLY <1>4
  <2> QED BY <2>1, <2>2
<1>8. SubSeq(c, 1, (n + 1) - 1) = Pop(c)
  BY <1>2 DEF Pop
<1> QED BY <1>3, <1>5, <1>7, <1>8 DEF B, c

LEMMA OpenerOf == DOMAIN Opener = {")", "]"} /\ Opener[")"] = "(" /\ Opener["]"] = "["
BY DEF Opener

LEMMA BraceCloses ==
  ASSUME NEW b, IsSeq(b), NEW x \in {"{", "i"}
  PROVE  After(Append(b, x), "}") = b
<1> DEFINE c == Append(b, x)
<1>1. Braces(c) # {} /\ SubSeq(c, 1, Last(Braces(c)) - 1) = b
  <2>1. Braces(c) = Spots(c, {"{", "i"})
    BY Zenon DEF Braces, Spots
  <2>2. Spots(c, {"{", "i"}) # {} /\ SubSeq(c, 1, Last(Spots(c, {"{", "i"})) - 1) = b
    BY Zenon, LastPushed
  <2> QED BY Zenon, <2>1, <2>2
<1> HIDE DEF c
<1>2. After(c, "}") = SubSeq(c, 1, Last(Braces(c)) - 1)
  BY Zenon, <1>1, OpenerOf DEF After
<1> QED BY <1>1, <1>2 DEF c

LEMMA TurnAfter ==
  ASSUME NEW b, IsSeq(b), ~Ends(b, "f"), NEW from, NEW tok, NEW to, <<from, tok, to>> \in Turns
  PROVE  After(Put(b, from), tok) = Put(b, to) /\ ~TearsAt(Put(b, from), tok)
<1>1. /\ \A x : Ends(Append(b, x), x) /\ Pop(Append(b, x)) = b /\ Append(b, x) # b
      /\ \A x : Append(b, x)[Len(Append(b, x))] = x
      /\ IsSeq(Append(b, "f"))
  BY PushedEnds
<1>2. /\ Append(Append(b, "f"), "i")[Len(Append(Append(b, "f"), "i"))] = "i"
  BY <1>1, PushedEnds
<1>3. After(Append(b, "{"), "}") = b /\ After(Append(Append(b, "f"), "i"), "}") = Append(b, "f")
  BY <1>1, BraceCloses
<1>4. /\ Put(b, "none") = b /\ Put(b, "round") = Append(b, "(") /\ Put(b, "square") = Append(b, "[")
      /\ Put(b, "curly") = Append(b, "{") /\ Put(b, "text") = Append(b, "f")
      /\ Put(b, "field") = Append(Append(b, "f"), "i")
  BY Zenon DEF Put
<1>5. /\ After(b, "(") = Append(b, "(") /\ After(b, "[") = Append(b, "[")
      /\ After(b, "{") = Append(b, "{") /\ After(b, "fstart") = Append(b, "f")
      /\ After(Append(b, "f"), "{") = Append(Append(b, "f"), "i")
      /\ After(Append(b, "f"), "fend") = b
  <2>1. Ends(Append(b, "f"), "f") /\ ~Ends(b, "f") /\ Pop(Append(b, "f")) = b
    BY <1>1
  <2>2. After(Append(b, "f"), "{") = Append(Append(b, "f"), "i") /\ After(b, "{") = Append(b, "{")
    BY ONLY Zenon, <2>1, OpenerOf DEF After
  <2>3. After(b, "(") = Append(b, "(") /\ After(b, "[") = Append(b, "[") /\ After(b, "fstart") = Append(b, "f")
    BY ONLY Zenon, OpenerOf DEF After
  <2>4. After(Append(b, "f"), "fend") = b
    BY ONLY Zenon, <2>1, OpenerOf DEF After
  <2> QED BY <2>2, <2>3, <2>4
<1>6. After(Append(b, "("), ")") = b /\ After(Append(b, "["), "]") = b
  BY Zenon, <1>1, OpenerOf DEF After
<1>7. /\ \A s : \A t \in {"(", "[", "{", "fstart", "fend"} : ~TearsAt(s, t)
      /\ ~TearsAt(Append(b, "("), ")") /\ ~TearsAt(Append(b, "["), "]")
      /\ ~TearsAt(Append(b, "{"), "}") /\ ~TearsAt(Append(Append(b, "f"), "i"), "}")
  BY Zenon, <1>1, <1>2, <1>6, OpenerOf DEF TearsAt
<1>8. \/ from = "none" /\ tok = "(" /\ to = "round"
      \/ from = "none" /\ tok = "[" /\ to = "square"
      \/ from = "none" /\ tok = "{" /\ to = "curly"
      \/ from = "none" /\ tok = "fstart" /\ to = "text"
      \/ from = "round" /\ tok = ")" /\ to = "none"
      \/ from = "square" /\ tok = "]" /\ to = "none"
      \/ from = "curly" /\ tok = "}" /\ to = "none"
      \/ from = "text" /\ tok = "fend" /\ to = "none"
      \/ from = "text" /\ tok = "{" /\ to = "field"
      \/ from = "field" /\ tok = "}" /\ to = "text"
  BY Zenon DEF Turns
<1> QED BY ONLY <1>3, <1>4, <1>5, <1>6, <1>7, <1>8

\* A frame that was not called for a token, and holds k.
Fresh(f, k) == Opened(f) = k /\ f.at \notin BottomAt /\ Ready(f)
\* What is read leaves the brackets alone, or is wrong.
Calm == Faulty \/ Neutral
\* The routine takes the bracket that leaves it with k.
Bracket(k) == Faulty \/ (Take /\ <<Opened(Top), cur, k>> \in Turns)
Moved(k) == Holding(k) /\ Whole

LEMMA Turning ==
  /\ Faulty => Turned
  /\ Calm /\ Moved(Opened(Top)) => Turned
  /\ \A k : Bracket(k) /\ Moved(k) => Turned
BY DEF Calm, Bracket, Moved, Turned

\* A frame that holds k, and was called for the token the parser is now at, if for any.
Fit(f, k) == Opened(f) = k /\ f.at \notin BottomAt /\ Led(f, cur')
LEMMA FreshFit == \A f, k : Fresh(f, k) => Fit(f, k)
BY Zenon DEF Fresh, Fit, Led, Ready, LeadAt

LEMMA CallsHold ==
  /\ \A f, k : Fit(f, k) /\ Become(f) => Moved(k)
  /\ \A f, n, k : Fit(f, k) /\ n.kind # "INVALID" /\ Yield(f, n) => Moved(k)
  /\ \A f, g, k : Fresh(f, k) /\ f.at # "FString" /\ Fit(g, "none") /\ Call(f, g) => Moved(k)
  /\ \A f, g, k : Fresh(f, "none") /\ f.at # "FString" /\ Fit(g, k) /\ Call(f, g) => Moved(k)
  /\ \A n : (n.kind # "INVALID" \/ n.kind = ret.kind) /\ Return(n) => Moved("none")
  /\ Done => Moved("none")
<1>1. Nothing.kind # "INVALID" /\ Primary.kind # "INVALID"
  BY DEF Nothing, Primary, Node
<1>2. ASSUME NEW f, NEW k, Fit(f, k) PROVE Led(f, cur') /\ Kin(f) /\ Opened(f) = k
  BY <1>2 DEF Fit, Kin
<1>3. ASSUME NEW f, NEW k, Fit(f, k), NEW n, n.kind # "INVALID", Yield(f, n) PROVE Moved(k)
  BY <1>2, <1>3 DEF Yield, Moved, Holding, Whole
<1>4. ASSUME NEW f, NEW k, Fit(f, k), Become(f) PROVE Moved(k)
  BY <1>1, <1>2, <1>4 DEF Become, Moved, Holding, Whole
<1>5. ASSUME NEW f, NEW g, NEW j, NEW k, Fresh(f, j), f.at # "FString", Fit(g, k), Call(f, g),
             NEW l, (j = l /\ k = "none") \/ (j = "none" /\ k = l)
      PROVE  Moved(l)
  <2>1. Resting(f) /\ Kin(f) /\ Led(g, cur') /\ g.at \notin BottomAt /\ Opened(f) = j /\ Opened(g) = k
    BY <1>5, FreshFit, <1>2 DEF Resting, Fresh, Fit
  <2>2. stack' = Pop(stack) \o <<f, g>> /\ Whole
    BY <1>1, <1>5 DEF Call, Whole
  <2>3. (Opened(f) = l /\ Opened(g) = "none") \/ (Opened(f) = "none" /\ Opened(g) = l)
    BY <1>5, <2>1
  <2>4. Holding(l)
    BY ONLY Zenon, <2>1, <2>2, <2>3 DEF Holding
  <2> QED BY <2>2, <2>4 DEF Moved
<1>6. ASSUME NEW n, n.kind # "INVALID" \/ n.kind = ret.kind, Return(n) PROVE Moved("none")
  BY <1>6 DEF Return, Moved, Holding, Whole
<1> QED BY <1>1, <1>3, <1>4, <1>5, <1>6 DEF Done

LEMMA ReadsTurn ==
  /\ Stay => Calm
  /\ Take /\ cur \notin Brackets => Calm
  /\ Report => Faulty
  /\ Skip => Faulty
  /\ \A c : ReportIf(c) => Calm
  /\ \A b, t, a : Read(b, t, a) /\ (t => cur \notin Brackets) => Calm
  /\ \A ts : Expect(ts) => Faulty \/ (Take /\ cur \in ts)
<1>1. \A b, t, a : Read(b, t, a) /\ (b \/ a) => Faulty
  BY DEF Faulty
<1>2. ASSUME NEW b, NEW t, NEW a, ~b, ~a, Read(b, t, a) PROVE Read(FALSE, t, FALSE)
  BY <1>2 DEF Read, Counted
<1>3. ASSUME NEW b, NEW t, NEW a, t, Read(b, t, a) PROVE Read(b, TRUE, a)
  BY <1>3 DEF Read
<1>4. ASSUME NEW b, NEW t, NEW a, Read(b, t, a), t => cur \notin Brackets PROVE Calm
  <2>1. CASE b \/ a
    BY <2>1, <1>1, <1>4 DEF Calm
  <2>2. CASE ~b /\ ~a /\ t
    <3>1. Read(FALSE, TRUE, FALSE)
      BY <1>4, <2>2 DEF Read, Counted
    <3> QED BY <1>4, <2>2, <3>1 DEF Calm, Neutral, Take
  <2>3. CASE ~b /\ ~a /\ ~t
    <3>1. Read(FALSE, FALSE, FALSE)
      BY <1>4, <2>3 DEF Read, Counted
    <3> QED BY <3>1 DEF Calm, Neutral, Stay
  <2> QED BY <2>1, <2>2, <2>3
<1>5. ASSUME NEW ts, Expect(ts) PROVE Faulty \/ (Take /\ cur \in ts)
  <2>1. CASE cur \in ts
    <3>1. Read(FALSE, cur \in ts, FALSE)
      BY <1>5, <2>1, <1>2 DEF Expect
    <3>2. Read(FALSE, TRUE, FALSE)
      BY <2>1, <3>1, <1>3
    <3> QED BY <2>1, <3>2 DEF Take
  <2>2. CASE cur \notin ts
    BY <1>5, <2>2, <1>1 DEF Expect
  <2> QED BY <2>1, <2>2
<1> QED BY <1>1, <1>4, <1>5 DEF Stay, Take, Report, Skip, ReportIf

\* Frames by what they hold.
PlainAt == {"Expr", "Fold", "Unary", "Unary.operand", "Binary", "Binary.right", "Logical", "Logical.right",
  "Compare.link", "Conditional", "Conditional.else", "Conditional.end", "Attr", "Await", "Await.end", "SelfSuper", "Lambda",
  "Lambda.comma", "Lambda.colon", "Lambda.body", "Items", "Items.item", "Reinterpret", "Values", "Names", "Names.comma",
  "Import", "Import.path", "Import.as", "Import.name", "From.path", "From.import", "From.names", "Return.value",
  "Return.comma", "Raise.from", "Del.target", "RequiredBlock", "If.then", "If.else", "Else", "Try.clause", "Except",
  "Except.as", "Except.name", "Except.body", "With.as", "With.name", "Case", "Case.targets", "Case.shape", "Case.comma",
  "Case.name", "Case.assign", "Case.colon", "Case.body", "Select.open", "Func.name", "Func.open", "Func.body",
  "Class.name", "Class.super", "Class.open", "For.first", "For.in", "For.init", "For.condition", "For.post", "Loop",
  "Loop.body", "Statement", "Statement.end"}
LEMMA FreshFrames ==
  /\ \A f : f.at \in RoundAt \ {"Call.equal"} => Fresh(f, "round")
  /\ \A f : f.at \in SquareAt => Fresh(f, "square")
  /\ \A f : f.at \in CurlyAt => Fresh(f, "curly")
  /\ \A f : f.at \in CloseAt => Fresh(f, IF f.close = "]" THEN "square" ELSE "curly")
  /\ \A f : f.at = "FString" => Fresh(f, "text")
  /\ \A f : f.at \in {"FString.format", "FString.close"} => Fresh(f, "field")
  /\ \A f : f.at \in PlainAt => Fresh(f, "none")
BY DEF Fresh, Opened, Ready, RoundAt, SquareAt, CurlyAt, CloseAt, PlainAt, LeadAt, BottomAt
LEMMA OpenedFrames ==
  /\ \A f : f.at \in RoundAt => Opened(f) = "round"
  /\ \A f : f.at \in LeadAt \cup {"Compare", "Start", "SourceFile"} /\ f.at # "Call.equal" => Opened(f) = "none"
  /\ \A f, k : Fresh(f, k) => Opened(f) = k
BY DEF Fresh, Opened, RoundAt, SquareAt, CurlyAt, CloseAt, LeadAt

\* The frames whose name is all they hold.
LEMMA NamedFrames ==
  /\ \A a \in PlainAt : Fresh(F(a), "none") /\ F(a).at = a
  /\ \A a \in RoundAt \ {"Call.equal"} : Fresh(F(a), "round") /\ F(a).at = a
  /\ \A a \in SquareAt : Fresh(F(a), "square") /\ F(a).at = a
  /\ \A a \in CurlyAt : Fresh(F(a), "curly") /\ F(a).at = a
  /\ \A a \in {"FString.format", "FString.close"} : Fresh(F(a), "field") /\ F(a).at = a
  /\ Fresh(F("FString"), "text")
  /\ \A m : Fresh(Expr(m), "none") /\ Expr(m).at = "Expr"
  /\ Fresh(EXPR, "none")
<1>1. \A a : F(a).at = a
  BY DEF F
<1>2. \A m : Expr(m).at = "Expr"
  BY DEF Expr
<1>3. "Expr" \in PlainAt
  BY DEF PlainAt
<1> HIDE DEF F, Expr
<1> QED BY <1>1, <1>2, <1>3, FreshFrames DEF EXPR

LEMMA DueBrackets ==
  /\ <<"none", "(", "round">> \in Turns /\ <<"none", "[", "square">> \in Turns
  /\ <<"none", "{", "curly">> \in Turns /\ <<"none", "fstart", "text">> \in Turns
  /\ <<"round", ")", "none">> \in Turns /\ <<"square", "]", "none">> \in Turns
  /\ <<"curly", "}", "none">> \in Turns /\ <<"text", "fend", "none">> \in Turns
  /\ <<"text", "{", "field">> \in Turns /\ <<"field", "}", "text">> \in Turns
BY Zenon DEF Turns

TopHas(k) == Opened(Top) = k
LEMMA TopHolds ==
  /\ \A a \in PlainAt : At(a) => TopHas("none")
  /\ \A a \in RoundAt : At(a) => TopHas("round")
  /\ \A a \in SquareAt : At(a) => TopHas("square")
  /\ \A a \in CurlyAt : At(a) => TopHas("curly")
  /\ \A a \in CloseAt : At(a) => TopHas(IF Top.close = "]" THEN "square" ELSE "curly")
  /\ At("FString") => TopHas("text")
  /\ \A a \in {"FString.format", "FString.close"} : At(a) => TopHas("field")
BY FreshFrames, OpenedFrames DEF At, TopHas

\* Ways to turn, by what the top holds.
LEMMA Ways ==
  /\ \A k, f : TopHas(k) /\ Calm /\ Fresh(f, k) /\ Become(f) => Turned
  /\ \A k, f, n : TopHas(k) /\ Calm /\ Fresh(f, k) /\ n.kind # "INVALID" /\ Yield(f, n) => Turned
  /\ \A k, f, g : TopHas(k) /\ Calm /\ Fresh(f, k) /\ f.at # "FString" /\ Fresh(g, "none") /\ Call(f, g) => Turned
  /\ \A k, f : TopHas(k) /\ Calm /\ Fit(f, k) /\ Become(f) => Turned
  /\ \A k, f, g : TopHas(k) /\ Calm /\ Fresh(f, k) /\ f.at # "FString" /\ Fit(g, "none") /\ Call(f, g) => Turned
  /\ \A n : TopHas("none") /\ Calm /\ (n.kind # "INVALID" \/ n.kind = ret.kind) /\ Return(n) => Turned
  /\ TopHas("none") /\ Calm /\ Done => Turned
  /\ \A k, f, g : TopHas(k) /\ Fresh(f, k) /\ Fresh(g, k) /\ Comma(f, g) => Turned
  /\ Faulty => Turned
<1>1. "," \notin Brackets
  BY Zenon DEF Brackets
<1>2. ASSUME NEW k, TopHas(k), NEW f, NEW g, Fresh(f, k), Fresh(g, k), Comma(f, g) PROVE Turned
  <2>1. Calm /\ (Become(f) \/ Become(g))
    BY <1>1, <1>2, ReadsTurn DEF Comma
  <2> QED BY <1>2, <2>1, FreshFit, Turning, CallsHold DEF TopHas
<1> QED BY <1>2, FreshFit, Turning, CallsHold DEF TopHas
Due(k, t, l) == TopHas(k) /\ Take /\ cur = t /\ <<k, t, l>> \in Turns
LEMMA BracketWays ==
  /\ \A k, t, l, f : Due(k, t, l) /\ Fresh(f, l) /\ Become(f) => Turned
  /\ \A k, t, l, f, g : Due(k, t, l) /\ Fresh(f, l) /\ f.at # "FString" /\ Fresh(g, "none") /\ Call(f, g) => Turned
  /\ \A k, t, l, f, g : Due(k, t, l) /\ Fresh(f, "none") /\ f.at # "FString" /\ Fresh(g, l) /\ Call(f, g) => Turned
  /\ \A k, t, n : Due(k, t, "none") /\ (n.kind # "INVALID" \/ n.kind = ret.kind) /\ Return(n) => Turned
  /\ \A k, t : Due(k, t, "none") /\ Done => Turned
<1>1. ASSUME NEW k, NEW t, NEW l, Due(k, t, l) PROVE Bracket(l)
  BY <1>1 DEF Due, TopHas, Bracket
<1> QED BY <1>1, FreshFit, Turning, CallsHold
LEMMA Expected ==
  /\ \A k, t, l : TopHas(k) /\ <<k, t, l>> \in Turns /\ Expect({t}) => Turned \/ Due(k, t, l)
  /\ \A ts : (\A t \in ts : t \notin Brackets) /\ Expect(ts) => Calm
<1>1. ASSUME NEW t, Expect({t}) PROVE Faulty \/ (Take /\ cur = t)
  BY <1>1, ReadsTurn
<1>2. ASSUME NEW ts, \A t \in ts : t \notin Brackets, Expect(ts) PROVE Calm
  BY <1>2, ReadsTurn DEF Calm
<1> QED BY <1>1, <1>2, Turning DEF Due

LEMMA Kinds == Nothing.kind # "INVALID" /\ Primary.kind # "INVALID" /\ \A k, l : Node(k, l).kind = k
BY DEF Nothing, Primary, Node

\* The tokens that are no brackets.
Words == Ident \cup {"int", "string", "format", ":", ",", ".", "=", ":=", "+=", "++", ";", "~", "not", "in", "is", "<",
  "==", "|", "^", "&", "<<", "+", "-", "*", "%", "**", "and", "or", "if", "else", "await", "lambda", "self", "for",
  "while", "try", "with", "select", "class", "import", "from", "return", "raise", "del", "global", "break", "continue",
  "pass", "func", "async", "static", "as", "except", "finally", "case", "default", "START"}
LEMMA NoBrackets == \A t \in Words : t \notin Brackets
<1> SUFFICES ASSUME NEW t \in Words PROVE t \notin Brackets
  OBVIOUS
<1>1. t \notin {"(", ")", "[", "]", "fstart", "fend"}
  BY ZenonT(40) DEF Words, Ident
<1>2. t # "{"
  BY Zenon DEF Words, Ident
<1>3. t # "}"
  BY Zenon DEF Words, Ident
<1> QED BY Zenon, <1>1, <1>2, <1>3 DEF Brackets
\* A token read ahead is the next one.
LEMMA AheadTaken == ASSUME Take, ahead \notin {"none", "INVALID"} PROVE cur' = ahead
BY ReadNests DEF Take, Taken, Peeked

----------------------------------------------------------------------------
(* Expressions.                                                              *)

\* What the routines may rely on.
Given == Carries(Top) /\ Shaped(Top) /\ IsNode(ret) /\ Led(Top, cur)

LEMMA IndexTurns == ParseIndexOrSlice => Turned
<1>1. /\ At("Index") \/ At("Index.start") \/ At("Slice.stop") \/ At("Slice.colon") \/ At("Slice.step")
         \/ At("Index.close") \/ At("Slice.close") => TopHas("square")
      /\ Fresh(F("Slice.stop"), "square") /\ Fresh(F("Index.close"), "square") /\ Fresh(F("Index.start"), "square")
      /\ Fresh(F("Slice.colon"), "square") /\ Fresh(F("Slice.step"), "square") /\ Fresh(F("Slice.close"), "square")
      /\ Fresh(EXPR, "none")
      /\ F("Index.start").at # "FString" /\ F("Slice.colon").at # "FString" /\ F("Slice.close").at # "FString"
  BY TopHolds, NamedFrames DEF SquareAt
<1>2. Node("INDEX", 2).kind # "INVALID" /\ Node("OTHER", 2).kind # "INVALID" /\ ":" \notin Brackets
  BY Kinds, NoBrackets DEF Words
<1> QED BY ONLY Zenon, <1>1, <1>2, DueBrackets, Ways, BracketWays, Expected, ReadsTurn DEF ParseIndexOrSlice

LEMMA PrecedenceTurns == Given /\ ParsePrecedence => Turned
<1> SUFFICES ASSUME Given PROVE ParsePrecedence => Turned
  OBVIOUS
<1>1. /\ At("Expr") \/ At("Fold") => TopHas("none")
      /\ Go("Fold").at = "Fold" /\ Fresh(Go("Fold"), "none") /\ (At("Fold") => Fresh(Top, "none") /\ Top.at # "FString")
  BY TopHolds, FreshFrames, Renamed DEF PlainAt, At, Given
<1>2. ASSUME At("Expr"), cur \in Literal, Take, Yield(Go("Fold"), IF cur \in Ident THEN Node("IDENT", 1) ELSE Primary)
      PROVE  Turned
  <2>1. cur \notin Brackets
    BY <1>2, NoBrackets DEF Literal, Words
  <2>2. (IF cur \in Ident THEN Node("IDENT", 1) ELSE Primary).kind # "INVALID"
    BY Kinds
  <2> QED BY <1>1, <1>2, <2>1, <2>2, Ways, ReadsTurn
<1>3. ASSUME NEW g, g = [at |-> PrefixRule[cur], op |-> cur],
             At("Expr"), cur \in DOMAIN PrefixRule, Take, Call(Go("Fold"), g)
      PROVE  Turned
  <2>1. g.at = PrefixRule[cur]
    BY <1>3
  <2>2. \/ cur = "(" /\ g.at = "Grouping"
        \/ cur = "[" /\ g.at = "List"
        \/ cur = "{" /\ g.at = "Brace"
        \/ cur = "fstart" /\ g.at = "FString"
        \/ cur \in {"~", "not", "+", "-", "await", "lambda", "self"} /\ g.at \in {"Await", "Lambda", "SelfSuper", "Unary"}
    BY Zenon, <1>3, <2>1 DEF PrefixRule
  <2>0. /\ "Grouping" \in RoundAt \ {"Call.equal"} /\ "List" \in SquareAt /\ "Brace" \in CurlyAt
        /\ {"Await", "Lambda", "SelfSuper", "Unary"} \subseteq PlainAt
    BY DEF RoundAt, SquareAt, CurlyAt, PlainAt
  <2>3. cur = "(" => Fresh(g, "round") /\ Due("none", "(", "round")
    BY Zenon, <1>1, <1>3, <2>0, <2>2, FreshFrames, DueBrackets DEF Due
  <2>4. cur = "[" => Fresh(g, "square") /\ Due("none", "[", "square")
    BY Zenon, <1>1, <1>3, <2>0, <2>2, FreshFrames, DueBrackets DEF Due
  <2>5. cur = "{" => Fresh(g, "curly") /\ Due("none", "{", "curly")
    BY Zenon, <1>1, <1>3, <2>0, <2>2, FreshFrames, DueBrackets DEF Due
  <2>6. cur = "fstart" => Fresh(g, "text") /\ Due("none", "fstart", "text")
    BY Zenon, <1>1, <1>3, <2>2, FreshFrames, DueBrackets DEF Due
  <2>7. cur \in {"~", "not", "+", "-", "await", "lambda", "self"} => Fresh(g, "none") /\ Calm
    <3> DEFINE words == {"~", "not", "+", "-", "await", "lambda", "self"}
    <3>1. /\ \A t \in words : t \in Words
          /\ \A t \in words : t \notin {"(", "[", "fstart"}
      BY DEF Words
    <3>2. \A t \in words : t # "{"
      BY Zenon
    <3>3. cur \in words => g.at \in PlainAt
      BY Zenon, <2>0, <2>2, <3>1, <3>2
    <3> QED BY Zenon, <1>3, <3>1, <3>3, FreshFrames, NoBrackets, ReadsTurn
  <2> QED BY Zenon, <1>1, <1>3, <2>2, <2>3, <2>4, <2>5, <2>6, <2>7, Ways, BracketWays
<1>4. ASSUME NEW g, g = [at |-> InfixRule[cur], op |-> cur, operand |-> ret, args |-> 0],
             At("Fold"), Folds, Take, Call(Top, g)
      PROVE  Turned
  <2>1. g.at = InfixRule[cur] /\ g.op = cur
    BY <1>4
  <2>2. \/ cur = "(" /\ g.at = "Call"
        \/ cur = "[" /\ g.at = "Index"
        \/ cur \in Words /\ g.at \in {"Attr", "Conditional", "Compare", "Logical", "Binary"}
    <3> DEFINE words == {".", "not", "in", "is", "<", "==", "|", "^", "&", "<<", "+", "-", "*", "%", "**", "and", "or", "if"}
    <3>1. cur \in {"(", "["} \cup words
      BY <1>4 DEF Folds, Prec
    <3>0. {"(", "["} \subseteq DOMAIN Prec /\ Prec["("] # COMP /\ Prec["["] # COMP
      BY DEF Prec, POST, COMP
    <3>2. cur = "(" => InfixRule[cur] = "Call"
      BY <3>0 DEF InfixRule
    <3>3. cur = "[" => InfixRule[cur] = "Index"
      BY <3>0 DEF InfixRule
    <3>4. cur \in words => cur \in Words
      BY DEF Words
    <3>5. cur \in words => InfixRule[cur] \in {"Attr", "Conditional", "Compare", "Logical", "Binary"}
      <4>1. cur \in words => cur \in DOMAIN Prec
        BY DEF Prec
      <4> QED BY <4>1 DEF InfixRule
    <3> QED BY <2>1, <3>1, <3>2, <3>3, <3>4, <3>5
  <2>0. /\ "Call" \in RoundAt \ {"Call.equal"} /\ "Index" \in SquareAt
        /\ {"Attr", "Conditional", "Logical", "Binary"} \subseteq PlainAt
        /\ \A t \in Words : t # "(" /\ t # "["
    BY DEF RoundAt, SquareAt, PlainAt, Words, Ident
  <2>3. cur = "(" => Fresh(g, "round") /\ Due("none", "(", "round")
    BY Zenon, <1>1, <1>4, <2>0, <2>2, FreshFrames, DueBrackets DEF Due
  <2>4. cur = "[" => Fresh(g, "square") /\ Due("none", "[", "square")
    BY Zenon, <1>1, <1>4, <2>0, <2>2, FreshFrames, DueBrackets DEF Due
  <2>5. cur \in Words => Calm
    BY <1>4, NoBrackets, ReadsTurn
  <2>6. cur \in Words /\ g.at # "Compare" => Fresh(g, "none")
    BY Zenon, <2>0, <2>2, FreshFrames
  <2>7. cur \in Words /\ g.at = "Compare" => Fit(g, "none")
    <3>1. cur = "not" => cur' = "in"
      BY <1>4, AheadTaken DEF Folds
    <3>2. g.at = "Compare" => Opened(g) = "none"
      BY OpenedFrames
    <3> QED BY Zenon, <2>1, <3>1, <3>2 DEF Fit, Led, BottomAt
  <2> QED BY Zenon, <1>1, <1>4, <2>2, <2>3, <2>4, <2>5, <2>6, <2>7, Ways, BracketWays
<1>5. ASSUME At("Fold"), Stay, Return(ret) PROVE Turned
  BY <1>1, <1>5, Ways, ReadsTurn
<1> QED BY <1>2, <1>3, <1>4, <1>5, Ways, ReadsTurn DEF ParsePrecedence

LEMMA NodeKinds ==
  /\ \A k : k # "INVALID" => \A l : Node(k, l).kind # "INVALID"
  /\ \A k : k # "INVALID" => \A l, x : /\ [Node(k, l) EXCEPT !.name = x].kind # "INVALID"
                                       /\ \A y : [Node(k, l) EXCEPT !.name = x, !.args = y].kind # "INVALID"
BY DEF Node

LEMMA GroupingTurns == Given /\ ParseGrouping => Turned
<1> SUFFICES ASSUME Given PROVE ParseGrouping => Turned
  OBVIOUS
<1>1. /\ At("Grouping") \/ At("Grouping.close") => TopHas("round")
      /\ Fresh(F("Grouping.close"), "round") /\ F("Grouping.close").at # "FString" /\ Fresh(EXPR, "none")
  BY TopHolds, NamedFrames DEF RoundAt
<1>2. [ret EXCEPT !.level = 1].kind = ret.kind
  BY DEF Given, IsNode
<1> QED BY ONLY Zenon, <1>1, <1>2, DueBrackets, Ways, BracketWays, Expected, ReadsTurn DEF ParseGrouping

LEMMA UnaryTurns == ParseUnary => Turned
<1>1. /\ At("Unary") \/ At("Unary.operand") => TopHas("none")
      /\ Fresh(F("Unary.operand"), "none") /\ F("Unary.operand").at # "FString" /\ \A m : Fresh(Expr(m), "none")
  BY TopHolds, NamedFrames DEF PlainAt
<1>2. Node("UNARY", 4).kind # "INVALID"
  BY Kinds
<1> QED BY ONLY Zenon, <1>1, <1>2, Ways, ReadsTurn DEF ParseUnary

LEMMA BinaryTurns == Given /\ ParseBinary => Turned
<1> SUFFICES ASSUME Given PROVE ParseBinary => Turned
  OBVIOUS
<1>1. /\ At("Binary") \/ At("Binary.right") => TopHas("none")
      /\ Fresh(Go("Binary.right"), "none") /\ Go("Binary.right").at # "FString" /\ \A m : Fresh(Expr(m), "none")
  BY TopHolds, NamedFrames, FreshFrames, Renamed DEF PlainAt, Given
<1>2. \A l : Node("OTHER", l).kind # "INVALID"
  BY Kinds
<1> QED BY ONLY Zenon, <1>1, <1>2, Ways, ReadsTurn DEF ParseBinary

LEMMA LogicalTurns == Given /\ ParseLogical => Turned
<1> SUFFICES ASSUME Given PROVE ParseLogical => Turned
  OBVIOUS
<1>1. /\ At("Logical") \/ At("Logical.right") => TopHas("none")
      /\ Fresh(Go("Logical.right"), "none") /\ Go("Logical.right").at # "FString" /\ \A m : Fresh(Expr(m), "none")
  BY TopHolds, NamedFrames, FreshFrames, Renamed DEF PlainAt, Given
<1>2. \A l : Node("OTHER", l).kind # "INVALID"
  BY Kinds
<1> QED BY ONLY Zenon, <1>1, <1>2, Ways, ReadsTurn DEF ParseLogical

LEMMA CallTurns == Given /\ ParseCall => Turned
<1> SUFFICES ASSUME Given PROVE ParseCall => Turned
  OBVIOUS
<1>1. /\ At("Call") \/ At("Call.equal") \/ At("Call.argument") \/ At("Call.close") => TopHas("round")
      /\ Fresh(Go("Call.close"), "round") /\ Fresh(Go("Call.argument"), "round") /\ Go("Call.argument").at # "FString"
      /\ Fresh(EXPR, "none")
  BY TopHolds, NamedFrames, FreshFrames, Renamed DEF RoundAt, Given
<1>2. ASSUME NEW x, NEW more, more = [Top EXCEPT !.at = "Call", !.args = x]
      PROVE  Fresh(more, "round") /\ Fresh([more EXCEPT !.at = "Call.close"], "round")
  <2>1. more.at = "Call" /\ [more EXCEPT !.at = "Call.close"].at = "Call.close"
    BY <1>2 DEF Given, Carries
  <2> QED BY <2>1, FreshFrames DEF RoundAt
<1>3. ASSUME At("Call"), cur \in Ident, ahead = "=", Take, Become(Go("Call.equal")) PROVE Turned
  <2>1. Calm
    BY <1>3, NoBrackets, ReadsTurn DEF Words
  <2>2. cur' = "=" /\ Go("Call.equal").at = "Call.equal"
    BY <1>3, AheadTaken, Renamed DEF Given
  <2>3. Opened(Go("Call.equal")) = "round"
    BY <2>2, OpenedFrames DEF RoundAt
  <2>4. Fit(Go("Call.equal"), "round")
    BY Zenon, <2>2, <2>3 DEF Fit, Led, BottomAt
  <2> QED BY <1>1, <1>3, <2>1, <2>4, Ways
<1>4. At("Call.equal") /\ Take => Calm
  <2>1. At("Call.equal") => cur = "="
    BY DEF Given, Led, At
  <2>2. "=" \notin Brackets
    BY NoBrackets DEF Words
  <2> QED BY <2>1, <2>2, ReadsTurn
<1>5. \A x, y : [Node("CALL", 2) EXCEPT !.name = x, !.args = y].kind # "INVALID"
  BY NodeKinds
<1> QED BY ONLY Zenon, <1>1, <1>2, <1>3, <1>4, <1>5, DueBrackets, Ways, BracketWays, Expected, ReadsTurn DEF ParseCall

LEMMA AttrTurns == ParseAttr => Turned
<1>1. At("Attr") => TopHas("none")
  BY TopHolds DEF PlainAt
<1>2. \A t \in Ident : t \notin Brackets
  BY NoBrackets DEF Words
<1>3. \A x : [Node("ATTR", 2) EXCEPT !.name = x].kind # "INVALID"
  BY NodeKinds
<1> QED BY ONLY Zenon, <1>1, <1>2, <1>3, Ways, Expected DEF ParseAttr

LEMMA CompareTurns == Given /\ ParseCompareChain => Turned
<1> SUFFICES ASSUME Given PROVE ParseCompareChain => Turned
  OBVIOUS
<1>1. /\ At("Compare") \/ At("Compare.link") => TopHas("none")
      /\ Fresh(Go("Compare.link"), "none") /\ Go("Compare.link").at # "FString" /\ \A m : Fresh(Expr(m), "none")
  BY TopHolds, OpenedFrames, NamedFrames, FreshFrames, Renamed DEF PlainAt, Given, At, TopHas
<1>2. At("Compare") => (Top.op = "not" \/ (Top.op = "is" /\ cur = "not") => cur \notin Brackets)
  <2>1. At("Compare") /\ Top.op = "not" => cur = "in"
    BY DEF Given, Led, At
  <2>2. "in" \notin Brackets /\ "not" \notin Brackets
    BY NoBrackets DEF Words
  <2> QED BY <2>1, <2>2
<1>3. ASSUME At("Compare.link"), cur \in DOMAIN Prec, Prec[cur] = COMP, cur = "not" => ahead = "in", Take,
             NEW f, f = [Top EXCEPT !.at = "Compare", !.op = cur], Become(f)
      PROVE  Turned
  <2>1. cur \in Words
    <3>1. Prec["("] # COMP /\ Prec["["] # COMP
      BY DEF Prec, POST, COMP
    <3>2. cur \in {".", "not", "in", "is", "<", "==", "|", "^", "&", "<<", "+", "-", "*", "%", "**", "and", "or", "if"}
      BY <1>3, <3>1 DEF Prec
    <3> QED BY <3>2 DEF Words
  <2>2. Calm
    BY <1>3, <2>1, NoBrackets, ReadsTurn
  <2>3. f.at = "Compare" /\ f.op = cur
    <3>1. Has(Top, {"at", "op", "operand", "args"})
      BY <1>3 DEF Given, Shaped, At, InfixAt
    <3> QED BY <1>3, <3>1 DEF Has
  <2>4. cur = "not" => cur' = "in"
    BY <1>3, AheadTaken
  <2>5. Opened(f) = "none"
    BY <2>3, OpenedFrames
  <2>6. Fit(f, "none")
    BY Zenon, <2>3, <2>4, <2>5 DEF Fit, Led, BottomAt
  <2> QED BY <1>1, <1>3, <2>2, <2>6, Ways
<1>4. Node("OTHER", 11).kind # "INVALID"
  BY Kinds
<1>5. Calm /\ At("Compare") /\ Call(Go("Compare.link"), Expr(COMP + 1)) => Turned
  BY <1>1, Ways
<1> QED BY ONLY Zenon, <1>1, <1>2, <1>3, <1>4, <1>5, Ways, ReadsTurn DEF ParseCompareChain

LEMMA ConditionalTurns == Given /\ ParseConditional => Turned
<1> SUFFICES ASSUME Given PROVE ParseConditional => Turned
  OBVIOUS
<1>1. /\ At("Conditional") \/ At("Conditional.else") \/ At("Conditional.end") => TopHas("none")
      /\ Fresh(Go("Conditional.else"), "none") /\ Go("Conditional.else").at # "FString"
      /\ Fresh(F("Conditional.end"), "none") /\ F("Conditional.end").at # "FString" /\ \A m : Fresh(Expr(m), "none")
  BY TopHolds, NamedFrames, FreshFrames, Renamed DEF PlainAt, Given
<1>2. \A t \in {"else"} : t \notin Brackets
  BY NoBrackets DEF Words
<1>3. Node("OTHER", 14).kind # "INVALID"
  BY Kinds
<1> QED BY ONLY Zenon, <1>1, <1>2, <1>3, Ways, Expected, ReadsTurn DEF ParseConditional

LEMMA AwaitTurns == ParseAwait \/ ParseSelfSuper => Turned
<1>1. /\ At("Await") \/ At("Await.end") \/ At("SelfSuper") => TopHas("none")
      /\ Fresh(F("Await.end"), "none") /\ F("Await.end").at # "FString" /\ \A m : Fresh(Expr(m), "none")
  BY TopHolds, NamedFrames DEF PlainAt
<1>2. Node("OTHER", 2).kind # "INVALID" /\ Node("IDENT", 1).kind # "INVALID"
  BY Kinds
<1> QED BY ONLY Zenon, <1>1, <1>2, Ways, ReadsTurn DEF ParseAwait, ParseSelfSuper

LEMMA LambdaTurns == ParseLambdaParams \/ ParseLambdaBody => Turned
<1>1. /\ At("Lambda") \/ At("Lambda.comma") \/ At("Lambda.colon") \/ At("Lambda.body") => TopHas("none")
      /\ Fresh(F("Lambda.comma"), "none") /\ Fresh(F("Lambda.colon"), "none") /\ Fresh(F("Lambda"), "none")
      /\ \A m : Fresh(Expr(m), "none")
  BY TopHolds, NamedFrames DEF PlainAt
<1>2. \A c : LET f == [at |-> "Lambda.body", saved |-> c] IN Fresh(f, "none") /\ f.at # "FString"
  BY FreshFrames DEF PlainAt
<1>3. \A t \in Ident \cup {":"} : t \notin Brackets
  BY NoBrackets DEF Words
<1>4. Node("LAMBDA", 15).kind # "INVALID"
  BY Kinds
<1>5. ParseLambdaParams => Turned
  BY ONLY Zenon, <1>1, <1>3, Ways, ReadsTurn DEF ParseLambdaParams
<1>6. ParseLambdaBody => Turned
  <2>1. Expect({":"}) => Calm
    BY <1>3, Expected
  <2> QED BY ONLY Zenon, <1>1, <1>2, <1>4, <2>1, Ways, ReadsTurn DEF ParseLambdaBody
<1> QED BY <1>5, <1>6

\* The routines that end with the bracket they were told.
Closes == IF Top.close = "]" THEN "square" ELSE "curly"
LEMMA ToldTurns ==
  ASSUME Given, NEW a \in CloseAt, At(a)
  PROVE  /\ TopHas(Closes) /\ <<Closes, Top.close, "none">> \in Turns
         /\ \A b \in CloseAt : Fresh(Go(b), Closes) /\ Go(b).at # "FString"
<1>1. TopHas(Closes)
  BY TopHolds DEF Closes
<1>2. Has(Top, {"at", "close"}) /\ Top.close \in {"]", "}"}
  BY Zenon DEF Given, Shaped, At
<1>3. <<Closes, Top.close, "none">> \in Turns
  BY Zenon, <1>2, DueBrackets DEF Closes
<1>4. Has(Top, {"at", "close"})
  BY Zenon, <1>2
<1>5. ASSUME NEW b \in CloseAt PROVE Fresh(Go(b), Closes) /\ Go(b).at # "FString"
  <2>1. Go(b).at = b /\ Go(b).close = Top.close
    BY ONLY <1>4 DEF Has, Go
  <2>2. b # "FString"
    BY DEF CloseAt
  <2> QED BY Zenon, <2>1, <2>2, FreshFrames DEF Closes
<1> QED BY <1>1, <1>3, <1>5

LEMMA ClausesTurn == Given /\ ParseComprehensionClauses => Turned
<1> SUFFICES ASSUME Given PROVE ParseComprehensionClauses => Turned
  OBVIOUS
<1>1. At("Clauses") \/ At("Clause.target") \/ At("Clause.comma") \/ At("Clause.in") =>
      /\ TopHas(Closes) /\ <<Closes, Top.close, "none">> \in Turns
      /\ Fresh(Go("Clause.target"), Closes) /\ Fresh(Go("Clause.comma"), Closes) /\ Fresh(Go("Clause.in"), Closes)
      /\ Fresh(Go("Clauses"), Closes) /\ Go("Clauses").at # "FString"
  BY ToldTurns DEF CloseAt
<1>2. At("Clauses") => Fresh(Top, Closes) /\ Top.at # "FString"
  <2>1. At("Clauses") => Top.at \in CloseAt
    BY DEF At, CloseAt
  <2>2. "Clauses" # "FString"
    OBVIOUS
  <2> QED BY Zenon, <2>1, <2>2, FreshFrames DEF At, Closes
<1>3. \A m : Fresh(Expr(m), "none")
  BY NamedFrames
<1>4. "for" \notin Brackets /\ "if" \notin Brackets /\ (\A t \in Ident : t \notin Brackets) /\ \A t \in {"in"} : t \notin Brackets
  BY NoBrackets DEF Words
<1>5. Primary.kind # "INVALID"
  BY Kinds
<1> QED BY ONLY Zenon, <1>1, <1>2, <1>3, <1>4, <1>5, Ways, BracketWays, Expected, ReadsTurn DEF ParseComprehensionClauses

LEMMA ElementsTurn == Given /\ ParseElements => Turned
<1> SUFFICES ASSUME Given PROVE ParseElements => Turned
  OBVIOUS
<1>1. At("Elements") \/ At("Element") =>
      /\ TopHas(Closes) /\ <<Closes, Top.close, "none">> \in Turns
      /\ Fresh(Go("Element"), Closes) /\ Fresh(Go("Elements"), Closes) /\ Go("Elements").at # "FString"
  BY ToldTurns DEF CloseAt
<1>2. Fresh(EXPR, "none") /\ "," \notin Brackets /\ Primary.kind # "INVALID"
  BY NamedFrames, NoBrackets, Kinds DEF Words
<1>3. At("Element") /\ cur = Top.close /\ Take => Due(Closes, Top.close, "none")
  BY Zenon, <1>1 DEF Due
<1> QED BY ONLY Zenon, <1>1, <1>2, <1>3, Ways, BracketWays, Expected, ReadsTurn DEF ParseElements

\* What follows the first element.
LEMMA ToldFrames ==
  /\ Fresh(Clauses("]"), "square") /\ Fresh(Elements("]"), "square")
  /\ Fresh(Clauses("}"), "curly") /\ Fresh(Elements("}"), "curly")
<1>1. \A c : Clauses(c).at \in CloseAt /\ Clauses(c).close = c /\ Elements(c).at \in CloseAt /\ Elements(c).close = c
  BY DEF Clauses, Elements, CloseAt
<1> QED BY Zenon, <1>1, FreshFrames

LEMMA ListTurns == ParseListOrComprehension => Turned
<1>1. /\ At("List") \/ At("List.first") \/ At("List.value") => TopHas("square")
      /\ Fresh(F("List.first"), "square") /\ Fresh(F("List.value"), "square")
      /\ F("List.first").at # "FString" /\ F("List.value").at # "FString" /\ Fresh(EXPR, "none")
  BY TopHolds, NamedFrames DEF SquareAt
<1>2. ":" \notin Brackets /\ Primary.kind # "INVALID"
  BY Kinds, NoBrackets DEF Words
<1>3. Fresh(IF cur = "for" THEN Clauses("]") ELSE Elements("]"), "square")
  BY Zenon, ToldFrames
<1>4. TopHas("square") /\ cur = "]" /\ Take => Due("square", "]", "none")
  BY Zenon, DueBrackets DEF Due
<1> QED BY ONLY Zenon, <1>1, <1>2, <1>3, <1>4, ToldFrames, Ways, BracketWays, ReadsTurn DEF ParseListOrComprehension

LEMMA BraceTurns == ParseBraceLiteral => Turned
<1>1. /\ At("Brace") \/ At("Brace.first") \/ At("Brace.value") \/ At("Dict.key") \/ At("Dict.colon") \/ At("Dict.pair")
         \/ At("Dict.close") => TopHas("curly")
      /\ Fresh(F("Brace.first"), "curly") /\ Fresh(F("Brace.value"), "curly") /\ Fresh(F("Dict.key"), "curly")
      /\ Fresh(F("Dict.colon"), "curly") /\ Fresh(F("Dict.pair"), "curly") /\ Fresh(F("Dict.close"), "curly")
      /\ F("Brace.first").at # "FString" /\ F("Brace.value").at # "FString" /\ F("Dict.colon").at # "FString"
      /\ F("Dict.pair").at # "FString" /\ Fresh(EXPR, "none")
  BY TopHolds, NamedFrames DEF CurlyAt
<1>2. ":" \notin Brackets /\ (\A t \in {":"} : t \notin Brackets) /\ Primary.kind # "INVALID"
  BY Kinds, NoBrackets DEF Words
<1>3. Fresh(IF cur = "for" THEN Clauses("}") ELSE Elements("}"), "curly")
  BY Zenon, ToldFrames
<1>4. TopHas("curly") /\ cur = "}" /\ Take => Due("curly", "}", "none")
  BY Zenon, DueBrackets DEF Due
<1> QED BY ONLY Zenon, <1>1, <1>2, <1>3, <1>4, DueBrackets, ToldFrames, Ways, BracketWays, Expected, ReadsTurn
        DEF ParseBraceLiteral

LEMMA FStringTurns == ParseFString => Turned
<1>1. /\ At("FString") => TopHas("text")
      /\ At("FString.format") \/ At("FString.close") => TopHas("field")
      /\ Fresh(F("FString.format"), "field") /\ F("FString.format").at # "FString" /\ Fresh(F("FString.close"), "field")
      /\ Fresh(F("FString"), "text") /\ (At("FString") => Fresh(Top, "text")) /\ Fresh(EXPR, "none")
  BY TopHolds, NamedFrames, FreshFrames DEF At
<1>2. "string" \notin Brackets /\ "format" \notin Brackets /\ Primary.kind # "INVALID"
  BY Kinds, NoBrackets DEF Words
<1>3. TopHas("text") /\ cur = "fend" /\ Take => Due("text", "fend", "none")
  BY Zenon, DueBrackets DEF Due
<1>4. TopHas("text") /\ cur = "{" /\ Take => Due("text", "{", "field")
  BY Zenon, DueBrackets DEF Due
<1> QED BY ONLY Zenon, <1>1, <1>2, <1>3, <1>4, DueBrackets, Ways, BracketWays, Expected, ReadsTurn DEF ParseFString

LEMMA ExpressionTurns == Given /\ ParseExpression => Turned
BY PrecedenceTurns, GroupingTurns, UnaryTurns, BinaryTurns, LogicalTurns, CallTurns, IndexTurns, AttrTurns, CompareTurns,
   ConditionalTurns, AwaitTurns, LambdaTurns, ClausesTurn, ElementsTurn, ListTurns, BraceTurns, FStringTurns
   DEF ParseExpression

----------------------------------------------------------------------------
(* Simple statements.                                                        *)

\* The token a statement was called for is no bracket, but that of a block.
LEMMA LedWord == Given => \A a \in LeadAt \ {"Block"} : At(a) => cur \notin Brackets
<1> SUFFICES ASSUME Given, NEW a \in LeadAt \ {"Block"}, At(a) PROVE cur \notin Brackets
  OBVIOUS
<1>1. /\ (At("If") => cur = "if") /\ (At("For") => cur = "for") /\ (At("While") => cur = "while")
      /\ (At("Try") => cur = "try") /\ (At("With") => cur = "with") /\ (At("Select") => cur = "select")
      /\ (At("Class") => cur = "class") /\ (At("Return") => cur = "return") /\ (At("Raise") => cur = "raise")
      /\ (At("Del") => cur = "del") /\ (At("Global") => cur = "global")
      /\ (At("Break") => cur \in {"break", "continue"}) /\ (At("Pass") => cur = "pass")
      /\ (At("Func") => cur = "func") /\ (At("Items.star") => cur \in Ident) /\ (At("Call.equal") => cur = "=")
  BY Zenon DEF Given, Led, At
<1>2. cur \in Words
  BY <1>1, ZenonT(40) DEF LeadAt, Words
<1> QED BY <1>2, NoBrackets

\* Where a statement holds no bracket.
LEMMA BareTop ==
  /\ \A a \in LeadAt \ {"Call.equal"} : At(a) => TopHas("none")
  /\ \A a \in BottomAt : At(a) => TopHas("none")
BY OpenedFrames DEF At, TopHas, BottomAt

LEMMA ItemsTurn == Given /\ ParseSimpleItems => Turned
<1> SUFFICES ASSUME Given PROVE ParseSimpleItems => Turned
  OBVIOUS
<1>1. /\ At("Items") \/ At("Items.star") \/ At("Items.item") => TopHas("none")
      /\ Fresh(Go("Items.item"), "none") /\ Go("Items.item").at # "FString" /\ \A m : Fresh(Expr(m), "none")
  BY TopHolds, BareTop, NamedFrames, FreshFrames, Renamed DEF PlainAt, LeadAt, Given
<1>2. ASSUME At("Items"), cur = "*", ahead \in Ident, Take, Become(Go("Items.star")) PROVE Turned
  <2>1. Calm
    BY <1>2, NoBrackets, ReadsTurn DEF Words
  <2>2. cur' \in Ident
    BY <1>2, AheadTaken DEF Ident
  <2>3. Go("Items.star").at = "Items.star" /\ "Items.star" \in LeadAt /\ "Items.star" # "Call.equal"
    BY Renamed DEF Given, LeadAt
  <2>4. Opened(Go("Items.star")) = "none"
    BY <2>3, OpenedFrames
  <2>5. Fit(Go("Items.star"), "none")
    BY Zenon, <2>2, <2>3, <2>4 DEF Fit, Led, BottomAt
  <2> QED BY <1>1, <1>2, <2>1, <2>5, Ways
<1>3. At("Items.star") => cur \notin Brackets
  BY LedWord DEF LeadAt
<1>4. Star.kind # "INVALID"
  BY DEF Star, Node
<1>5. ASSUME At("Items.item"), NEW items PROVE /\ Fresh([Top EXCEPT !.at = "Items", !.items = items], "none")
                                               /\ Fresh([at |-> Top.then, items |-> items], "none")
  <2>1. Has(Top, {"at", "min", "items", "then"}) /\ Top.then \in {"Reinterpret", "For.in"}
    BY <1>5 DEF Given, Shaped, At, ItemsAt
  <2>2. [Top EXCEPT !.at = "Items", !.items = items].at = "Items"
    BY <2>1 DEF Has
  <2>3. [at |-> Top.then, items |-> items].at = Top.then /\ {"Items", "Reinterpret", "For.in"} \subseteq PlainAt
    BY DEF PlainAt
  <2> QED BY ONLY Zenon, <2>1, <2>2, <2>3, FreshFrames
<1> QED BY ONLY Zenon, <1>1, <1>2, <1>3, <1>4, <1>5, Ways, ReadsTurn DEF ParseSimpleItems

LEMMA ReinterpretTurns == Given /\ Reinterpret => Turned
<1> SUFFICES ASSUME Given PROVE Reinterpret => Turned
  OBVIOUS
<1>1. /\ At("Reinterpret") \/ At("Values") => TopHas("none")
      /\ Fresh(EXPR, "none")
      /\ \A o, i, n : LET f == [at |-> "Values", op |-> o, items |-> i, values |-> n]
                      IN  Fresh(f, "none") /\ f.at # "FString"
  BY TopHolds, NamedFrames, FreshFrames DEF PlainAt
<1>4. ASSUME At("Values"), NEW n PROVE Fresh([Top EXCEPT !.values = n], "none") /\ [Top EXCEPT !.values = n].at # "FString"
  <2>1. [Top EXCEPT !.values = n].at = "Values" /\ "Values" \in PlainAt /\ "Values" # "FString"
    BY <1>4, Renamed DEF Given, At, PlainAt
  <2> QED BY ONLY Zenon, <2>1, FreshFrames
<1>2. cur \in AssignOp \cup {"++"} => cur \notin Brackets
  BY NoBrackets DEF AssignOp, Words
<1>3. "," \notin Brackets
  BY NoBrackets DEF Words
<1> QED BY ONLY Zenon, <1>1, <1>2, <1>3, <1>4, Ways, ReadsTurn DEF Reinterpret

LEMMA NamesTurn == ParseNames => Turned
<1>1. /\ At("Names") \/ At("Names.comma") => TopHas("none")
      /\ Fresh(F("Names.comma"), "none") /\ Fresh(Names, "none")
  BY TopHolds, NamedFrames DEF PlainAt, Names
<1>2. (\A t \in Ident : t \notin Brackets) /\ "," \notin Brackets
  BY NoBrackets DEF Words
<1> QED BY ONLY Zenon, <1>1, <1>2, Ways, Expected, ReadsTurn DEF ParseNames

LEMMA ImportTurns == ParseImport => Turned
<1>1. /\ At("Import") \/ At("Import.path") \/ At("Import.as") \/ At("Import.name") \/ At("From.path") \/ At("From.import")
         \/ At("From.names") => TopHas("none")
      /\ At("From.group") \/ At("From.comma") \/ At("From.close") => TopHas("round")
      /\ Fresh(F("Import.path"), "none") /\ Fresh(F("Import.as"), "none") /\ Fresh(F("Import.name"), "none")
      /\ Fresh(F("From.path"), "none") /\ Fresh(F("From.import"), "none") /\ Fresh(F("From.names"), "none")
      /\ Fresh(Names, "none")
      /\ Fresh(F("From.group"), "round") /\ Fresh(F("From.comma"), "round") /\ Fresh(F("From.close"), "round")
  BY TopHolds, NamedFrames DEF PlainAt, RoundAt, Names
<1>2. /\ \A t \in Ident : t \notin Brackets
      /\ \A t \in {"string"} : t \notin Brackets
      /\ \A t \in {"import"} : t \notin Brackets
      /\ "import" \notin Brackets /\ "as" \notin Brackets /\ "from" \notin Brackets
  BY NoBrackets, ZenonT(40) DEF Words
<1>3. TopHas("none") /\ cur = "(" /\ Take => Due("none", "(", "round")
  BY Zenon, DueBrackets DEF Due
<1> QED BY ONLY Zenon, <1>1, <1>2, <1>3, DueBrackets, Ways, BracketWays, Expected, ReadsTurn DEF ParseImport

LEMMA ReturnTurns == Given /\ (ParseReturn \/ ParseRaise) => Turned
<1> SUFFICES ASSUME Given PROVE ParseReturn \/ ParseRaise => Turned
  OBVIOUS
<1>1. /\ At("Return") \/ At("Return.value") \/ At("Return.comma") \/ At("Raise") \/ At("Raise.from") => TopHas("none")
      /\ Fresh(F("Return.value"), "none") /\ Fresh(F("Return.comma"), "none") /\ Fresh(F("Raise.from"), "none")
      /\ F("Return.comma").at # "FString" /\ F("Raise.from").at # "FString" /\ Fresh(EXPR, "none")
  BY TopHolds, BareTop, NamedFrames DEF PlainAt, LeadAt
<1>2. (At("Return") \/ At("Raise") => cur \notin Brackets) /\ "," \notin Brackets /\ "from" \notin Brackets
  BY LedWord, NoBrackets DEF LeadAt, Words
<1> QED BY ONLY Zenon, <1>1, <1>2, Ways, ReadsTurn DEF ParseReturn, ParseRaise

LEMMA DelTurns == Given /\ (ParseDel \/ ParseGlobal \/ ParseBreakContinue \/ ParsePass) => Turned
<1> SUFFICES ASSUME Given PROVE ParseDel \/ ParseGlobal \/ ParseBreakContinue \/ ParsePass => Turned
  OBVIOUS
<1>1. /\ At("Del") \/ At("Del.target") \/ At("Global") \/ At("Break") \/ At("Pass") => TopHas("none")
      /\ Fresh(F("Del.target"), "none") /\ F("Del.target").at # "FString" /\ Fresh(EXPR, "none") /\ Fresh(Names, "none")
      /\ At("Del.target") => Fresh(Top, "none") /\ Top.at # "FString"
  BY TopHolds, BareTop, NamedFrames, FreshFrames DEF PlainAt, LeadAt, Names, At
<1>2. (At("Del") \/ At("Global") \/ At("Break") \/ At("Pass") => cur \notin Brackets) /\ "," \notin Brackets
  BY LedWord, NoBrackets DEF LeadAt, Words
<1> QED BY ONLY Zenon, <1>1, <1>2, Ways, ReadsTurn DEF ParseDel, ParseGlobal, ParseBreakContinue, ParsePass

----------------------------------------------------------------------------
(* Compound statements.                                                      *)

\* A statement called for the token that the parser is at.
LEMMA LeadFrames ==
  /\ \A f : f.at \in LeadAt \ {"Call.equal"} /\ Led(f, cur') => Fit(f, "none")
  /\ \A f : f.at = "Block" /\ cur' = "{" => Led(f, cur')
  /\ \A f : f.at = "Func" /\ cur' = "func" => Led(f, cur')
  /\ \A f : f.at = "If" /\ cur' = "if" => Led(f, cur')
<1>1. \A a \in LeadAt \ {"Call.equal"} : a \notin BottomAt
  BY DEF LeadAt, BottomAt
<1>2. ASSUME NEW f, f.at \in LeadAt \ {"Call.equal"}, Led(f, cur') PROVE Fit(f, "none")
  BY <1>1, <1>2, OpenedFrames DEF Fit
<1>3. \A f : f.at = "Block" /\ cur' = "{" => Led(f, cur')
  BY Zenon DEF Led
<1>4. \A f : f.at = "Func" /\ cur' = "func" => Led(f, cur')
  BY Zenon DEF Led
<1>5. \A f : f.at = "If" /\ cur' = "if" => Led(f, cur')
  BY Zenon DEF Led
<1> QED BY ONLY <1>2, <1>3, <1>4, <1>5
LEMMA LeadStatements ==
  /\ Stay /\ cur = "{" => Fit(Block, "none")
  /\ Stay /\ cur = "if" => Fit(F("If"), "none")
  /\ \A a, m : cur' = "func" => Fit(Func(a, m), "none")
  /\ \A a, m : Stay /\ cur = "func" => Fit(Func(a, m), "none")
<1>1. Block.at = "Block" /\ F("If").at = "If" /\ (\A a, m : Func(a, m).at = "Func") /\ (Stay => cur' = cur)
  BY StayKeepsToken DEF Block, F, Func
<1>2. {"Block", "If", "Func"} \subseteq LeadAt \ {"Call.equal"}
  BY DEF LeadAt
<1> QED BY ONLY Zenon, <1>1, <1>2, LeadFrames

LEMMA BlockTurns == Given /\ (ParseBlock \/ ParseRequiredBlock) => Turned
<1> SUFFICES ASSUME Given PROVE ParseBlock \/ ParseRequiredBlock => Turned
  OBVIOUS
<1>1. /\ At("Block") \/ At("RequiredBlock") => TopHas("none")
      /\ At("Block.body") => TopHas("curly") /\ Fresh(Top, "curly") /\ Top.at # "FString"
      /\ Fresh(F("Block.body"), "curly") /\ Fresh(F("Statement"), "none")
  BY TopHolds, BareTop, NamedFrames, FreshFrames DEF PlainAt, CurlyAt, LeadAt, At
<1>2. At("Block") => cur = "{"
  BY Zenon DEF Given, Led, At
<1>3. At("Block") /\ Take => Due("none", "{", "curly")
  BY Zenon, <1>1, <1>2, DueBrackets DEF Due
<1> QED BY ONLY Zenon, <1>1, <1>3, DueBrackets, LeadStatements, Ways, BracketWays, Expected, ReadsTurn
        DEF ParseBlock, ParseRequiredBlock

LEMMA IfTurns == Given /\ ParseIf => Turned
<1> SUFFICES ASSUME Given PROVE ParseIf => Turned
  OBVIOUS
<1>1. /\ At("If") \/ At("If.then") \/ At("If.else") \/ At("Else") => TopHas("none")
      /\ Fresh(F("If.then"), "none") /\ Fresh(F("If.else"), "none") /\ Fresh(F("Else"), "none")
      /\ F("If.then").at # "FString" /\ F("If.else").at # "FString" /\ Fresh(EXPR, "none") /\ Fresh(RequiredBlock, "none")
  BY TopHolds, BareTop, NamedFrames DEF PlainAt, LeadAt, RequiredBlock
<1>2. (At("If") => cur \notin Brackets) /\ "else" \notin Brackets
  BY LedWord, NoBrackets DEF LeadAt, Words
<1>3. Stay => Fit(IF cur = "if" THEN F("If") ELSE RequiredBlock, "none")
  BY Zenon, <1>1, LeadStatements, FreshFit
<1> QED BY ONLY Zenon, <1>1, <1>2, <1>3, Ways, ReadsTurn DEF ParseIf

LEMMA TryTurns == Given /\ ParseTry => Turned
<1> SUFFICES ASSUME Given PROVE ParseTry => Turned
  OBVIOUS
<1>1. /\ At("Try") \/ At("Try.clause") \/ At("Except") \/ At("Except.as") \/ At("Except.name") \/ At("Except.body")
           => TopHas("none")
      /\ Fresh(F("Except"), "none") /\ Fresh(F("Except.as"), "none") /\ Fresh(F("Except.name"), "none")
      /\ Fresh(F("Except.body"), "none") /\ F("Except.as").at # "FString" /\ Fresh(EXPR, "none")
      /\ Fresh(RequiredBlock, "none")
  BY TopHolds, BareTop, NamedFrames DEF PlainAt, LeadAt, RequiredBlock
<1>2. /\ At("Try") => cur \notin Brackets
      /\ "except" \notin Brackets /\ "finally" \notin Brackets /\ "as" \notin Brackets /\ \A t \in Ident : t \notin Brackets
  BY LedWord, NoBrackets DEF LeadAt, Words
<1>3. \A h : Fresh([at |-> "Try.clause", handled |-> h], "none") /\ [at |-> "Try.clause", handled |-> h].at # "FString"
  BY FreshFrames DEF PlainAt
<1> QED BY ONLY Zenon, <1>1, <1>2, <1>3, Ways, Expected, ReadsTurn DEF ParseTry

LEMMA WithTurns == Given /\ ParseWith => Turned
<1> SUFFICES ASSUME Given PROVE ParseWith => Turned
  OBVIOUS
<1>1. /\ At("With") \/ At("With.as") \/ At("With.name") => TopHas("none")
      /\ Fresh(F("With.as"), "none") /\ Fresh(F("With.name"), "none") /\ F("With.as").at # "FString"
      /\ Fresh(EXPR, "none") /\ Fresh(RequiredBlock, "none")
  BY TopHolds, BareTop, NamedFrames DEF PlainAt, LeadAt, RequiredBlock
<1>2. (At("With") => cur \notin Brackets) /\ "as" \notin Brackets /\ \A t \in Ident : t \notin Brackets
  BY LedWord, NoBrackets DEF LeadAt, Words
<1> QED BY ONLY Zenon, <1>1, <1>2, Ways, Expected, ReadsTurn DEF ParseWith

LEMMA CaseTurns == ParseSelectCaseBody \/ ParseSelectCase => Turned
<1>1. /\ At("Case") \/ At("Case.targets") \/ At("Case.comma") \/ At("Case.name") \/ At("Case.assign") \/ At("Case.shape")
         \/ At("Case.colon") \/ At("Case.body") => TopHas("none")
      /\ At("Case.body") => Fresh(Top, "none") /\ Top.at # "FString"
      /\ Fresh(F("Case.colon"), "none") /\ Fresh(F("Case.targets"), "none") /\ Fresh(F("Case.comma"), "none")
      /\ Fresh(F("Case.name"), "none") /\ Fresh(F("Case.assign"), "none") /\ Fresh(F("Case.body"), "none")
      /\ Fresh(EXPR, "none") /\ Fresh(F("Statement"), "none")
  BY TopHolds, NamedFrames, FreshFrames DEF PlainAt, At
<1>2. /\ \A t \in Ident : t \notin Brackets
      /\ \A t \in {":=", "="} : t \notin Brackets
      /\ \A t \in {":"} : t \notin Brackets
      /\ "default" \notin Brackets /\ "case" \notin Brackets
  BY NoBrackets, ZenonT(40) DEF Words
<1>3. \A h : Fresh([at |-> "Case.shape", targets |-> h], "none") /\ [at |-> "Case.shape", targets |-> h].at # "FString"
  BY FreshFrames DEF PlainAt
<1>4. Fresh(IF cur \in Ident THEN F("Case.comma") ELSE F("Case.assign"), "none")
  BY <1>1
<1>5. Expect(Ident) \/ Expect({":=", "="}) \/ Expect({":"}) => Calm
  BY ONLY Zenon, <1>2, Expected
<1>6. ParseSelectCaseBody => Turned
  BY ONLY Zenon, <1>1, Ways, ReadsTurn DEF ParseSelectCaseBody
<1>7. ParseSelectCase => Turned
  BY ONLY ZenonT(60), <1>1, <1>2, <1>3, <1>4, <1>5, Ways, ReadsTurn DEF ParseSelectCase
<1> QED BY ONLY <1>6, <1>7

LEMMA SelectTurns == Given /\ ParseSelect => Turned
<1> SUFFICES ASSUME Given PROVE ParseSelect => Turned
  OBVIOUS
<1>1. /\ At("Select") \/ At("Select.open") => TopHas("none")
      /\ At("Select.body") => TopHas("curly") /\ Fresh(Top, "curly") /\ Top.at # "FString"
      /\ Fresh(F("Select.open"), "none") /\ Fresh(F("Select.body"), "curly") /\ Fresh(F("Case"), "none")
  BY TopHolds, BareTop, NamedFrames, FreshFrames DEF PlainAt, CurlyAt, LeadAt, At
<1>2. At("Select") => cur \notin Brackets
  BY LedWord DEF LeadAt
<1> QED BY ONLY Zenon, <1>1, <1>2, DueBrackets, Ways, BracketWays, Expected, ReadsTurn DEF ParseSelect

LEMMA ParamsTurn == Given /\ ParseParams => Turned
<1> SUFFICES ASSUME Given PROVE ParseParams => Turned
  OBVIOUS
<1>1. /\ At("Params") \/ At("Param") \/ At("Param.default") \/ At("Param.order") => TopHas("round")
      /\ Fresh(Go("Func.close"), "round") /\ Fresh(Go("Param.order"), "round") /\ Go("Param.order").at # "FString"
      /\ Fresh(EXPR, "none")
  BY TopHolds, NamedFrames, FreshFrames, Renamed DEF RoundAt, Given
<1>2. ASSUME NEW a \in {"Params", "Param", "Param.default", "Func.close"}, NEW x
      PROVE  /\ Fresh([Top EXCEPT !.at = a, !.kind = x], "round") /\ Fresh([Top EXCEPT !.at = a, !.names = x], "round")
             /\ Fresh([Top EXCEPT !.at = a, !.seen = x], "round")
  <2>1. a \in RoundAt \ {"Call.equal"}
    BY DEF RoundAt
  <2>2. /\ [Top EXCEPT !.at = a, !.kind = x].at = a /\ [Top EXCEPT !.at = a, !.names = x].at = a
        /\ [Top EXCEPT !.at = a, !.seen = x].at = a
    BY Renamed DEF Given
  <2> QED BY ONLY Zenon, <2>1, <2>2, FreshFrames
<1>4. (IF cur = "," THEN "Params" ELSE "Func.close") \in {"Params", "Param", "Param.default", "Func.close"}
  OBVIOUS
<1>3. /\ cur \in DOMAIN ParamKind => cur \notin Brackets
      /\ cur \in Ident \cup {"self"} => cur \notin Brackets
      /\ "=" \notin Brackets /\ "," \notin Brackets
  BY NoBrackets, ZenonT(40) DEF Words, ParamKind
<1> QED BY ONLY Zenon, <1>1, <1>2, <1>3, <1>4, Ways, ReadsTurn DEF ParseParams

LEMMA FuncTurns == Given /\ (ParseFuncHead \/ ParseFuncBody) => Turned
<1> SUFFICES ASSUME Given PROVE ParseFuncHead \/ ParseFuncBody => Turned
  OBVIOUS
<1>1. /\ At("Func") \/ At("Func.name") \/ At("Func.open") \/ At("Func.body") => TopHas("none")
      /\ At("Func.close") => TopHas("round")
      /\ Fresh(Go("Func.name"), "none") /\ Fresh(Go("Func.open"), "none") /\ Fresh(RequiredBlock, "none")
  BY TopHolds, BareTop, NamedFrames, FreshFrames, Renamed DEF PlainAt, RoundAt, LeadAt, RequiredBlock, Given
<1>2. (At("Func") => cur \notin Brackets) /\ \A t \in Ident : t \notin Brackets
  BY LedWord, NoBrackets DEF LeadAt, Words
<1>3. /\ \A a, m : Fresh(Params(a, m), "round")
      /\ \A c, a, m : LET f == [at |-> "Func.body", saved |-> c, async |-> a, method |-> m]
                      IN  Fresh(f, "none") /\ f.at # "FString"
  BY FreshFrames DEF Params, RoundAt, PlainAt
<1> QED BY ONLY Zenon, <1>1, <1>2, <1>3, DueBrackets, Ways, BracketWays, Expected, ReadsTurn
        DEF ParseFuncHead, ParseFuncBody

LEMMA ClassTurns == Given /\ (ParseClassHead \/ ParseClassMember \/ ParseClassEnds) => Turned
<1> SUFFICES ASSUME Given PROVE ParseClassHead \/ ParseClassMember \/ ParseClassEnds => Turned
  OBVIOUS
<1>1. /\ At("Class") \/ At("Class.name") \/ At("Class.super") \/ At("Class.open") => TopHas("none")
      /\ At("Class.body") \/ At("Class.method") \/ At("Class.end") => TopHas("curly")
      /\ Fresh(F("Class.name"), "none") /\ Fresh(F("Class.super"), "none") /\ Fresh(F("Class.open"), "none")
      /\ F("Class.open").at # "FString" /\ Fresh(EXPR, "none")
      /\ Fresh(F("Class.body"), "curly") /\ Fresh(F("Class.end"), "curly") /\ F("Class.end").at # "FString"
      /\ \A s, a : Fresh(Method(s, a), "curly")
  BY TopHolds, BareTop, NamedFrames, FreshFrames DEF PlainAt, CurlyAt, LeadAt, Method
<1>2. /\ At("Class") => cur \notin Brackets
      /\ \A t \in Ident : t \notin Brackets
      /\ "<" \notin Brackets /\ "static" \notin Brackets /\ "async" \notin Brackets /\ ";" \notin Brackets
  BY LedWord, NoBrackets DEF LeadAt, Words
<1>3. ParseClassHead => Turned
  BY ONLY Zenon, <1>1, <1>2, Ways, Expected, ReadsTurn DEF ParseClassHead
<1>4. ParseClassMember => Turned
  BY ONLY Zenon, <1>1, <1>2, LeadStatements, Ways, ReadsTurn DEF ParseClassMember
<1>5. ParseClassEnds => Turned
  BY ONLY Zenon, <1>1, DueBrackets, Ways, BracketWays, Expected DEF ParseClassEnds
<1> QED BY <1>3, <1>4, <1>5

LEMMA LoopTurns == Given /\ (ParseFor \/ ParseWhile \/ ParseLoop) => Turned
<1> SUFFICES ASSUME Given PROVE ParseFor \/ ParseWhile \/ ParseLoop => Turned
  OBVIOUS
<1>1. /\ At("For") \/ At("For.first") \/ At("For.in") \/ At("For.init") \/ At("For.condition") \/ At("For.post")
         \/ At("While") \/ At("Loop") \/ At("Loop.body") => TopHas("none")
      /\ Fresh(F("For.first"), "none") /\ Fresh(F("Loop"), "none") /\ Fresh(F("For.init"), "none")
      /\ Fresh(F("For.condition"), "none") /\ Fresh(F("Loop.body"), "none")
      /\ F("Loop").at # "FString" /\ F("For.init").at # "FString" /\ F("For.condition").at # "FString"
      /\ F("Loop.body").at # "FString" /\ Fresh(EXPR, "none") /\ Fresh(RequiredBlock, "none")
  BY TopHolds, BareTop, NamedFrames DEF PlainAt, LeadAt, RequiredBlock
<1>2. /\ At("For") \/ At("While") => cur \notin Brackets
      /\ "in" \notin Brackets /\ \A t \in {";"} : t \notin Brackets
  BY LedWord, NoBrackets DEF LeadAt, Words
<1>3. /\ \A m, t : Fresh(Items(m, t), "none")
      /\ \A i : Fresh([at |-> "Reinterpret", items |-> i], "none")
      /\ \A c : Fresh([at |-> "For.post", saved |-> c], "none") /\ [at |-> "For.post", saved |-> c].at # "FString"
      /\ Fresh(Simple, "none")
  BY FreshFrames DEF Items, Simple, PlainAt
<1>4. Expect({";"}) => Calm
  BY ONLY Zenon, <1>2, Expected
<1>5. ParseFor => Turned
  BY ONLY ZenonT(60), <1>1, <1>2, <1>3, <1>4, Ways, ReadsTurn DEF ParseFor
<1>6. ParseWhile => Turned
  BY ONLY Zenon, <1>1, <1>2, Ways, ReadsTurn DEF ParseWhile
<1>7. ParseLoop => Turned
  BY ONLY ZenonT(60), <1>1, <1>3, <1>4, LeadStatements, Ways, ReadsTurn DEF ParseLoop
<1> QED BY ONLY <1>5, <1>6, <1>7

\* The routine that a keyword calls is led by it.
LEMMA KeywordFits == Stay /\ cur \in DOMAIN Keyword => Fit(F(Keyword[cur]), "none")
<1> SUFFICES ASSUME Stay, cur \in DOMAIN Keyword PROVE Fit(F(Keyword[cur]), "none")
  OBVIOUS
<1> DEFINE f == F(Keyword[cur])
<1>1. \/ cur = "if" /\ f.at = "If"
      \/ cur = "for" /\ f.at = "For"
      \/ cur = "while" /\ f.at = "While"
      \/ cur = "try" /\ f.at = "Try"
      \/ cur = "with" /\ f.at = "With"
      \/ cur = "select" /\ f.at = "Select"
      \/ cur = "class" /\ f.at = "Class"
      \/ f.at = "Import"
      \/ cur = "return" /\ f.at = "Return"
      \/ cur = "raise" /\ f.at = "Raise"
      \/ cur = "del" /\ f.at = "Del"
      \/ cur = "global" /\ f.at = "Global"
      \/ cur \in {"break", "continue"} /\ f.at = "Break"
      \/ cur = "pass" /\ f.at = "Pass"
  BY DEF Keyword, F
<1>2. cur' = cur
  BY StayKeepsToken
<1>3. f.at \in (LeadAt \ {"Call.equal"}) \cup {"Import"}
  BY <1>1 DEF LeadAt
<1> HIDE DEF f
<1>4. f.at # "Import" => Led(f, cur')
  BY Zenon, <1>1, <1>2 DEF Led
<1>5. f.at = "Import" => Fit(f, "none")
  BY FreshFrames, FreshFit DEF PlainAt
<1> QED BY <1>3, <1>4, <1>5, LeadFrames DEF f

LEMMA StatementTurns == ParseStatement => Turned
<1>1. /\ At("Statement") => TopHas("none")
      /\ Fresh(Simple, "none") /\ \A b : Fresh(Ending(b), "none") /\ Ending(b).at # "FString"
  BY TopHolds, FreshFrames DEF PlainAt, Simple, Items, Ending
<1>2. "async" \notin Brackets
  BY NoBrackets DEF Words
<1>3. Take /\ ahead = "func" => cur' = "func"
  BY AheadTaken
<1> QED BY ONLY Zenon, <1>1, <1>2, <1>3, LeadStatements, KeywordFits, Ways, ReadsTurn DEF ParseStatement

LEMMA EndTurns == ~panic /\ ParseStatementEnd => Turned
<1>1. At("Statement.end") => TopHas("none")
  BY TopHolds DEF PlainAt
<1>2. ";" \notin Brackets
  BY NoBrackets DEF Words
<1>3. Expect({";"}) => (cur = ";" /\ Calm) \/ Faulty
  <2>1. Expect({";"}) => Faulty \/ (Take /\ cur \in {";"})
    BY ONLY Zenon, ReadsTurn
  <2>2. cur \in {";"} => cur = ";"
    OBVIOUS
  <2>3. Take /\ cur = ";" => Calm
    BY ONLY <1>2, ReadsTurn
  <2> QED BY ONLY Zenon, <2>1, <2>2, <2>3
<1>4. Faulty => Turned
  BY Ways
<1>5. Calm /\ At("Statement.end") /\ Done => Turned
  BY <1>1, Ways
<1>6. Stay \/ Read(FALSE, cur = ";", FALSE) => Calm
  BY <1>2, ReadsTurn
<1> QED BY ONLY Zenon, <1>3, <1>4, <1>5, <1>6 DEF ParseStatementEnd

\* The file itself is the call at the bottom.
LEMMA FileTurns == Given /\ (Advancing \/ ParseNext) => Turned
<1> SUFFICES ASSUME Given PROVE Advancing \/ ParseNext => Turned
  OBVIOUS
<1>1. F("SourceFile").at = "SourceFile" /\ F("Statement").at = "Statement" /\ "Statement" \in PlainAt
      /\ Nothing.kind # "INVALID" /\ {"Start", "SourceFile"} \subseteq BottomAt
  BY Kinds DEF F, PlainAt, BottomAt
<1>2. (At("Start") => TopHas("none")) /\ (At("SourceFile") => TopHas("none"))
  BY BareTop DEF BottomAt
<1>3. ASSUME NEW f, f.at = "SourceFile"
      PROVE  Opened(f) = "none" /\ Led(f, cur') /\ Resting(f)
  <2>1. Opened(f) = "none"
    BY <1>3, OpenedFrames
  <2>2. Led(f, cur')
    BY Zenon, <1>3 DEF Led
  <2>3. Resting(f)
    BY <1>3 DEF Resting, Ready, LeadAt
  <2> QED BY <2>1, <2>2, <2>3
<1>4. ASSUME Advancing PROVE Turned
  <2>1. cur = "START"
    BY Zenon, <1>4 DEF Given, Led, At, Advancing
  <2>2. Calm
    BY <1>4, <2>1, NoBrackets, ReadsTurn DEF Advancing, Words
  <2>3. Kin(F("SourceFile"))
    BY <1>1, <1>4 DEF Kin, Advancing, At
  <2>4. Holding("none") /\ Whole
    BY <1>1, <1>3, <1>4, <2>3 DEF Holding, Whole, Advancing, Become
  <2> QED BY <1>2, <1>4, <2>2, <2>4, Turning DEF Moved, TopHas, Advancing
<1>5. ASSUME ParseNext PROVE Turned
  <2>1. Calm
    BY <1>5, ReadsTurn DEF ParseNext
  <2>2. Top.at = "SourceFile" /\ Kin(Top)
    BY <1>5 DEF ParseNext, At, Kin
  <2>3. Fit(F("Statement"), "none")
    BY <1>1, NamedFrames, FreshFit
  <2>4. Led(F("Statement"), cur') /\ F("Statement").at \notin BottomAt /\ Opened(F("Statement")) = "none"
    BY <2>3 DEF Fit
  <2>5. stack' = Pop(stack) \o <<Top, F("Statement")>> /\ ret' = Nothing
    BY <1>5 DEF ParseNext, Call
  <2>6. Resting(Top) /\ Opened(Top) = "none"
    BY <1>3, <2>2
  <2>7. Holding("none")
    BY ONLY Zenon, <2>2, <2>4, <2>5, <2>6 DEF Holding
  <2> QED BY <1>1, <2>1, <2>5, <2>6, <2>7, Turning DEF Moved, Whole
<1> QED BY <1>4, <1>5

\* Every routine of the parser takes brackets in turn.
LEMMA EveryTurn == Given /\ ~panic /\ (ParseExpression \/ ParseQuietly \/ ParseInContext) => Turned
<1> SUFFICES ASSUME Given, ~panic PROVE ParseExpression \/ ParseQuietly \/ ParseInContext => Turned
  OBVIOUS
<1>1. ~Synchronize
  BY Zenon DEF Given, Led, Synchronize, At
<1>2. ParseQuietly => Turned
  BY <1>1, ItemsTurn, ReinterpretTurns, NamesTurn, ImportTurns, ReturnTurns, DelTurns, BlockTurns, IfTurns, TryTurns,
     WithTurns, CaseTurns, SelectTurns, ParamsTurn, FuncTurns, ClassTurns, LoopTurns, StatementTurns, EndTurns, FileTurns
     DEF ParseQuietly
<1>3. ParseInContext => Turned
  BY LambdaTurns, FuncTurns, ClassTurns, LoopTurns DEF ParseInContext
<1> QED BY <1>2, <1>3, ExpressionTurns

----------------------------------------------------------------------------
(* Every routine reads the tokens in the same way.                           *)

Reads == \E before, take, after : Read(before, take, after)
LEMMA WaysToRead ==
  /\ Stay \/ Take \/ Report \/ Skip => Reads
  /\ \A c : ReportIf(c) => Reads
  /\ \A ts : Expect(ts) => Reads
  /\ \A b, t, a : Read(b, t, a) => Reads
  /\ \A f, g : Comma(f, g) => Reads
<1>1. \A b, t, a : Read(b, t, a) => Reads
  BY DEF Reads
<1>2. Stay \/ Take \/ Report \/ Skip => Reads
  BY <1>1 DEF Stay, Take, Report, Skip
<1> QED BY <1>1, <1>2 DEF ReportIf, Expect, Comma

LEMMA ExpressionReads == ParseExpression => Reads
<1>1. ParsePrecedence \/ ParseGrouping \/ ParseUnary \/ ParseBinary \/ ParseLogical => Reads
  BY ONLY Zenon, WaysToRead DEF ParsePrecedence, ParseGrouping, ParseUnary, ParseBinary, ParseLogical
<1>2. ParseCall \/ ParseIndexOrSlice \/ ParseAttr \/ ParseCompareChain \/ ParseConditional => Reads
  BY ONLY Zenon, WaysToRead DEF ParseCall, ParseIndexOrSlice, ParseAttr, ParseCompareChain, ParseConditional
<1>3. ParseAwait \/ ParseSelfSuper \/ ParseLambdaParams \/ ParseComprehensionClauses \/ ParseElements => Reads
  BY ONLY Zenon, WaysToRead DEF ParseAwait, ParseSelfSuper, ParseLambdaParams, ParseComprehensionClauses, ParseElements
<1>4. ParseListOrComprehension \/ ParseBraceLiteral \/ ParseFString => Reads
  BY ONLY Zenon, WaysToRead DEF ParseListOrComprehension, ParseBraceLiteral, ParseFString
<1> QED BY <1>1, <1>2, <1>3, <1>4 DEF ParseExpression
LEMMA ContextReads == ParseInContext => Reads
BY ONLY Zenon, WaysToRead DEF ParseInContext, ParseLambdaBody, ParseFuncBody, ParseClassEnds, ParseLoop
LEMMA QuietReads == ParseQuietly => Reads \/ Synchronize
<1>1. ParseSimpleItems \/ Reinterpret \/ ParseNames \/ ParseImport \/ ParseReturn \/ ParseRaise \/ ParseDel => Reads
  BY ONLY Zenon, WaysToRead DEF ParseSimpleItems, Reinterpret, ParseNames, ParseImport, ParseReturn, ParseRaise, ParseDel
<1>2. ParseGlobal \/ ParseBreakContinue \/ ParsePass \/ ParseBlock \/ ParseRequiredBlock \/ ParseIf \/ ParseTry => Reads
  BY ONLY Zenon, WaysToRead DEF ParseGlobal, ParseBreakContinue, ParsePass, ParseBlock, ParseRequiredBlock, ParseIf, ParseTry
<1>3. ParseWith \/ ParseSelectCaseBody \/ ParseSelectCase \/ ParseSelect \/ ParseParams \/ ParseFuncHead => Reads
  BY ONLY Zenon, WaysToRead
     DEF ParseWith, ParseSelectCaseBody, ParseSelectCase, ParseSelect, ParseParams, ParseFuncHead
<1>4. ParseClassHead \/ ParseClassMember \/ ParseFor \/ ParseWhile => Reads
  BY ONLY Zenon, WaysToRead DEF ParseClassHead, ParseClassMember, ParseFor, ParseWhile
<1>5. ParseStatement \/ ParseStatementEnd \/ Advancing \/ ParseNext => Reads
  BY ONLY Zenon, WaysToRead DEF ParseStatement, ParseStatementEnd, Advancing, ParseNext
<1> QED BY <1>1, <1>2, <1>3, <1>4, <1>5 DEF ParseQuietly

LEMMA ParseCounts == Counting /\ Parse => Counting' /\ diags' >= diags
<1> SUFFICES ASSUME Counting, Parse PROVE Counting' /\ diags' >= diags
  OBVIOUS
<1>1. /\ atEntry' = atEntry
      /\ LookAhead \/ ParseExpression \/ ParseQuietly \/ ParseInContext
  BY DEF Parse
<1>2. LookAhead \/ Synchronize \/ Reads
  BY <1>1, ExpressionReads, QuietReads, ContextReads
<1>3. ASSUME Reads PROVE Counting' /\ diags' >= diags
  BY <1>1, <1>3, ReadCounts DEF Reads
<1> QED BY <1>1, <1>2, <1>3, LookAheadCounts, SynchronizeCounts

----------------------------------------------------------------------------
(* The brackets that the calls under way hold open.                          *)

\* v is what is open when each call of s has opened its own on top of the one that called it;
\* no call but the last is in the text of an f-string.
Layered(s, v) ==
  \E b : /\ b[0] = <<>> /\ b[Len(s)] = v
         /\ \A i \in 1..Len(s) : IsSeq(b[i - 1]) /\ ~Ends(b[i - 1], "f") /\ b[i] = Put(b[i - 1], Opened(s[i]))
Holdings == {"none", "round", "square", "curly", "text", "field"}

LEMMA OpenedKinds == \A f : Opened(f) \in Holdings /\ (f.at # "FString" => Opened(f) # "text")
<1> SUFFICES ASSUME NEW f PROVE Opened(f) \in Holdings /\ (f.at # "FString" => Opened(f) # "text")
  OBVIOUS
<1>1. CASE f.close = "]"
  BY <1>1 DEF Opened, Holdings
<1>2. CASE f.close # "]"
  BY <1>2 DEF Opened, Holdings
<1> QED BY <1>1, <1>2

LEMMA PutKinds ==
  ASSUME NEW b, IsSeq(b), NEW k \in Holdings
  PROVE  IsSeq(Put(b, k)) /\ (~Ends(b, "f") /\ k # "text" => ~Ends(Put(b, k), "f"))
<1>1. ASSUME NEW x PROVE IsSeq(Append(b, x)) /\ (x # "f" => ~Ends(Append(b, x), "f"))
  BY PushedEnds DEF Ends
<1>2. IsSeq(Append(Append(b, "f"), "i")) /\ ~Ends(Append(Append(b, "f"), "i"), "f")
  <2>1. IsSeq(Append(b, "f"))
    BY <1>1
  <2> QED BY <2>1, PushedEnds DEF Ends
<1>3. /\ Put(b, "none") = b /\ Put(b, "round") = Append(b, "(") /\ Put(b, "square") = Append(b, "[")
      /\ Put(b, "curly") = Append(b, "{") /\ Put(b, "text") = Append(b, "f")
      /\ Put(b, "field") = Append(Append(b, "f"), "i")
  BY Zenon DEF Put
<1>4. "(" # "f" /\ "[" # "f" /\ "{" # "f"
  BY Zenon
<1>5. \/ k = "none" \/ k = "round" \/ k = "square" \/ k = "curly" \/ k = "text" \/ k = "field"
  BY DEF Holdings
<1> QED BY ONLY Zenon, IsSeq(b), <1>1, <1>2, <1>3, <1>4, <1>5

LEMMA LayeredPush ==
  ASSUME NEW s, IsSeq(s), NEW v, IsSeq(v), ~Ends(v, "f"), Layered(s, v), NEW f
  PROVE  Layered(Append(s, f), Put(v, Opened(f)))
<1>1. PICK b : /\ b[0] = <<>> /\ b[Len(s)] = v
               /\ \A i \in 1..Len(s) : IsSeq(b[i - 1]) /\ ~Ends(b[i - 1], "f") /\ b[i] = Put(b[i - 1], Opened(s[i]))
  BY DEF Layered
<1>2. Len(s) \in Nat
  BY DEF IsSeq
<1>3. PICK n : n = Len(s)
  OBVIOUS
<1> DEFINE t == Append(s, f)
           w == Put(v, Opened(f))
<1>4. Len(t) = n + 1 /\ t[n + 1] = f /\ \A i \in 1..n : t[i] = s[i]
  BY <1>3, PushFacts
<1> HIDE DEF t, w
<1> DEFINE c == [i \in 0..(n + 1) |-> IF i = n + 1 THEN w ELSE b[i]]
<1>5. n \in Nat /\ c[n + 1] = w /\ \A i \in 0..n : c[i] = b[i]
  BY <1>2, <1>3
<1> HIDE DEF c
<1>6. c[0] = <<>> /\ c[Len(t)] = w
  BY <1>1, <1>4, <1>5
<1>7. ASSUME NEW i \in 1..Len(t)
      PROVE  IsSeq(c[i - 1]) /\ ~Ends(c[i - 1], "f") /\ c[i] = Put(c[i - 1], Opened(t[i]))
  <2>1. CASE i = n + 1
    <3>1. i - 1 = n /\ n \in 0..n
      BY <1>5, <2>1
    <3>2. c[i - 1] = v /\ c[i] = w /\ t[i] = f
      BY <1>1, <1>3, <1>4, <1>5, <2>1, <3>1
    <3> QED BY <3>2 DEF w
  <2>2. CASE i # n + 1
    <3>1. i \in 1..n /\ i - 1 \in 0..n /\ i \in 0..n
      BY <1>4, <1>5, <2>2
    <3>2. c[i - 1] = b[i - 1] /\ c[i] = b[i] /\ t[i] = s[i]
      BY <1>4, <1>5, <3>1
    <3>3. IsSeq(b[i - 1]) /\ ~Ends(b[i - 1], "f") /\ b[i] = Put(b[i - 1], Opened(s[i]))
      BY <1>1, <1>3, <3>1
    <3> QED BY <3>2, <3>3
  <2> QED BY <2>1, <2>2
<1> QED BY <1>6, <1>7 DEF Layered, t, w

LEMMA LayeredPop ==
  ASSUME NEW s, IsSeq(s), Len(s) >= 1, NEW v, Layered(s, v)
  PROVE  \E u : Layered(Pop(s), u) /\ IsSeq(u) /\ ~Ends(u, "f") /\ v = Put(u, Opened(s[Len(s)]))
<1>1. PICK b : /\ b[0] = <<>> /\ b[Len(s)] = v
               /\ \A i \in 1..Len(s) : IsSeq(b[i - 1]) /\ ~Ends(b[i - 1], "f") /\ b[i] = Put(b[i - 1], Opened(s[i]))
  BY DEF Layered
<1>2. Len(s) \in Nat
  BY DEF IsSeq
<1>3. PICK n : n = Len(s)
  OBVIOUS
<1> DEFINE t == Pop(s)
<1>4. Len(t) = n - 1 /\ \A i \in 1..(n - 1) : t[i] = s[i]
  BY <1>3, PopFacts
<1> HIDE DEF t
<1>5. n \in Nat /\ n >= 1 /\ n \in 1..n
  BY <1>2, <1>3
<1>6. IsSeq(b[n - 1]) /\ ~Ends(b[n - 1], "f") /\ v = Put(b[n - 1], Opened(s[n]))
  BY <1>1, <1>3, <1>5
<1>7. ASSUME NEW i \in 1..(n - 1)
      PROVE  IsSeq(b[i - 1]) /\ ~Ends(b[i - 1], "f") /\ b[i] = Put(b[i - 1], Opened(t[i]))
  <2>1. i \in 1..n
    BY <1>5
  <2> QED BY <1>1, <1>3, <1>4, <2>1
<1>8. Layered(t, b[n - 1])
  BY <1>1, <1>4, <1>7 DEF Layered
<1> QED BY <1>3, <1>6, <1>8 DEF t

\* The calls below the last wait for no token, and only the first is that of the file.
Stacked(s, v) ==
  /\ IsSeq(s) /\ Layered(s, v)
  /\ \A i \in 1..(Len(s) - 1) : Resting(s[i])
  /\ \A i \in 2..Len(s) : s[i].at \notin BottomAt

LEMMA RestingFacts ==
  \A f : Resting(f) => Led(f, cur') /\ Opened(f) # "text" /\ Opened(f) \in Holdings
<1>1. \A f : Resting(f) => Led(f, cur')
  BY Zenon DEF Resting, Led, Ready, LeadAt
<1> QED BY <1>1, OpenedKinds DEF Resting

LEMMA HoldingStep ==
  ASSUME NEW v, Stacked(stack, v), Len(stack) >= 1,
         NEW u, Layered(Pop(stack), u), IsSeq(u), ~Ends(u, "f"),
         NEW k, Holding(k), Len(stack') >= 1
  PROVE  Stacked(stack', Put(u, k)) /\ Led(Top', cur')
<1> DEFINE s == Pop(stack)
<1>1. PICK n : n = Len(stack)
  OBVIOUS
<1>2. /\ IsSeq(s) /\ Len(s) = n - 1 /\ n \in Nat /\ n >= 1
      /\ \A i \in 1..(n - 1) : s[i] = stack[i]
  BY <1>1, PopFacts DEF Stacked
<1>3. /\ \A i \in 1..(n - 1) : Resting(stack[i])
      /\ \A i \in 2..n : stack[i].at \notin BottomAt
      /\ Top = stack[n]
  BY <1>1 DEF Stacked, Top
<1>4. Layered(s, u)
  OBVIOUS
<1>5. \A b : Put(b, "none") = b
  BY Zenon DEF Put
<1> HIDE DEF s
<1>6. /\ \A i \in 1..Len(s) : Resting(s[i])
      /\ \A i \in 2..Len(s) : s[i].at \notin BottomAt
  BY <1>2, <1>3
<1>7. CASE k = "none" /\ stack' = s
  <2>1. Stacked(stack', Put(u, k))
    BY <1>2, <1>4, <1>5, <1>6, <1>7 DEF Stacked
  <2>2. Top' = s[Len(s)] /\ Len(s) \in 1..Len(s)
    BY <1>2, <1>7 DEF Top
  <2>3. Resting(Top')
    BY <1>6, <2>2
  <2> QED BY <2>1, <2>3, RestingFacts
<1>8. ASSUME NEW f, Opened(f) = k, Led(f, cur'), Kin(f), stack' = Append(s, f)
      PROVE  Stacked(stack', Put(u, k)) /\ Led(Top', cur')
  <2> DEFINE t == Append(s, f)
  <2>1. /\ IsSeq(t) /\ Len(t) = n /\ t[n] = f
        /\ \A i \in 1..(n - 1) : t[i] = s[i]
    BY <1>2, PushFacts
  <2>2. Layered(t, Put(u, k))
    BY <1>2, <1>4, <1>8, LayeredPush
  <2> HIDE DEF t
  <2>3. \A i \in 1..(Len(t) - 1) : Resting(t[i])
    BY <1>2, <1>6, <2>1
  <2>4. ASSUME NEW i \in 2..Len(t) PROVE t[i].at \notin BottomAt
    <3>1. CASE i = n
      BY <1>3, <1>8, <2>1, <3>1 DEF Kin
    <3>2. CASE i # n
      BY <1>2, <1>6, <2>1, <3>2
    <3> QED BY <3>1, <3>2
  <2>5. stack' = t
    BY <1>8 DEF t
  <2> QED BY <1>8, <2>1, <2>2, <2>3, <2>4, <2>5 DEF Stacked, Top
<1>9. ASSUME NEW f, NEW g, Resting(f), Kin(f), Led(g, cur'), g.at \notin BottomAt,
             (Opened(f) = k /\ Opened(g) = "none") \/ (Opened(f) = "none" /\ Opened(g) = k),
             stack' = s \o <<f, g>>
      PROVE  Stacked(stack', Put(u, k)) /\ Led(Top', cur')
  <2> DEFINE t == Append(s, f)
             r == Append(t, g)
             w == Put(u, Opened(f))
  <2>1. /\ IsSeq(t) /\ Len(t) = n /\ t[n] = f
        /\ \A i \in 1..(n - 1) : t[i] = s[i]
    BY <1>2, PushFacts
  <2>2. Layered(t, w)
    BY <1>2, <1>4, LayeredPush
  <2>3. IsSeq(w) /\ ~Ends(w, "f")
    BY <1>9, RestingFacts, PutKinds
  <2> HIDE DEF t, w
  <2>4. /\ IsSeq(r) /\ Len(r) = n + 1 /\ r[n + 1] = g
        /\ \A i \in 1..n : r[i] = t[i]
    BY <2>1, PushFacts
  <2>5. Layered(r, Put(w, Opened(g)))
    BY <2>1, <2>2, <2>3, LayeredPush
  <2>6. Put(w, Opened(g)) = Put(u, k)
    BY <1>5, <1>9 DEF w
  <2>7. stack' = r
    BY <1>2, <1>9, PushTwoIsTwice DEF t
  <2> HIDE DEF r
  <2>8. ASSUME NEW i \in 1..(Len(r) - 1) PROVE Resting(r[i])
    <3>1. CASE i = n
      BY <1>2, <1>9, <2>1, <2>4, <3>1
    <3>2. CASE i # n
      BY <1>2, <1>6, <2>1, <2>4, <3>2
    <3> QED BY <3>1, <3>2
  <2>9. ASSUME NEW i \in 2..Len(r) PROVE r[i].at \notin BottomAt
    <3>1. CASE i = n + 1
      BY <1>9, <2>4, <3>1
    <3>2. CASE i = n
      BY <1>2, <1>3, <1>9, <2>1, <2>4, <3>2 DEF Kin
    <3>3. CASE i # n /\ i # n + 1
      BY <1>2, <1>6, <2>1, <2>4, <3>3
    <3> QED BY <3>1, <3>2, <3>3
  <2> QED BY <1>9, <2>4, <2>5, <2>6, <2>7, <2>8, <2>9 DEF Stacked, Top
<1> QED BY <1>7, <1>8, <1>9 DEF Holding, s

\* What is scanned is what the routines hold, the token they are at, and the one read ahead.
Nested(v) == nest = After(After(v, cur), ahead) /\ (torn <=> TearsAt(v, cur) \/ TearsAt(After(v, cur), ahead))

LEMMA NoTokens == \A v : /\ After(v, "none") = v /\ ~TearsAt(v, "none")
                         /\ After(v, "INVALID") = v /\ ~TearsAt(v, "INVALID")
                         /\ After(v, "START") = v /\ ~TearsAt(v, "START")
                         /\ After(v, "EOF") = v /\ ~TearsAt(v, "EOF")
<1>1. {"none", "INVALID", "START", "EOF"} \cap {"(", ")", "[", "]", "fstart", "fend"} = {}
  OBVIOUS
<1>2. "none" \notin Brackets /\ "INVALID" \notin Brackets /\ "START" \notin Brackets /\ "EOF" \notin Brackets
  BY Zenon DEF Brackets
<1> QED BY ONLY <1>2, AfterNeutral

LEMMA TakenNests ==
  ASSUME NEW w, Taken, nest = After(w, ahead), torn <=> TearsAt(w, ahead)
  PROVE  nest' = After(After(w, cur'), ahead') /\ (torn' <=> TearsAt(w, cur') \/ TearsAt(After(w, cur'), ahead'))
<1>1. ahead' = "none" /\ After(After(w, cur'), ahead') = After(w, cur') /\ ~TearsAt(After(w, cur'), ahead')
  BY NoTokens DEF Taken
<1>2. nest' = After(w, cur') /\ (torn' <=> TearsAt(w, cur'))
  <2>1. CASE Peeked
    BY <2>1 DEF Taken
  <2>2. CASE ~Peeked
    <3>1. nest = w /\ ~torn
      BY <2>2, NoTokens DEF Peeked
    <3> QED BY <2>2, <3>1 DEF Taken
  <2> QED BY <2>1, <2>2
<1> QED BY <1>1, <1>2

LEMMA LookAheadNests ==
  ASSUME NEW v, Nested(v), LookAhead, ahead = "none"
  PROVE  Nested(v)'
<1>1. PICK s : Scan(s) /\ ahead' = s.token
  BY DEF LookAhead
<1>2. cur' = cur
  BY DEF LookAhead
<1>3. nest = After(v, cur) /\ (torn <=> TearsAt(v, cur))
  BY NoTokens DEF Nested
<1>4. nest' = After(nest, ahead') /\ (torn' <=> torn \/ TearsAt(nest, ahead'))
  BY <1>1, ScanNests
<1> QED BY <1>2, <1>3, <1>4 DEF Nested

----------------------------------------------------------------------------
(* A program accepted is whole.                                              *)

\* Until something is reported, each bracket open in what is scanned is one that a call under
\* way has opened, and no call has returned a placeholder.
Clean == /\ ~panic /\ ~flawed /\ ret.kind # "INVALID" /\ Led(Top, cur) /\ (cur = "EOF" => ahead = "none")
         /\ \E v : Stacked(stack, v) /\ Nested(v)
WholeInv == Running => Counting /\ (diags = atEntry => Clean)

LEMMA WholeInit == Init => WholeInv
<1> SUFFICES ASSUME Init PROVE Counting /\ Clean
  BY DEF WholeInv
<1> DEFINE f == F("Start")
<1>1. /\ stack = <<f>> /\ nest = <<>> /\ ~torn /\ cur = "START" /\ ahead = "none" /\ ~panic /\ ~flawed
      /\ atEntry \in {0, 1} /\ diags = atEntry /\ ret = Nothing
  BY DEF Init
<1>2. f.at = "Start" /\ Opened(f) = "none" /\ Nothing.kind # "INVALID"
  BY Kinds, OpenedFrames DEF F
<1>3. Led(f, "START")
  BY Zenon, <1>2 DEF Led
<1> HIDE DEF f
<1>4. IsSeq(stack) /\ Len(stack) = 1 /\ stack[1] = f
  <2>1. <<f>> \in Seq({f}) /\ Len(<<f>>) = 1 /\ <<f>>[1] = f
    OBVIOUS
  <2> QED BY <1>1, <2>1 DEF IsSeq
<1>5. IsSeq(<<>>) /\ ~Ends(<<>>, "f") /\ Put(<<>>, "none") = <<>>
  <2>1. <<>> \in Seq({})
    OBVIOUS
  <2>2. Put(<<>>, "none") = <<>>
    BY Zenon DEF Put
  <2> QED BY <2>1, <2>2 DEF IsSeq, Ends
<1>6. Layered(stack, <<>>)
  <2> DEFINE b == [i \in {0, 1} |-> <<>>]
  <2>1. b[0] = <<>> /\ b[1] = <<>>
    OBVIOUS
  <2> HIDE DEF b
  <2>2. ASSUME NEW i \in 1..Len(stack) PROVE IsSeq(b[i - 1]) /\ ~Ends(b[i - 1], "f") /\ b[i] = Put(b[i - 1], Opened(stack[i]))
    <3>1. i = 1 /\ i - 1 = 0
      BY <1>4
    <3> QED BY <1>2, <1>4, <1>5, <2>1, <3>1
  <2> QED BY <1>4, <2>1, <2>2 DEF Layered
<1>7. Stacked(stack, <<>>)
  BY <1>4, <1>6 DEF Stacked
<1>8. Nested(<<>>)
  BY <1>1, NoTokens DEF Nested
<1>9. Counting
  <2>1. MaxDiags \in Nat /\ MaxDiags > 1
    BY ParserAssumption
  <2> QED BY <1>1, <1>5, <2>1 DEF Counting
<1> QED BY <1>1, <1>2, <1>3, <1>4, <1>7, <1>8, <1>9 DEF Clean, Top

\* A routine that turns leaves the brackets as they were, but for those it took.
LEMMA TurnedClean ==
  ASSUME Clean, Turned, ~Faulty, Len(stack) >= 1, Len(stack') >= 1
  PROVE  ~panic' /\ ret'.kind # "INVALID" /\ Led(Top', cur') /\ (cur' = "EOF" => ahead' = "none")
         /\ \E v : Stacked(stack', v) /\ Nested(v)'
<1>1. PICK v : Stacked(stack, v) /\ Nested(v)
  BY DEF Clean
<1>2. PICK u : Layered(Pop(stack), u) /\ IsSeq(u) /\ ~Ends(u, "f") /\ v = Put(u, Opened(Top))
  BY <1>1, LayeredPop DEF Stacked, Top
<1>3. Whole /\ ret'.kind # "INVALID"
  BY DEF Turned, Whole, Clean
<1>4. ~panic /\ (cur = "EOF" => ahead = "none")
  BY DEF Clean
<1>5. Stay \/ Take => ~panic'
  BY <1>4 DEF Stay, Take, Read
<1>6. Take => Taken
  BY ReadNests DEF Take
<1>7. Taken => ahead' = "none"
  BY DEF Taken
<1>8. CASE Neutral /\ Holding(Opened(Top))
  <2>1. Stacked(stack', v) /\ Led(Top', cur')
    BY <1>1, <1>2, <1>8, HoldingStep
  <2>2. CASE Stay
    <3>1. cur' = cur /\ ahead' = ahead /\ nest' = nest /\ torn' = torn
      BY <2>2 DEF Stay, Read, input
    <3>2. Nested(v)'
      BY <1>1, <3>1 DEF Nested
    <3> QED BY <1>3, <1>4, <1>5, <2>1, <2>2, <3>1, <3>2
  <2>3. CASE Take /\ cur \notin Brackets
    <3>1. nest = After(v, ahead) /\ (torn <=> TearsAt(v, ahead))
      BY <1>1, <2>3, AfterNeutral DEF Nested
    <3>2. Nested(v)'
      BY <1>6, <2>3, <3>1, TakenNests DEF Nested
    <3> QED BY <1>3, <1>5, <1>6, <1>7, <2>1, <2>3, <3>2
  <2> QED BY <1>8, <2>2, <2>3 DEF Neutral
<1>9. ASSUME Take, NEW k, <<Opened(Top), cur, k>> \in Turns, Holding(k)
      PROVE  /\ ~panic' /\ Led(Top', cur') /\ ahead' = "none"
             /\ \E w : Stacked(stack', w) /\ Nested(w)'
  <2> DEFINE w == Put(u, k)
  <2>1. Stacked(stack', w) /\ Led(Top', cur')
    BY <1>1, <1>2, <1>9, HoldingStep
  <2>2. After(v, cur) = w /\ ~TearsAt(v, cur)
    BY <1>2, <1>9, TurnAfter
  <2> HIDE DEF w
  <2>3. nest = After(w, ahead) /\ (torn <=> TearsAt(w, ahead))
    BY <1>1, <2>2 DEF Nested
  <2>4. Nested(w)'
    BY <1>6, <1>9, <2>3, TakenNests DEF Nested
  <2> QED BY <1>5, <1>6, <1>7, <1>9, <2>1, <2>4
<1> QED BY <1>3, <1>8, <1>9 DEF Turned

LEMMA WholeStep == ContextInv /\ TableInv /\ WholeInv /\ [Next]_vars => WholeInv'
<1> SUFFICES ASSUME ContextInv, TableInv, WholeInv, [Next]_vars, Running' PROVE Counting' /\ (diags' = atEntry' => Clean')
  BY DEF WholeInv
<1>1. CASE Parse
  <2>1. Running /\ Counting /\ atEntry' = atEntry /\ Settled(stack, context) /\ Len(stack) >= 1
    BY <1>1 DEF Parse, WholeInv, ContextInv, SilenceInv, Outermost
  <2>2. Counting' /\ diags' >= diags
    BY <1>1, <2>1, ParseCounts
  <2>3. ASSUME diags' = atEntry' PROVE Clean'
    <3>1. diags = atEntry /\ Clean
      <4>1. atEntry \in {0, 1} /\ diags \in atEntry..MaxDiags /\ MaxDiags \in Nat
        BY <2>1, ParserAssumption DEF Counting
      <4>2. diags = atEntry
        BY <2>1, <2>2, <2>3, <4>1
      <4> QED BY <2>1, <4>2 DEF WholeInv
    <3>2. ~flawed /\ ret.kind # "INVALID" /\ ~panic /\ Led(Top, cur)
      BY <3>1 DEF Clean
    <3>3. flawed' <=> ret'.kind = "INVALID"
      BY <1>1, <3>2 DEF Parse
    <3>4. CASE Peeks
      <4>1. LookAhead /\ ahead = "none" /\ cur # "EOF"
        BY <1>1, <3>4, <2>1 DEF Parse, Peeks, Ident
      <4>2. UNCHANGED <<cur, panic, stack, ret>>
        BY <4>1 DEF LookAhead
      <4>3. PICK v : Stacked(stack, v) /\ Nested(v)
        BY <3>1 DEF Clean
      <4>4. Nested(v)'
        BY <4>1, <4>3, LookAheadNests
      <4>5. Stacked(stack', v) /\ Led(Top', cur') /\ ~panic' /\ ret'.kind # "INVALID" /\ cur' # "EOF"
        BY <3>2, <4>1, <4>2, <4>3 DEF Top
      <4> QED BY <3>3, <4>4, <4>5 DEF Clean
    <3>5. CASE ~Peeks
      <4>1. ParseExpression \/ ParseQuietly \/ ParseInContext
        BY <1>1, <3>5 DEF Parse
      <4>2. Given
        BY <2>1, <3>2, Found, TidyReplaced DEF Given, TableInv
      <4>3. Turned
        BY <3>2, <4>1, <4>2, EveryTurn
      <4>4. ~Faulty
        <5>1. ASSUME NEW b, NEW t, NEW a, Read(b, t, a), b \/ a PROVE FALSE
          <6>1. diags' > atEntry
            BY <2>1, <5>1, ReadCounts
          <6>2. diags' \in atEntry'..MaxDiags /\ atEntry' \in {0, 1}
            BY <2>2 DEF Counting
          <6> QED BY <2>1, <2>3, <6>1, <6>2
        <5> QED BY <5>1 DEF Faulty
      <4>5. Len(stack') >= 1
        BY SilenceStep DEF ContextInv, SilenceInv, Outermost
      <4>6. /\ ~panic' /\ ret'.kind # "INVALID" /\ Led(Top', cur') /\ (cur' = "EOF" => ahead' = "none")
            /\ \E v : Stacked(stack', v) /\ Nested(v)'
        BY <2>1, <3>1, <4>3, <4>4, <4>5, TurnedClean
      <4> QED BY <3>3, <4>6 DEF Clean
    <3> QED BY <3>4, <3>5
  <2> QED BY <2>2, <2>3
<1>2. CASE Refuse
  BY <1>2 DEF Refuse, Running
<1>3. CASE Finish
  BY <1>3 DEF Finish, Running
<1>4. CASE Ended \/ UNCHANGED vars
  BY <1>4 DEF Ended, vars, input, WholeInv, Running, Counting, Clean, Stacked, Nested, Top
<1> QED BY <1>1, <1>2, <1>3, <1>4 DEF Next

LEMMA AcceptedInit == Init => AcceptedWhole
BY DEF Init, AcceptedWhole

LEMMA AcceptedStep == ContextInv /\ WholeInv /\ AcceptedWhole /\ [Next]_vars => AcceptedWhole'
<1> SUFFICES ASSUME ContextInv, WholeInv, AcceptedWhole, [Next]_vars, result' = "MS_OK"
             PROVE  ~flawed' /\ nest' = <<>> /\ ~torn'
  BY DEF AcceptedWhole
<1>1. CASE Parse \/ Refuse
  BY <1>1 DEF Parse, Refuse, Running
<1>2. CASE Finish
  <2>1. /\ Running /\ Top.at = "SourceFile" /\ (cur = "EOF" \/ Full) /\ ~(diags > atEntry)
        /\ UNCHANGED <<input, flawed>>
    BY <1>2 DEF Finish, At
  <2>2. Counting /\ Outermost(stack, panic) /\ MaxDiags \in Nat /\ MaxDiags > 1
    BY <2>1, ParserAssumption DEF WholeInv, ContextInv, SilenceInv
  <2>3. diags = atEntry /\ diags < MaxDiags
    BY <2>1, <2>2 DEF Counting
  <2>4. Clean /\ cur = "EOF" /\ ahead = "none"
    BY <2>1, <2>2, <2>3 DEF WholeInv, Clean, Full
  <2>5. PICK v : Stacked(stack, v) /\ Nested(v)
    BY <2>4 DEF Clean
  <2>6. Len(stack) = 1
    <3>1. Len(stack) \in Nat /\ Len(stack) >= 1
      BY <2>2 DEF Outermost, IsSeq
    <3>2. \A i \in 2..Len(stack) : stack[i].at \notin BottomAt
      BY <2>5 DEF Stacked
    <3>3. Top.at \in BottomAt
      BY <2>1 DEF BottomAt
    <3>4. ~(Len(stack) \in 2..Len(stack))
      BY <3>2, <3>3 DEF Top
    <3>5. \A n \in Nat : n >= 1 /\ ~(n \in 2..n) => n = 1
      OBVIOUS
    <3> QED BY ONLY <3>1, <3>4, <3>5
  <2>7. v = <<>>
    <3>1. PICK b : /\ b[0] = <<>> /\ b[Len(stack)] = v
                   /\ \A i \in 1..Len(stack) : b[i] = Put(b[i - 1], Opened(stack[i]))
      BY <2>5 DEF Stacked, Layered
    <3>2. v = Put(b[1 - 1], Opened(Top))
      BY <2>6, <3>1 DEF Top
    <3>3. Opened(Top) = "none" /\ Put(<<>>, "none") = <<>> /\ 1 - 1 = 0
      <4>1. Put(<<>>, "none") = <<>>
        BY Zenon DEF Put
      <4> QED BY <2>1, <4>1, OpenedFrames
    <3> QED BY <3>1, <3>2, <3>3
  <2>8. nest = <<>> /\ ~torn
    BY <2>4, <2>5, <2>7, NoTokens DEF Nested
  <2> QED BY <2>1, <2>4, <2>8 DEF Clean, input
<1>3. CASE Ended \/ UNCHANGED vars
  BY <1>3 DEF Ended, vars, input, AcceptedWhole
<1> QED BY <1>1, <1>2, <1>3 DEF Next

\* Whatever the text, and whether a byte order mark was reported before: a program that is
\* accepted has a tree with no placeholder in it, and its brackets and f-strings pair up; no
\* routine gives up on a construct without a report (msParserParse and all it calls).
THEOREM AcceptedIsWhole == Spec => []AcceptedWhole
<1>1. Init => ContextInv /\ TableInv /\ WholeInv /\ AcceptedWhole
  BY ContextInit, TableInit, WholeInit, AcceptedInit
<1>2. ContextInv /\ TableInv /\ WholeInv /\ AcceptedWhole /\ [Next]_vars
        => (ContextInv /\ TableInv /\ WholeInv /\ AcceptedWhole)'
  BY ContextStep, TableStep, WholeStep, AcceptedStep
<1> QED BY <1>1, <1>2, PTL DEF Spec
=============================================================================
