--------------------------- MODULE MsEvalProofs ----------------------------
(* Proofs about MsEval and MsCli: what an evaluation leaves behind, what it   *)
(* tells its host, and what the command line tells its user, however the     *)
(* allocations and the files fail and whatever the number of builtins.       *)
EXTENDS MsCli, TLAPS

Results == {"OK", "RUNTIME", "SYNTAX", "OOM"}
UnderWay == {"opening", "reading", "listing", "parsing", "compiling", "releasing",
                "reporting", "running"}

\* What may be held at each step, beyond what is the state's own.
OfEval ==
  [none |-> {}, registering |-> {}, idle |-> {}, opening |-> {}, reading |-> {},
   listing |-> {"source"}, parsing |-> {"source", "diags"},
   compiling |-> {"source", "diags", "arena"},
   releasing |-> {"source", "diags", "arena", "proto"},
   reporting |-> {"diags", "proto"}, running |-> {"proto"}]

KeptInv == /\ phase \in DOMAIN OfEval
           /\ held \subseteq OfState \cup OfEval[phase]
           /\ phase = "none" => held = {}
           /\ file => phase = "reading"
           /\ phase \in {"releasing", "reporting"} /\ result # "OK" => "proto" \notin held

TypedSlot == /\ slot.result \in Results /\ result \in Results
             /\ slot.result \in {"RUNTIME", "SYNTAX"} => slot.message
             /\ slot.result = "OK" => ~slot.message

\* While an evaluation is under way the slot is clear; it is written by the step that ends it.
ToldInv == /\ TypedSlot
           /\ phase \in UnderWay => slot.result = "OK"
           /\ phase \in {"opening", "reading", "listing", "parsing", "running"} => result = "OK"
           /\ phase \in UnderWay => result # "RUNTIME"
           /\ phase = "registering" => host.call = "none"
           /\ phase = "idle" /\ host.call = "eval" => slot.result = result

EvalInv == KeptInv /\ ToldInv

----------------------------------------------------------------------------
(* Every step keeps what may be held.                                        *)

LEMMA KeptInit == Init => KeptInv
BY DEF Init, KeptInv, OfEval

LEMMA KeptStep == KeptInv /\ [Next]_evalVars => KeptInv'
<1> SUFFICES ASSUME KeptInv, [Next]_evalVars PROVE KeptInv'
  OBVIOUS
<1> USE DEF KeptInv, OfEval
<1>1. CASE Appear
  BY <1>1 DEF Appear
<1>2. CASE NewState
  BY <1>2 DEF NewState, OfState
<1>3. CASE Register
  <2>1. phase = "registering" /\ held \subseteq OfState /\ ~file
    BY <1>3 DEF Register
  <2>2. CASE CloseState
    <3>1. held \ OfState = {}
      BY <2>1
    <3> QED BY <2>1, <2>2, <3>1 DEF CloseState
  <2>3. CASE ~CloseState
    <3>1. phase' = phase /\ file' = file /\ held' = held \cup {"globals"}
      BY <1>3, <2>3 DEF Register
    <3> QED BY <2>1, <3>1 DEF OfState
  <2> QED BY <2>2, <2>3
<1>4. CASE Registered
  BY <1>4 DEF Registered
<1>5. CASE Close
  BY <1>5 DEF Close, CloseState
<1>6. CASE EvalStart
  BY <1>6 DEF EvalStart, EvalKeeps
<1>7. CASE EvalNullPath
  BY <1>7 DEF EvalNullPath, EvalKeeps
<1>8. CASE Open
  BY <1>8 DEF Open, EvalKeeps, Return
<1>9. CASE ReadFile
  BY <1>9 DEF ReadFile, EvalKeeps, Return
<1>10. CASE DiagListInit
  BY <1>10 DEF DiagListInit, EvalKeeps, Return
<1>11. CASE Parse
  BY <1>11 DEF Parse, EvalKeeps, OfState
<1>12. CASE Compile
  BY <1>12 DEF Compile, EvalKeeps, OfState
<1>13. CASE Release
  BY <1>13 DEF Release, EvalKeeps
<1>14. CASE Report
  BY <1>14 DEF Report, EvalKeeps, Return
<1>15. CASE Run
  BY <1>15 DEF Run, EvalKeeps, Return, OfState
<1>16. CASE ErrorGet
  BY <1>16 DEF ErrorGet
<1>17. CASE UNCHANGED evalVars
  BY <1>17 DEF evalVars
<1> QED BY <1>1, <1>2, <1>3, <1>4, <1>5, <1>6, <1>7, <1>8, <1>9, <1>10, <1>11, <1>12, <1>13, <1>14, <1>15, <1>16, <1>17 DEF Next, EvalSteps

----------------------------------------------------------------------------
(* Every step keeps the result and the error slot together.                  *)

LEMMA ErrorTyped ==
  ASSUME NEW r \in {"RUNTIME", "SYNTAX"}, NEW e \in Error(r)
  PROVE  /\ e.result \in Results /\ e.result # "OK"
         /\ e.result \in {"RUNTIME", "SYNTAX"} => e.message
BY DEF Error, Oom, Results

LEMMA RaisedTyped ==
  ASSUME NEW e \in Raised \cup MachineOom
  PROVE  /\ e.result \in Results /\ e.result # "OK"
         /\ e.result \in {"RUNTIME", "SYNTAX"} => e.message
BY ErrorTyped DEF Raised, MachineOom, Oom, Results

LEMMA ToldInit == Init => ToldInv
BY DEF Init, ToldInv, TypedSlot, Clear, Results, UnderWay

LEMMA ToldStep == ToldInv /\ [Next]_evalVars => ToldInv'
<1> SUFFICES ASSUME ToldInv, [Next]_evalVars PROVE ToldInv'
  OBVIOUS
<1> USE DEF ToldInv, TypedSlot, Results, UnderWay
<1>1. CASE Appear
  BY <1>1 DEF Appear
<1>2. CASE NewState
  BY <1>2 DEF NewState, Clear, NoCall
<1>3. CASE Register
  BY <1>3 DEF Register, CloseState, Clear, NoCall
<1>4. CASE Registered
  BY <1>4 DEF Registered
<1>5. CASE Close
  BY <1>5 DEF Close, CloseState, Clear, NoCall
<1>6. CASE EvalStart
  BY <1>6 DEF EvalStart, Clear, EvalKeeps
<1>7. CASE EvalNullPath
  BY <1>7, RaisedTyped DEF EvalNullPath, NoCall, EvalKeeps
<1>8. CASE Open
  BY <1>8, RaisedTyped DEF Open, Return, EvalKeeps
<1>9. CASE ReadFile
  BY <1>9, RaisedTyped DEF ReadFile, Return, EvalKeeps, MachineOom
<1>10. CASE DiagListInit
  BY <1>10 DEF DiagListInit, Return, EvalKeeps, Oom
<1>11. CASE Parse
  BY <1>11 DEF Parse, EvalKeeps
<1>12. CASE Compile
  BY <1>12 DEF Compile, EvalKeeps
<1>13. CASE Release
  BY <1>13 DEF Release, EvalKeeps
<1>14. CASE Report
  <2>1. CASE result = "SYNTAX"
    BY <1>14, <2>1, ErrorTyped DEF Report, Diagnosed, Return, EvalKeeps
  <2>2. CASE result = "OK"
    BY <1>14, <2>2 DEF Report, Diagnosed, EvalKeeps
  <2>3. CASE result # "SYNTAX" /\ result # "OK"
    BY <1>14, <2>3 DEF Report, Diagnosed, Return, EvalKeeps, Oom
  <2> QED BY <2>1, <2>2, <2>3
<1>15. CASE Run
  BY <1>15, RaisedTyped DEF Run, Return, EvalKeeps
<1>16. CASE ErrorGet
  BY <1>16 DEF ErrorGet, Clear
<1>17. CASE UNCHANGED evalVars
  BY <1>17 DEF evalVars
<1> QED BY <1>1, <1>2, <1>3, <1>4, <1>5, <1>6, <1>7, <1>8, <1>9, <1>10, <1>11, <1>12, <1>13, <1>14, <1>15, <1>16, <1>17 DEF Next, EvalSteps

\* Whichever step of an evaluation fails, nothing of it is left and no file is
\* open when the host has the state back (msEvalFile, msNewState).
THEOREM NothingIsKept == Spec => []NothingKept
<1>1. Spec => []KeptInv
  BY KeptInit, KeptStep, PTL DEF Spec
<1>2. KeptInv => NothingKept
  BY DEF KeptInv, NothingKept, OfEval
<1> QED BY <1>1, <1>2, PTL

\* The result of an evaluation is the one of the error slot, and a failure that
\* is not for want of memory has its message (msEvalFile, msStateSetError).
THEOREM ResultIsTold == Spec => []ResultTold
<1>1. Spec => []ToldInv
  BY ToldInit, ToldStep, PTL DEF Spec
<1>2. ToldInv => ResultTold
  BY DEF ToldInv, TypedSlot, ResultTold
<1> QED BY <1>1, <1>2, PTL

----------------------------------------------------------------------------
(* The command line takes the steps of an evaluation in order.               *)

\* A run of the command line is a run of a state, one host among others.
LEMMA CliImplementsEval == CliSpec => Spec
<1>1. CliInit => Init
  BY DEF CliInit
<1>2. [CliNext]_cliVars => [Next]_evalVars
  BY DEF CliNext, NoScript, Precheck, Create, Creating, Evaluate, Evaluating, Tell, Finish,
         Next, EvalSteps, cliVars
<1> QED BY <1>1, <1>2, PTL DEF CliSpec, Spec

Quiet == {"start", "checked", "creating", "created", "evaluating", "evaluated"}
CliInv == /\ cli \in Quiet => said = "nothing"
          /\ cli = "evaluating" => phase \in UnderWay
          /\ cli = "evaluated" => phase = "idle" /\ host.call = "eval"
          /\ cli = "told" => result # "OK" /\ said \in {"message", "fallback"}
          /\ cli = "told" /\ said = "fallback" => result = "OOM"
          /\ FailureTold

LEMMA CliStep == CliInv /\ ToldInv /\ ToldInv' /\ [CliNext]_cliVars => CliInv'
<1> SUFFICES ASSUME CliInv, ToldInv, ToldInv', [CliNext]_cliVars PROVE CliInv'
  OBVIOUS
<1> USE DEF CliInv, FailureTold, Exited, Quiet
<1>1. CASE NoScript
  BY <1>1 DEF NoScript, Exits, UsageExit, evalVars
<1>2. CASE Precheck
  BY <1>2 DEF Precheck, Exits, Goes, IoExit, evalVars
<1>3. CASE Create
  BY <1>3 DEF Create, OutOfMemory, Exits, Goes, ExitCode
<1>4. CASE Creating
  BY <1>4 DEF Creating, OutOfMemory, Exits, Goes, ExitCode
<1>5. CASE Evaluate
  BY <1>5 DEF Evaluate, Goes, EvalStart, UnderWay
<1>6. CASE Evaluating
  <2>1. phase' \in UnderWay \/ (phase' = "idle" /\ host'.call = "eval")
    BY <1>6 DEF Evaluating, Open, ReadFile, DiagListInit, Parse, Compile, Release, Report, Run,
                Return, UnderWay
  <2> QED BY <1>6, <2>1 DEF Evaluating, Goes, UnderWay
<1>7. CASE Tell
  BY <1>7 DEF Tell, ErrorGet, ToldInv, TypedSlot, Results
<1>8. CASE Finish
  <2>1. result \in Results
    BY DEF ToldInv, TypedSlot
  <2> QED BY <1>8, <2>1 DEF Finish, Exits, ExitCode, Results
<1>9. CASE Appear /\ UNCHANGED <<cli, said, exit>>
  BY <1>9 DEF Appear
<1>10. CASE UNCHANGED cliVars
  BY <1>10 DEF cliVars, evalVars
<1> QED BY <1>1, <1>2, <1>3, <1>4, <1>5, <1>6, <1>7, <1>8, <1>9, <1>10 DEF CliNext

\* A run of the program that fails has said why on stderr, and has nothing
\* better to say than that it failed only when memory ran out (main).
THEOREM FailureIsTold == CliSpec => []FailureTold
<1>1. CliSpec => []ToldInv
  BY CliImplementsEval, ToldInit, ToldStep, PTL DEF Spec
<1>2. CliInit => CliInv
  BY DEF CliInit, CliInv, Quiet, FailureTold, Exited
<1>3. CliSpec => []CliInv
  BY <1>1, <1>2, CliStep, PTL DEF CliSpec
<1>4. CliInv => FailureTold
  BY DEF CliInv
<1> QED BY <1>3, <1>4, PTL
============================================================================
