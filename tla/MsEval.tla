------------------------------- MODULE MsEval -------------------------------
(* The life of an MsState and of the evaluations made on it:                 *)
(* src/vm/ms_state.c, src/vm/ms_eval.c and the registration of the   *)
(* builtins.  Any allocation may be refused, any read may fail, the file may *)
(* come and go between two steps, and a host may evaluate again on the same  *)
(* state whatever the last evaluation did.                                   *)
EXTENDS Integers

CONSTANTS Builtins,   \* the number of builtins registered
          StackMax    \* bound on the slots of the main coroutine, MS_VM_STACK_MAX_CAP

ASSUME EvalAssumption == Builtins \in Nat /\ StackMax \in Nat

VARIABLES phase,      \* the step msNewState or msEvalFile is at; "none": no state, "idle": in the host
          readable,   \* whether the file can be read now
          file,       \* whether a file handle is open
          held,       \* what is allocated and not yet freed
          globalsLen, \* builtins registered so far
          slot,       \* L->errorResult and whether L->error holds a message
          stackTop,   \* of L->main
          result,     \* the MsResult in hand, or the one msEvalFile returned
          host        \* the last call the host completed, and what it saw
evalVars == <<phase, readable, file, held, globalsLen, slot, stackTop, result, host>>

Clear == [result |-> "OK", message |-> FALSE]
Oom == [result |-> "OOM", message |-> FALSE]
\* The result is kept although its message could not be made.
ErrorUnexplained(r) == {[result |-> r, message |-> TRUE], [result |-> r, message |-> FALSE]}

\* msStateSetError copies the message into a string, or settles for OOM.
Error(r) == {[result |-> r, message |-> TRUE], Oom}
\* msStateRaiseV formats the message in two blocks that it frees itself.
Raised == Error("RUNTIME")

OfState == {"state", "heap", "globals", "stack"}
NoCall == [call |-> "none", pending |-> FALSE, got |-> FALSE]

Init == /\ phase = "none" /\ readable \in BOOLEAN /\ file = FALSE
        /\ held = {} /\ globalsLen = 0 /\ slot = Clear
        /\ stackTop = 0 /\ result = "OK" /\ host = NoCall

Appear == readable' = ~readable /\ UNCHANGED <<phase, file, held, globalsLen, slot, stackTop, result, host>>

----------------------------------------------------------------------------
(* msNewState and msCloseState.                                              *)

NewState ==
  /\ phase = "none"
  /\ \/ UNCHANGED <<phase, held>>        \* no memory for the state, or for its heap: both freed
     \/ phase' = "registering" /\ held' = {"state", "heap"}
  /\ slot' = Clear /\ globalsLen' = 0 /\ stackTop' = 0 /\ host' = NoCall
  /\ UNCHANGED <<readable, file, result>>

CloseState ==
  /\ phase' = "none" /\ held' = held \ OfState
  /\ slot' = Clear /\ globalsLen' = 0 /\ stackTop' = 0 /\ host' = NoCall
  /\ UNCHANGED <<readable, file, result>>

\* One builtin gets its name, its object and its entry of the globals table;
\* whatever is refused, msNewState closes the state again.
Register ==
  /\ phase = "registering" /\ globalsLen < Builtins
  /\ \/ /\ globalsLen' = globalsLen + 1 /\ held' = held \cup {"globals"}
        /\ UNCHANGED <<phase, readable, file, slot, stackTop, result, host>>
     \/ CloseState

Registered ==
  /\ phase = "registering" /\ globalsLen = Builtins /\ phase' = "idle"
  /\ UNCHANGED <<readable, file, held, globalsLen, slot, stackTop, result, host>>

Close == phase = "idle" /\ CloseState

----------------------------------------------------------------------------
(* msEvalFile.                                                               *)

EvalKeeps == UNCHANGED <<readable, globalsLen>>

\* msEvalFile returns r to the host.
Return(r) == /\ phase' = "idle" /\ result' = r
             /\ host' = [call |-> "eval", pending |-> FALSE, got |-> FALSE]

\* The error of the evaluation before is not cleared.
EvalStartStale ==
  /\ phase = "idle" /\ phase' = "opening" /\ result' = "OK"
  /\ EvalKeeps /\ UNCHANGED <<file, held, slot, stackTop, host>>

EvalStart ==
  /\ phase = "idle" /\ phase' = "opening"
  /\ slot' = Clear /\ result' = "OK"
  /\ EvalKeeps /\ UNCHANGED <<file, held, stackTop, host>>

EvalNullPath ==
  /\ phase = "idle"
  /\ slot' \in Raised
  /\ result' = "RUNTIME" /\ host' = [NoCall EXCEPT !.call = "nullpath"]
  /\ EvalKeeps /\ UNCHANGED <<phase, file, held, stackTop>>

\* msEvalReadFile.
Open ==
  /\ phase = "opening"
  /\ \/ readable /\ file' = TRUE /\ phase' = "reading" /\ UNCHANGED <<slot, result, host>>
     \/ ~readable /\ slot' \in Raised /\ Return(slot'.result) /\ UNCHANGED file
  /\ EvalKeeps /\ UNCHANGED <<held, stackTop>>

\* On every way out the file is closed and a buffer that is not handed over freed.
ReadFile ==
  /\ phase = "reading" /\ file' = FALSE
  /\ \/ held' = held \cup {"source"} /\ phase' = "listing" /\ UNCHANGED <<slot, result, host>>
     \/ slot' \in Raised \cup {Oom} /\ Return(slot'.result) /\ UNCHANGED held
  /\ EvalKeeps /\ UNCHANGED stackTop

\* The early return that forgets the source buffer.
DiagListInitLeak ==
  /\ phase = "listing"
  /\ \/ held' = held \cup {"diags"} /\ phase' = "parsing" /\ UNCHANGED <<slot, result, host>>
     \/ slot' = Oom /\ Return("OOM") /\ UNCHANGED held
  /\ EvalKeeps /\ UNCHANGED <<file, stackTop>>

DiagListInit ==
  /\ phase = "listing"
  /\ \/ held' = held \cup {"diags"} /\ phase' = "parsing" /\ UNCHANGED <<slot, result, host>>
     \/ slot' = Oom /\ held' = held \ {"source"} /\ Return("OOM")
  /\ EvalKeeps /\ UNCHANGED <<file, stackTop>>

\* The parser leaves its arena to msEvalFile whatever it returns.
Parse ==
  /\ phase = "parsing" /\ held' = held \cup {"arena"}
  /\ \/ result' = "OK" /\ phase' = "compiling"
     \/ result' \in {"SYNTAX", "OOM"} /\ phase' = "releasing"
  /\ EvalKeeps /\ UNCHANGED <<file, slot, stackTop, host>>

Compile ==
  /\ phase = "compiling" /\ phase' = "releasing"
  /\ \/ result' = "OK" /\ held' = held \cup {"proto"}
     \/ result' \in {"SYNTAX", "OOM"} /\ UNCHANGED held
  /\ EvalKeeps /\ UNCHANGED <<file, slot, stackTop, host>>

\* Compiler, arena, lexer and source go; only the prototype and the
\* diagnostics outlive them.
Release ==
  /\ phase = "releasing" /\ phase' = "reporting"
  /\ held' = held \ {"arena", "source"}
  /\ EvalKeeps /\ UNCHANGED <<file, slot, stackTop, result, host>>

\* What the front end returned becomes the error of the state: for SYNTAX the
\* formatted diagnostics, in a block of their own until they are a string.
Diagnosed ==
  CASE result = "SYNTAX" -> Error("SYNTAX")
    [] result # "SYNTAX" /\ result # "OK" /\ slot.result = "OK" -> {Oom}
    [] OTHER -> {slot}

Report ==
  /\ phase = "reporting"
  /\ slot' \in Diagnosed
  /\ held' = held \ {"diags"}
  /\ IF result = "OK" THEN phase' = "running" /\ UNCHANGED <<result, host>>
     ELSE Return(IF result = "SYNTAX" THEN slot'.result ELSE result)
  /\ EvalKeeps /\ UNCHANGED <<file, stackTop>>

\* The result of a refused allocation inside the machine: with a message when
\* msVmOom could still make one.
MachineOom == {Oom, [result |-> "OOM", message |-> TRUE]}

\* msCallProto leaves the value of the script on the stack of the main
\* coroutine; an error takes the stack back to where it was.
Run ==
  /\ phase = "running"
  /\ held' \in {(held \cup {"stack"}) \ {"proto"}, held \ {"proto"}}
  /\ \/ /\ stackTop < StackMax /\ "stack" \in held'
        /\ stackTop' = stackTop + 1 /\ Return("OK") /\ UNCHANGED slot
     \/ /\ slot' \in Raised \cup MachineOom
        /\ Return(slot'.result) /\ UNCHANGED stackTop
  /\ "stack" \in held => "stack" \in held'
  /\ EvalKeeps /\ UNCHANGED file

\* msErrorGet.
ErrorGet ==
  /\ phase = "idle"
  /\ host' = [call |-> "errorget", pending |-> slot.result # "OK", got |-> slot.message]
  /\ slot' = Clear
  /\ UNCHANGED <<phase, readable, file, held, globalsLen, stackTop, result>>

EvalSteps == \/ EvalStart \/ EvalNullPath \/ Open \/ ReadFile \/ DiagListInit
             \/ Parse \/ Compile \/ Release \/ Report \/ Run

Next == \/ Appear \/ NewState \/ Register \/ Registered \/ Close
        \/ EvalSteps \/ ErrorGet

Spec == Init /\ [][Next]_evalVars

----------------------------------------------------------------------------
(* Properties.                                                               *)

\* Whichever step of an evaluation fails, the host gets back a state that
\* holds nothing of it: no buffer, diagnostics, tree or prototype, and no
\* file.  A state that could not be completed leaves nothing at all.
NothingKept ==
  /\ phase = "idle" => held \subseteq OfState /\ ~file
  /\ phase = "none" => held = {} /\ ~file

\* The MsResult of msEvalFile is the one in the error slot, so that what the
\* host reads with msErrorGet is about the call that just failed, and a
\* success leaves no error of an earlier call behind.  A failure that is not
\* for want of memory comes with its message.
ResultTold ==
  /\ phase = "idle" /\ host.call = "eval" => slot.result = result
  /\ slot.result \in {"RUNTIME", "SYNTAX"} => slot.message
  /\ slot.result = "OK" => ~slot.message

\* A successful evaluation discards the value of the script
\* (task-09-minimal-interpreter-design.md:51), so that the main coroutine is
\* as it was.
StackBalanced == phase = "idle" => stackTop = 0
============================================================================
