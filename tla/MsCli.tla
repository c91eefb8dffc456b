------------------------------- MODULE MsCli --------------------------------
(* The command line: src/cli/main.c driving one state through MsEval.    *)
EXTENDS MsEval

VARIABLES cli,    \* where main is
          said,   \* what it wrote to stderr
          exit    \* the exit code, or -1
cliVars == <<evalVars, cli, said, exit>>

ExitCode == [OK |-> 0, RUNTIME |-> 1, SYNTAX |-> 2, OOM |-> 3]
UsageExit == 64
IoExit == 74

CliInit == Init /\ cli = "start" /\ said = "nothing" /\ exit = -1

Exits(code, text) == cli' = "exited" /\ exit' = code /\ said' = text
Goes(place) == cli' = place /\ UNCHANGED <<said, exit>>

\* The argument is --version, or not a script at all.
NoScript == /\ cli = "start"
            /\ Exits(0, "nothing") \/ Exits(UsageExit, "usage")
            /\ UNCHANGED evalVars

\* The script is opened and closed again before a state is made for it.
Precheck == /\ cli = "start"
            /\ IF readable THEN Goes("checked") ELSE Exits(IoExit, "io")
            /\ UNCHANGED evalVars

OutOfMemory == Exits(ExitCode.OOM, "oom")

Create == /\ cli = "checked" /\ NewState
          /\ IF phase' = "none" THEN OutOfMemory ELSE Goes("creating")

Creating == /\ cli = "creating"
            /\ Register \/ Registered
            /\ IF phase' = "none" THEN OutOfMemory
               ELSE Goes(IF phase' = "idle" THEN "created" ELSE "creating")

Evaluate == cli = "created" /\ EvalStart /\ Goes("evaluating")

Evaluating == /\ cli = "evaluating"
              /\ Open \/ ReadFile \/ DiagListInit \/ Parse \/ Compile \/ Release \/ Report \/ Run
              /\ Goes(IF phase' = "idle" THEN "evaluated" ELSE "evaluating")

\* The error slot is cleared before it is read.
TellCleared == /\ cli = "evaluated" /\ result # "OK"
               /\ ErrorGet
               /\ said' = "fallback" /\ cli' = "told" /\ UNCHANGED exit

\* The error is asked for first, and replaced by a fixed text if there is none.
Tell == /\ cli = "evaluated" /\ result # "OK"
        /\ ErrorGet
        /\ said' = IF slot.message THEN "message" ELSE "fallback"
        /\ cli' = "told" /\ UNCHANGED exit

Finish == /\ cli = "told" \/ (cli = "evaluated" /\ result = "OK")
          /\ Close
          /\ Exits(ExitCode[result], said)

CliNext == \/ NoScript \/ Precheck \/ Create \/ Creating \/ Evaluate \/ Evaluating \/ Tell \/ Finish
           \/ Appear /\ UNCHANGED <<cli, said, exit>>

CliSpec == CliInit /\ [][CliNext]_cliVars

----------------------------------------------------------------------------
(* Properties.                                                               *)

Exited == cli = "exited"

\* A failing run has always said why, and only one that ran out of memory may
\* have nothing better to say than that evaluation failed: a file that was
\* deleted after the check, say, is reported like any other error.
FailureTold ==
  Exited => /\ exit = 0 <=> said = "nothing"
            /\ said = "fallback" => exit = ExitCode.OOM
============================================================================
