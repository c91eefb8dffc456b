------------------------------ MODULE MCHosts -------------------------------
(* The two kinds of program that own a state: the command line, which        *)
(* evaluates one script, and one that embeds the interpreter and evaluates   *)
(* again and again.                                                          *)
EXTENDS MsCli

HostsInit == /\ Init /\ cli \in {"start", "embedding"}
             /\ said = "nothing" /\ exit = -1

HostsNext == \/ cli # "embedding" /\ CliNext
             \/ cli = "embedding" /\ Next /\ UNCHANGED <<cli, said, exit>>

HostsSpec == HostsInit /\ [][HostsNext]_cliVars
============================================================================
