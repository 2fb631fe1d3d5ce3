------------------------------ MODULE FailFast ------------------------------
(***************************************************************************)
(* What the CLI promises of the commands it runs: each process runs them   *)
(* one after the other while they succeed, none after a failure, and       *)
(* reports the code of the last.  It may end without a report (a crash).   *)
(***************************************************************************)
EXTENDS Sequences

CONSTANTS Processes, Codes, NoReport

VARIABLES codes,  \* per process: the exit codes of its commands so far
          report  \* per process: the exit code it ended with

vars == <<codes, report>>

Init == /\ codes = [p \in Processes |-> <<>>]
        /\ report = [p \in Processes |-> NoReport]

AllSucceeded(p) == \A i \in DOMAIN codes[p] : codes[p][i] = 0

RunCommand(p) == /\ report[p] = NoReport /\ AllSucceeded(p)
                 /\ \E code \in Codes : codes' = [codes EXCEPT ![p] = Append(@, code)]
                 /\ UNCHANGED report

\* A process that has run no command may report anything.
Report(p) == /\ report[p] = NoReport
             /\ \E code \in Codes :
                  /\ codes[p] # <<>> => code = codes[p][Len(codes[p])]
                  /\ report' = [report EXCEPT ![p] = code]
             /\ UNCHANGED codes

Next == \E p \in Processes : RunCommand(p) \/ Report(p)

Spec == Init /\ [][Next]_vars
=============================================================================
