---------------------------- MODULE PrivateLogs ----------------------------
(***************************************************************************)
(* What "one log file per CLI run" promises: each run has a log of its     *)
(* own, empty when the run starts and holding the run's own lines only.    *)
(***************************************************************************)
EXTENDS Naturals

CONSTANTS Runs, NoLog

VARIABLE lines   \* per run, NoLog or how many of its lines the log holds

Init == lines = [r \in Runs |-> NoLog]

Start(r) == /\ lines[r] = NoLog
            /\ lines' = [lines EXCEPT ![r] = 0]

Append(r) == /\ lines[r] # NoLog
             /\ lines' = [lines EXCEPT ![r] = @ + 1]

Next == \E r \in Runs : Start(r) \/ Append(r)

Spec == Init /\ [][Next]_lines
=============================================================================
