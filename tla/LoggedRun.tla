----------------------------- MODULE LoggedRun -----------------------------
(***************************************************************************)
(* What one run of a command promises its caller: each line a process      *)
(* writes on a stream is recorded once and in order, and an exit code is   *)
(* reported only when the streams have ended and all of them is recorded.  *)
(***************************************************************************)
EXTENDS Integers, Sequences

CONSTANTS Streams, ExitCodes, NoReport

VARIABLES written,   \* [Streams -> Nat], lines written so far
          recorded,  \* [Streams -> Seq(Nat)], the numbers of the recorded lines
          ended,     \* nobody can write on the streams any more
          report     \* the exit code, or NoReport

vars == <<written, recorded, ended, report>>

Init == /\ written = [s \in Streams |-> 0]
        /\ recorded = [s \in Streams |-> <<>>]
        /\ ended = FALSE
        /\ report = NoReport

Write(s) == /\ ~ended
            /\ written' = [written EXCEPT ![s] = @ + 1]
            /\ UNCHANGED <<recorded, ended, report>>

Record(s) == /\ Len(recorded[s]) < written[s]
             /\ report = NoReport
             /\ recorded' = [recorded EXCEPT ![s] = Append(@, Len(@) + 1)]
             /\ UNCHANGED <<written, ended, report>>

End == /\ ~ended
       /\ ended' = TRUE
       /\ UNCHANGED <<written, recorded, report>>

\* A program that could not be started has written nothing and never ends.
Report == /\ report = NoReport
          /\ \A s \in Streams : Len(recorded[s]) = written[s]
          /\ ended \/ \A s \in Streams : written[s] = 0
          /\ report' \in ExitCodes
          /\ UNCHANGED <<written, recorded, ended>>

Next == End \/ Report \/ \E s \in Streams : Write(s) \/ Record(s)

Spec == Init /\ [][Next]_vars
=============================================================================
