----------------------------- MODULE RunLogFile -----------------------------
(***************************************************************************)
(* CLI runs that open their log files in one shared directory              *)
(* (open_run_log_file), with the file system's exclusive create as the     *)
(* only coordination.  A name is <<stem, n>>: stem is the start time in    *)
(* milliseconds and the subcommand, n the attempt, so <<s, 1>> is s.log    *)
(* and <<s, 3>> is s-3.log.  A file is the sequence of its lines, a line   *)
(* is the run that wrote it (`Earlier` for files found at the start).      *)
(***************************************************************************)
EXTENDS Integers, Sequences

CONSTANTS
  Runs,      \* CLI processes
  Stems,     \* start time and subcommand, as they appear in a file name
  Earlier,   \* whoever wrote the files that were there before
  NoLog,     \* the state of a run that has no log yet
  MaxEarlier,\* bound: files an earlier millisecond-mate left on a stem
  MaxLines   \* bound: lines a run writes

ASSUME RunsAssumption == Earlier \notin Runs /\ NoLog \notin Nat
ASSUME BoundsAssumption == MaxEarlier \in Nat /\ MaxLines \in Nat

Names == Stems \X (Nat \ {0})

VARIABLES
  pc,       \* [Runs -> {"opening", "open", "ended"}]
  stem,     \* [Runs -> Stems], fixed by when the run started and what it runs
  attempt,  \* [Runs -> Nat \ {0}], attempt_number
  creator,  \* who created each file; its domain is the directory's listing
  text      \* the lines of each file

vars == <<pc, stem, attempt, creator, text>>

Files == DOMAIN creator
NameOf(r) == <<stem[r], attempt[r]>>

\* Earlier runs have left whole series s.log, s-2.log, ... behind them.
Init == /\ pc = [r \in Runs |-> "opening"]
        /\ stem \in [Runs -> Stems]
        /\ attempt = [r \in Runs |-> 1]
        /\ \E left \in [Stems -> 0..MaxEarlier] :
             creator = [f \in {g \in Stems \X (1..MaxEarlier) : g[2] <= left[g[1]]} |-> Earlier]
        /\ text = [f \in Files |-> <<Earlier>>]

FreeAlways(f) == TRUE
Free(f) == f \notin Files

\* open(..., "x"): creates the file, and fails if the name is taken.
Create(r) == LET f == NameOf(r) IN
             /\ pc[r] = "opening" /\ Free(f)
             /\ creator' = [g \in Files \cup {f} |-> IF g = f THEN r ELSE creator[g]]
             /\ text' = [g \in Files \cup {f} |-> IF g = f THEN <<>> ELSE text[g]]
             /\ pc' = [pc EXCEPT ![r] = "open"]
             /\ UNCHANGED <<stem, attempt>>

NextAttemptSkipping(n) == n + 2
NextAttemptStuck(n) == n
NextAttemptBackwards(n) == n - 1
NextAttempt(n) == n + 1

\* FileExistsError: on to the next suffix.
Retry(r) == /\ pc[r] = "opening" /\ ~Free(NameOf(r))
            /\ attempt' = [attempt EXCEPT ![r] = NextAttempt(@)]
            /\ UNCHANGED <<pc, stem, creator, text>>

\* RunLog.write_line, through the handle open_run_log_file returned.
WriteLine(r) == LET f == NameOf(r) IN
                /\ pc[r] = "open" /\ Len(text[f]) < MaxLines
                /\ text' = [text EXCEPT ![f] = Append(@, r)]
                /\ UNCHANGED <<pc, stem, attempt, creator>>

\* The run returns, or dies at any point: it never removes or renames its file.
End(r) == /\ pc[r] # "ended"
          /\ pc' = [pc EXCEPT ![r] = "ended"]
          /\ UNCHANGED <<stem, attempt, creator, text>>

Done == (\A r \in Runs : pc[r] = "ended") /\ UNCHANGED vars

Open(r) == Create(r) \/ Retry(r)

Next == (\E r \in Runs : Open(r) \/ WriteLine(r) \/ End(r)) \/ Done

\* A process that is not killed goes on with its loop.
Spec == Init /\ [][Next]_vars /\ \A r \in Runs : WF_vars(Open(r))

-----------------------------------------------------------------------------
(* Properties *)

TypeOK == /\ pc \in [Runs -> {"opening", "open", "ended"}]
          /\ stem \in [Runs -> Stems]
          /\ attempt \in [Runs -> Nat \ {0}]
          /\ Files \subseteq Names
          /\ creator \in [Files -> Runs \cup {Earlier}]
          /\ text \in [Files -> Seq(Runs \cup {Earlier})]

HasLog(r) == NameOf(r) \in Files /\ creator[NameOf(r)] = r

\* A run that got its file open holds a file it created, and no other run,
\* alive or dead, is the creator or the holder of it.
OneLogPerRun == \A r, q \in Runs :
  pc[r] = "open" => HasLog(r) /\ (q # r /\ pc[q] = "open" => NameOf(q) # NameOf(r))

\* The suffixes of one start time have no gaps: "-2, -3..." in this order, so
\* s-3.log is there only if s.log and s-2.log are.
NoSuffixGaps == \A f \in Files : \A n \in 1..f[2] : <<f[1], n>> \in Files

\* No step of any run changes a line that is in the directory, or loses a file.
LinesAreKept == [][\A f \in Files : /\ f \in DOMAIN creator'
                                    /\ Len(text[f]) <= Len(text'[f])
                                    /\ SubSeq(text'[f], 1, Len(text[f])) = text[f]]_vars

\* A log holds lines of one run only.
NoMixedLines == \A f \in Files : \A i \in DOMAIN text[f] : text[f][i] = creator[f]

\* The shared directory implements a private log for each run, whatever the
\* other runs do: refinement of PrivateLogs.
Private == INSTANCE PrivateLogs WITH
             lines <- [r \in Runs |-> IF HasLog(r) THEN Len(text[NameOf(r)]) ELSE NoLog]
ImplementsPrivateLogs == Private!Spec

\* The search for a free name ends, however many runs start at the same time.
OpenEnds == \A r \in Runs : pc[r] = "opening" ~> pc[r] # "opening"
=============================================================================
