----------------------------- MODULE CommandRun -----------------------------
(***************************************************************************)
(* One call of run_command_with_timestamped_output (run_log.py): the main  *)
(* thread, the child with its two pipes, the two threads that copy them    *)
(* into the RunLog, the RunLog's lock, and Ctrl-C, which Python delivers   *)
(* to the main thread.  A line is <<writer, item>>: the n-th line of a     *)
(* stream, or the line the main thread writes at that pc.                  *)
(***************************************************************************)
EXTENDS Integers, Sequences, FiniteSets

CONSTANTS
  MaxLines,       \* bound: lines written on each stream
  PipeCapacity,   \* lines a pipe holds before its writer blocks
  MaxInterrupts,  \* bound: presses of Ctrl-C
  ReturnCodes,    \* what Popen.wait may report of a child that ends by itself
  MayBreak        \* the sinks that may start to fail: a closed terminal, a full disk

ASSUME BoundsAssumption == /\ MaxLines \in Nat
                           /\ PipeCapacity \in Nat \ {0}
                           /\ MaxInterrupts \in Nat
ASSUME CodesAssumption == ReturnCodes \subseteq -64..255

Streams == {"out", "err"}
Sinks == {"out", "err", "log"}   \* the terminal's two streams and the log file
Writers == Streams \cup {"main"}
Sigkill == -9
NoCode == -100
LinePcs == {"command", "missing", "exit"}
Lines == (Streams \X Nat) \cup ({"main"} \X LinePcs)

VARIABLES
  pc, caught, exitCode,       \* main thread; interrupt_count; result
  writer, copied,             \* stage of each write_line; lines read off each pipe
  lock, screen, log, logOpen, \* RunLog: write_lock, terminal, log file
  child, returnCode, written, \* the child, and lines written on each pipe
  background,                 \* a descendant of the child holds the pipes too
  interrupts, broken          \* Ctrl-C so far; the sinks that fail

mainVars == <<pc, caught, exitCode>>
logVars == <<lock, screen, log, logOpen>>
childVars == <<child, returnCode, written, background>>
vars == <<mainVars, writer, copied, logVars, childVars, interrupts, broken>>

Init == /\ pc = "command" /\ caught = 0 /\ exitCode = NoCode
        /\ writer = [w \in Writers |-> IF w = "main" THEN "waiting" ELSE "unstarted"]
        /\ copied = [s \in Streams |-> 0]
        /\ lock = "free" /\ screen = <<>> /\ log = <<>> /\ logOpen = TRUE
        /\ child = "unborn" /\ returnCode = NoCode /\ background = FALSE
        /\ written = [s \in Streams |-> 0]
        /\ interrupts = 0 /\ broken = {}

-----------------------------------------------------------------------------
(* RunLog.write_line, called by all three threads *)

Line(w) == IF w = "main" THEN <<w, pc>> ELSE <<w, copied[w]>>

LockIsFreeUnlocked == TRUE
LockIsFree == lock = "free"

Acquire(w) == /\ writer[w] = "waiting" /\ LockIsFree
              /\ writer' = [writer EXCEPT ![w] = "terminal"]
              /\ lock' = w
              /\ UNCHANGED <<mainVars, copied, screen, log, logOpen, childVars, interrupts, broken>>

\* Only `out` lines go to stdout; all others go to stderr.
Terminal(w) == IF w = "out" THEN "out" ELSE "err"

\* An exception releases the lock.  In a copying thread it ends the thread, whose
\* pipe nobody reads any more; in the main thread it unwinds to cli.main, whose
\* `with` closes the log while the copying threads run on.
Raise(w) == /\ writer' = [writer EXCEPT ![w] = IF w = "main" THEN "idle" ELSE "dead"]
            /\ lock' = IF lock = w THEN "free" ELSE lock
            /\ pc' = IF w = "main" THEN "unwound" ELSE pc
            /\ logOpen' = (logOpen /\ w # "main")

WriteTerminal(w) ==
  /\ writer[w] = "terminal"
  /\ IF Terminal(w) \in broken
     THEN Raise(w) /\ UNCHANGED screen
     ELSE /\ writer' = [writer EXCEPT ![w] = "log"]
          /\ screen' = Append(screen, Line(w))
          /\ UNCHANGED <<pc, lock, logOpen>>
  /\ UNCHANGED <<caught, exitCode, copied, log, childVars, interrupts, broken>>

\* Writing to a closed or failing log raises; else the main thread goes on.
WriteLog(w) ==
  /\ writer[w] = "log"
  /\ IF ~logOpen \/ "log" \in broken
     THEN Raise(w) /\ UNCHANGED log
     ELSE /\ lock' = "free"
          /\ log' = Append(log, Line(w))
          /\ writer' = [writer EXCEPT ![w] = IF w = "main" /\ pc = "missing" THEN "waiting"
                                             ELSE "idle"]
          /\ pc' = IF w # "main" THEN pc
                   ELSE CASE pc = "command" -> "spawn"
                          [] pc = "missing" -> "exit"
                          [] pc = "exit"    -> "returned"
          /\ UNCHANGED logOpen
  /\ UNCHANGED <<caught, exitCode, copied, screen, childVars, interrupts, broken>>

-----------------------------------------------------------------------------
(* copy_stream_lines_to_run_log, one thread per stream *)

MayReadInTurn(s) == s = "out" \/ writer["out"] = "dead"
MayRead(s) == TRUE

ReadLine(s) == /\ writer[s] = "idle" /\ MayRead(s)
               /\ copied[s] < written[s]
               /\ copied' = [copied EXCEPT ![s] = @ + 1]
               /\ writer' = [writer EXCEPT ![s] = "waiting"]
               /\ UNCHANGED <<mainVars, logVars, childVars, interrupts, broken>>

AtEndOfFileNever == pc = "returned"
AtEndOfFile == child = "exited" /\ ~background

CloseStream(s) == /\ writer[s] = "idle" /\ AtEndOfFile
                  /\ copied[s] = written[s]
                  /\ writer' = [writer EXCEPT ![s] = "dead"]
                  /\ UNCHANGED <<mainVars, copied, logVars, childVars, interrupts, broken>>

-----------------------------------------------------------------------------
(* the main thread *)

\* Popen, then the two threads; FileNotFoundError; or another OSError, which unwinds.
Spawn == /\ pc = "spawn"
         /\ \/ pc' = "start" /\ child' = "running" /\ UNCHANGED <<exitCode, writer, logOpen>>
            \/ /\ pc' = "missing" /\ exitCode' = 127
               /\ writer' = [writer EXCEPT !["main"] = "waiting"]
               /\ UNCHANGED <<child, logOpen>>
            \/ pc' = "unwound" /\ logOpen' = FALSE /\ UNCHANGED <<exitCode, writer, child>>
         /\ UNCHANGED <<caught, copied, lock, screen, log, returnCode, written, background,
                        interrupts, broken>>

StartThread(s) == /\ pc = "start" /\ writer[s] = "unstarted"
                  /\ s = "err" => writer["out"] # "unstarted"
                  /\ writer' = [writer EXCEPT ![s] = "idle"]
                  /\ pc' = IF s = "err" THEN "wait" ELSE pc
                  /\ UNCHANGED <<caught, exitCode, copied, logVars, childVars, interrupts, broken>>

WaitReturns == /\ pc = "wait" /\ child = "exited"
               /\ pc' = "join"
               /\ UNCHANGED <<caught, exitCode, writer, copied, logVars, childVars, interrupts, broken>>

\* Popen.wait gives an interrupted child a moment to end before it raises.
BriefWaitEnds == /\ pc = "brief"
                 /\ pc' = "handler"
                 /\ UNCHANGED <<caught, exitCode, writer, copied, logVars, childVars, interrupts, broken>>

KillsAtOnce == caught + 1 >= 1
Kills == caught + 1 >= 2

HandleInterrupt ==
  /\ pc = "handler"
  /\ pc' = "wait" /\ caught' = caught + 1
  /\ IF Kills /\ child = "running"
     THEN child' = "exited" /\ returnCode' = Sigkill
     ELSE UNCHANGED <<child, returnCode>>
  /\ UNCHANGED <<exitCode, writer, copied, logVars, written, background, interrupts, broken>>

JoinedOutOnly == writer["out"] = "dead"
Joined == \A s \in Streams : writer[s] = "dead"

ExitCodeOfUnconverted(rc) == rc
ExitCodeOfOffByOne(rc) == IF rc < 0 THEN 127 - rc ELSE rc
ExitCodeOf(rc) == IF rc < 0 THEN 128 - rc ELSE rc

Join == /\ pc = "join" /\ Joined
        /\ exitCode' = ExitCodeOf(returnCode)
        /\ pc' = "exit"
        /\ writer' = [writer EXCEPT !["main"] = "waiting"]
        /\ UNCHANGED <<caught, copied, logVars, childVars, interrupts, broken>>

\* Caught in process.wait only; elsewhere it unwinds like any exception.
Interrupt ==
  /\ interrupts < MaxInterrupts /\ interrupts' = interrupts + 1
  /\ pc \notin {"returned", "unwound"}
  /\ IF pc \in {"wait", "brief"}
     THEN /\ pc' = IF pc = "wait" /\ caught = 0 THEN "brief" ELSE "handler"
          /\ UNCHANGED <<writer, lock, logOpen>>
     ELSE Raise("main")
  /\ UNCHANGED <<caught, exitCode, copied, screen, log, childVars, broken>>

-----------------------------------------------------------------------------
(* the child, its descendants and the terminal: the code decides none of it *)

Write(s) == /\ child = "running" \/ background
            /\ written[s] < MaxLines /\ written[s] - copied[s] < PipeCapacity
            /\ written' = [written EXCEPT ![s] = @ + 1]
            /\ UNCHANGED <<mainVars, writer, copied, logVars, child, returnCode, background,
                           interrupts, broken>>

Exit == /\ child = "running"
        /\ child' = "exited" /\ returnCode' \in ReturnCodes
        /\ UNCHANGED <<mainVars, writer, copied, logVars, written, background, interrupts, broken>>

\* A process the child started keeps its end of both pipes, until it ends.
Background == /\ background \/ child = "running"
              /\ background' = ~background
              /\ UNCHANGED <<mainVars, writer, copied, logVars, child, returnCode, written,
                             interrupts, broken>>

Break(sink) == /\ sink \in MayBreak \ broken
               /\ broken' = broken \cup {sink}
               /\ UNCHANGED <<mainVars, writer, copied, logVars, childVars, interrupts>>

-----------------------------------------------------------------------------
Main == Spawn \/ WaitReturns \/ BriefWaitEnds \/ HandleInterrupt \/ Join
        \/ \E s \in Streams : StartThread(s)

WriteLine(w) == Acquire(w) \/ WriteTerminal(w) \/ WriteLog(w)

Copy(s) == ReadLine(s) \/ CloseStream(s) \/ WriteLine(s)

Environment == \/ Interrupt \/ Exit \/ Background
               \/ \E s \in Streams : Write(s)
               \/ \E sink \in Sinks : Break(sink)

Done == pc \in {"returned", "unwound"} /\ UNCHANGED vars

Next == Main \/ WriteLine("main") \/ (\E s \in Streams : Copy(s)) \/ Environment \/ Done

\* Threads of the program are scheduled; nothing is assumed of the child.
Fairness == /\ WF_vars(Main \/ WriteLine("main"))
            /\ \A s \in Streams : WF_vars(Copy(s))

Spec == Init /\ [][Next]_vars /\ Fairness
-----------------------------------------------------------------------------
(* Properties *)

TypeOK ==
  /\ pc \in LinePcs \cup {"spawn", "start", "wait", "brief", "handler", "join", "returned", "unwound"}
  /\ caught \in Nat /\ exitCode \in {NoCode} \cup 0..255 /\ returnCode \in {NoCode} \cup -64..255
  /\ writer \in [Writers -> {"unstarted", "idle", "waiting", "terminal", "log", "dead"}]
  /\ copied \in [Streams -> Nat] /\ written \in [Streams -> Nat]
  /\ lock \in Writers \cup {"free"}
  /\ screen \in Seq(Lines) /\ log \in Seq(Lines) /\ logOpen \in BOOLEAN
  /\ child \in {"unborn", "running", "exited"} /\ background \in BOOLEAN
  /\ interrupts \in Nat /\ broken \subseteq Sinks

\* RunLog is "safe to call from threads": whenever nobody is inside write_line
\* and the log can be written, the terminal and the log show the same lines in
\* the same order, whatever the three threads, Ctrl-C and a failing terminal did.
ScreenMatchesLog == lock = "free" /\ logOpen /\ "log" \notin broken => screen = log

\* The numbers of the lines of stream s in the log, in the log's order.
Places(s) == {i \in DOMAIN log : log[i][1] = s}
Rank(s, i) == Cardinality({j \in Places(s) : j <= i})
Logged(s) == [n \in 1..Cardinality(Places(s)) |-> log[CHOOSE i \in Places(s) : Rank(s, i) = n][2]]

\* A failing stdout has cost the log lines of the child.
Lost == "out" \in broken /\ Len(Logged("out")) < written["out"]

\* The run implements the promise of LoggedRun: every line of both streams is
\* in the log, once and in order, before an exit code is returned, and the run
\* returns after the last holder of the pipes is gone.  A stderr or a log that
\* fails leaves no run that returns a code without its lines, as the exit line
\* would raise too.  Nothing is promised of a run whose stdout failed and lost
\* lines: it counts as one that never reports.
Promise == INSTANCE LoggedRun WITH
             ExitCodes <- {127} \cup {ExitCodeOf(rc) : rc \in ReturnCodes \cup {Sigkill}},
             NoReport <- NoCode,
             recorded <- [s \in Streams |-> Logged(s)],
             ended <- child = "exited" /\ ~background,
             report <- IF pc = "returned" /\ ~Lost THEN exitCode ELSE NoCode
ImplementsLoggedRun == Promise!Spec

\* The reported code is the child's: 127 only if there was no child, 128 + N
\* if signal N ended it, and a kill reports 137 (convert_return_code_to_exit_code).
ExitCodeIsTheChilds ==
  exitCode # NoCode => \/ child = "unborn" /\ exitCode = 127
                       \/ child = "exited" /\ returnCode >= 0 /\ exitCode = returnCode
                       \/ child = "exited" /\ returnCode < 0 /\ exitCode - 128 = -returnCode

\* The child is killed only after the user pressed Ctrl-C twice: one press lets
\* it stop by itself (wait_for_process_through_interrupts).
KilledOnlyOnSecondInterrupt == returnCode = Sigkill => interrupts >= 2

\* A child is never stuck on a full pipe while the run is in progress: each
\* pipe is drained by a thread of its own, whatever becomes of the other pipe.
\* Only a sink that the thread itself writes to can take it away: its own stream
\* of the terminal, or the log.
FullPipeIsDrained ==
  \A s \in Streams : LET full == written[s] - copied[s] = PipeCapacity
                     IN full ~> (~full \/ pc = "unwound" \/ {Terminal(s), "log"} \cap broken # {})

\* When nobody holds the pipes any more, the run ends.
RunEndsAfterChild == (child = "exited" /\ ~background) ~> pc \in {"returned", "unwound"}

\* The lines of a command stand between its command line and its exit line: the
\* log begins with the one, and nothing follows the other, although the two
\* copying threads decide by themselves when they write.
LogIsFramed == /\ log # <<>> => log[1] = <<"main", "command">>
               /\ \A i \in DOMAIN log : log[i] = <<"main", "exit">> => i = Len(log)

(* What the code says of itself, and does not keep *)

\* "A second Ctrl-C kills the child": back in wait after two presses, it is dead.
SecondInterruptKills == pc = "wait" /\ interrupts >= 2 => child # "running"
=============================================================================
