------------------------- MODULE CommandRun_proofs -------------------------
(***************************************************************************)
(* For any bounds and return codes: the types, the mutual exclusion of     *)
(* write_line, the agreement of the terminal with the log, the frame of    *)
(* the log, and what the exit code and a kill say of the child.            *)
(***************************************************************************)
EXTENDS CommandRun, TLAPS

\* The lock's holder is the only thread between the lock and its release.
LockInv == \A w \in Writers : writer[w] \in {"terminal", "log"} <=> lock = w

\* The main thread is in write_line exactly at the pcs that write a line, and
\* the log is closed exactly when the call has been unwound.
MainInv == /\ writer["main"] \in {"idle", "waiting", "terminal", "log"}
           /\ writer["main"] # "idle" <=> pc \in LinePcs
           /\ logOpen <=> pc # "unwound"

\* A log that can be written is behind the terminal by the line the lock's holder is writing.
OutputInv == logOpen /\ "log" \notin broken =>
               screen = IF lock # "free" /\ writer[lock] = "log"
                        THEN Append(log, Line(lock)) ELSE log

\* The main thread joins an ended child, and an ended child has a return code.
ChildInv == /\ pc = "join" => child = "exited"
            /\ child = "exited" => returnCode \in -64..255

IInv == TypeOK /\ LockInv /\ MainInv /\ OutputInv /\ ChildInv

LEMMA InitIInv == Init => IInv
<1> SUFFICES ASSUME Init PROVE IInv
  OBVIOUS
<1> USE DEF Init, Writers, Streams
<1>1. TypeOK
  <2>1. screen \in Seq(Lines) /\ log \in Seq(Lines)
    OBVIOUS
  <2>2. writer \in [Writers -> {"unstarted", "idle", "waiting", "terminal", "log", "dead"}]
    OBVIOUS
  <2>3. copied \in [Streams -> Nat] /\ written \in [Streams -> Nat]
    OBVIOUS
  <2>4. lock \in Writers \cup {"free"} /\ logOpen \in BOOLEAN /\ background \in BOOLEAN /\ broken \subseteq Sinks
    OBVIOUS
  <2>5. pc \in LinePcs /\ child \in {"unborn", "running", "exited"} /\ interrupts \in Nat /\ caught \in Nat
    BY DEF LinePcs
  <2>6. exitCode = NoCode /\ returnCode = NoCode
    OBVIOUS
  <2>7. QED
    BY <2>1, <2>2, <2>3, <2>4, <2>5, <2>6 DEF TypeOK
<1>2. LockInv
  BY DEF LockInv
<1>3. MainInv
  BY DEF MainInv, LinePcs
<1>4. OutputInv
  BY DEF OutputInv
<1>5. ChildInv
  BY DEF ChildInv
<1>6. QED
  BY <1>1, <1>2, <1>3, <1>4, <1>5 DEF IInv

\* A line is one of Lines, whoever writes it.
LEMMA LineType == ASSUME IInv, NEW w \in Writers, writer[w] = "terminal" \/ writer[w] = "log"
                  PROVE  Line(w) \in Lines
<1>1. CASE w = "main"
  BY <1>1 DEF IInv, MainInv, Line, Lines
<1>2. CASE w \in Streams
  BY <1>2 DEF IInv, TypeOK, Line, Lines, Streams
<1>3. QED
  BY <1>1, <1>2 DEF Writers

\* The conversion of a return code is a process status.
LEMMA ExitCodeType == ASSUME NEW rc \in -64..255
                      PROVE  ExitCodeOf(rc) \in 0..255
  BY DEF ExitCodeOf

-----------------------------------------------------------------------------
(* The three steps of write_line *)

LEMMA AcquireIInv == ASSUME IInv, NEW w \in Writers, Acquire(w) PROVE IInv'
<1> USE DEF Acquire, LockIsFree, mainVars, childVars
<1>1. TypeOK'
  BY DEF IInv, TypeOK
<1>2. LockInv'
  BY DEF IInv, TypeOK, LockInv, Writers, Streams
<1>3. MainInv'
  BY DEF IInv, TypeOK, MainInv
<1>4. OutputInv'
  BY DEF IInv, TypeOK, OutputInv
<1>5. ChildInv'
  BY DEF IInv, ChildInv
<1>6. QED
  BY <1>1, <1>2, <1>3, <1>4, <1>5 DEF IInv

Stage == {"unstarted", "idle", "waiting", "terminal", "log", "dead"}

\* An exception between the lock and its release, or anywhere in the main thread.
LEMMA RaiseIInv ==
  ASSUME IInv, NEW w \in Writers, Raise(w), lock = w \/ w = "main",
         w = "main" \/ writer[w] = "terminal" \/ "log" \in broken \/ ~logOpen,
         UNCHANGED <<caught, exitCode, copied, screen, log, childVars, broken>>,
         interrupts' \in Nat
  PROVE  IInv'
<1> USE DEF Raise, childVars
<1>1. TypeOK'
  <2>1. writer' \in [Writers -> Stage] /\ lock' \in Writers \cup {"free"} /\ logOpen' \in BOOLEAN
    BY DEF IInv, TypeOK, Stage
  <2>2. pc' = pc \/ pc' = "unwound"
    OBVIOUS
  <2>3. QED
    BY <2>1, <2>2 DEF IInv, TypeOK, Stage
<1>2. LockInv'
  BY DEF IInv, TypeOK, LockInv, Writers, Streams
<1>3. MainInv'
  <2>1. writer'["main"] = IF w = "main" THEN "idle" ELSE writer["main"]
    BY DEF IInv, TypeOK, Writers
  <2>2. QED
    BY <2>1 DEF IInv, TypeOK, MainInv, LinePcs
<1>4. OutputInv'
  BY DEF IInv, TypeOK, OutputInv, Writers, Streams
<1>5. ChildInv'
  BY DEF IInv, ChildInv
<1>6. QED
  BY <1>1, <1>2, <1>3, <1>4, <1>5 DEF IInv

LEMMA WriteTerminalIInv == ASSUME IInv, NEW w \in Writers, WriteTerminal(w) PROVE IInv'
<1>1. lock = w /\ w # "free" /\ writer[w] = "terminal"
  BY DEF WriteTerminal, IInv, LockInv, Writers, Streams
<1>2. CASE Raise(w) /\ UNCHANGED screen
  <2>1. UNCHANGED <<caught, exitCode, copied, screen, log, childVars, broken>> /\ interrupts' \in Nat
    BY <1>2 DEF WriteTerminal, IInv, TypeOK
  <2>2. QED
    BY <1>1, <1>2, <2>1, RaiseIInv
<1>3. CASE /\ writer' = [writer EXCEPT ![w] = "log"]
           /\ screen' = Append(screen, Line(w))
           /\ UNCHANGED <<pc, lock, logOpen>>
  <2>0. UNCHANGED <<caught, exitCode, copied, log, child, returnCode, written, background,
                    interrupts, broken>>
    BY DEF WriteTerminal, childVars
  <2>1. Line(w) \in Lines
    BY <1>1, LineType
  <2>2. TypeOK'
    <3>1. screen \in Seq(Lines) /\ Append(screen, Line(w)) \in Seq(Lines)
      BY <2>1 DEF IInv, TypeOK
    <3>2. screen' \in Seq(Lines)
      BY <1>3, <3>1
    <3>3. writer' \in [Writers -> Stage]
      BY <1>3 DEF IInv, TypeOK, Stage
    <3>4. QED
      BY <1>3, <2>0, <3>2, <3>3 DEF IInv, TypeOK, Stage
  <2>3. LockInv'
    BY <1>1, <1>3 DEF IInv, TypeOK, LockInv, Writers, Streams
  <2>4. MainInv'
    <3>1. writer'["main"] = IF w = "main" THEN "log" ELSE writer["main"]
      BY <1>3 DEF IInv, TypeOK, Writers
    <3>2. QED
      BY <1>1, <1>3, <3>1 DEF IInv, MainInv
  <2>5. OutputInv'
    BY <1>1, <1>3, <2>0 DEF IInv, TypeOK, OutputInv, Line
  <2>6. ChildInv'
    BY <1>3, <2>0 DEF IInv, ChildInv
  <2>7. QED
    BY <2>2, <2>3, <2>4, <2>5, <2>6 DEF IInv
<1>4. QED
  BY <1>2, <1>3 DEF WriteTerminal

\* A line that reaches the log.
LogLine(w) ==
  /\ logOpen /\ "log" \notin broken
  /\ lock' = "free" /\ log' = Append(log, Line(w))
  /\ writer' = [writer EXCEPT ![w] = IF w = "main" /\ pc = "missing" THEN "waiting" ELSE "idle"]
  /\ pc' = IF w # "main" THEN pc
           ELSE CASE pc = "command" -> "spawn"
                  [] pc = "missing" -> "exit"
                  [] pc = "exit"    -> "returned"
  /\ UNCHANGED logOpen

\* write_line ends with its line in the log, or with an exception.
LEMMA WriteLogSplit ==
  ASSUME NEW w, WriteLog(w)
  PROVE  /\ writer[w] = "log"
         /\ UNCHANGED <<caught, exitCode, copied, screen, child, returnCode, written, background,
                        interrupts, broken>>
         /\ LogLine(w) \/ (Raise(w) /\ UNCHANGED log /\ (~logOpen \/ "log" \in broken))
  BY DEF WriteLog, LogLine, childVars

LEMMA WriteLogIInv == ASSUME IInv, NEW w \in Writers, WriteLog(w) PROVE IInv'
<1>0. /\ writer[w] = "log"
      /\ UNCHANGED <<caught, exitCode, copied, screen, child, returnCode, written, background,
                     interrupts, broken>>
  BY WriteLogSplit
<1>1. Line(w) \in Lines
  BY <1>0, LineType
<1>2. lock = w /\ w # "free"
  BY <1>0 DEF IInv, LockInv, Writers, Streams
<1>3. w = "main" => pc \in LinePcs /\ logOpen
  BY <1>0 DEF IInv, MainInv, LinePcs
<1>4. CASE Raise(w) /\ UNCHANGED log /\ (~logOpen \/ "log" \in broken)
  <2>1. UNCHANGED childVars /\ interrupts' \in Nat
    BY <1>0 DEF childVars, IInv, TypeOK
  <2>2. QED
    BY <1>0, <1>2, <1>4, <2>1, RaiseIInv
<1>5. CASE LogLine(w)
  <2> USE <1>0, <1>5 DEF LogLine
  <2>1. pc' \in LinePcs \cup {"spawn", "start", "wait", "brief", "handler", "join", "returned", "unwound"}
    BY <1>3 DEF IInv, TypeOK, LinePcs
  <2>2. TypeOK'
    <3>1. log' \in Seq(Lines)
      BY <1>1 DEF IInv, TypeOK
    <3>2. writer' \in [Writers -> Stage] /\ lock' \in Writers \cup {"free"}
      BY DEF IInv, TypeOK, Stage
    <3>3. QED
      BY <2>1, <3>1, <3>2 DEF IInv, TypeOK, Stage
  <2>3. LockInv'
    BY <1>2 DEF IInv, TypeOK, LockInv, Writers, Streams
  <2>4. MainInv'
    BY <1>3 DEF IInv, TypeOK, MainInv, LinePcs, Writers
  <2>5. OutputInv'
    BY <1>2 DEF IInv, TypeOK, OutputInv
  <2>6. ChildInv'
    BY <1>3 DEF IInv, ChildInv, MainInv, LinePcs
  <2>7. QED
    BY <2>2, <2>3, <2>4, <2>5, <2>6 DEF IInv
<1>6. QED
  BY <1>4, <1>5, WriteLogSplit

-----------------------------------------------------------------------------
(* The copying threads *)

LEMMA ReadLineIInv == ASSUME IInv, NEW s \in Streams, ReadLine(s) PROVE IInv'
<1> USE DEF ReadLine, mainVars, logVars, childVars
<1>1. writer' = [writer EXCEPT ![s] = "waiting"] /\ writer[s] = "idle" /\ s # "main" /\ s \in Writers
  BY DEF Streams, Writers
<1>2. TypeOK'
  BY <1>1 DEF IInv, TypeOK
<1>3. LockInv' /\ lock # s
  BY <1>1 DEF IInv, TypeOK, LockInv
<1>4. MainInv'
  BY <1>1 DEF IInv, TypeOK, MainInv, Writers
<1>5. OutputInv'
  BY <1>1, <1>3 DEF IInv, TypeOK, OutputInv, Line
<1>6. ChildInv'
  BY DEF IInv, ChildInv
<1>7. QED
  BY <1>2, <1>3, <1>4, <1>5, <1>6 DEF IInv

LEMMA CloseStreamIInv == ASSUME IInv, NEW s \in Streams, CloseStream(s) PROVE IInv'
<1> USE DEF CloseStream, mainVars, logVars, childVars
<1>1. writer' = [writer EXCEPT ![s] = "dead"] /\ writer[s] = "idle" /\ s # "main" /\ s \in Writers
  BY DEF Streams, Writers
<1>2. TypeOK'
  BY <1>1 DEF IInv, TypeOK
<1>3. LockInv' /\ lock # s
  BY <1>1 DEF IInv, TypeOK, LockInv
<1>4. MainInv'
  BY <1>1 DEF IInv, TypeOK, MainInv, Writers
<1>5. OutputInv'
  BY <1>1, <1>3 DEF IInv, TypeOK, OutputInv, Line
<1>6. ChildInv'
  BY DEF IInv, ChildInv
<1>7. QED
  BY <1>2, <1>3, <1>4, <1>5, <1>6 DEF IInv

-----------------------------------------------------------------------------
(* The main thread *)

LEMMA SpawnIInv == ASSUME IInv, Spawn PROVE IInv'
<1> USE DEF Spawn
<1>1. writer["main"] = "idle" /\ lock # "main" /\ "main" \in Writers
  BY DEF IInv, MainInv, LockInv, LinePcs, Writers
<1>2. TypeOK'
  <2>1. pc' \in {"start", "missing", "unwound"} /\ child' \in {"unborn", "running", "exited"}
    BY DEF IInv, TypeOK
  <2>2. exitCode' = exitCode \/ exitCode' = 127
    OBVIOUS
  <2>3. logOpen' \in BOOLEAN
    BY DEF IInv, TypeOK
  <2>4. writer' \in [Writers -> {"unstarted", "idle", "waiting", "terminal", "log", "dead"}]
    BY DEF IInv, TypeOK
  <2>5. QED
    BY <2>1, <2>2, <2>3, <2>4 DEF IInv, TypeOK, LinePcs
<1>3. LockInv'
  BY <1>1 DEF IInv, TypeOK, LockInv
<1>4. MainInv'
  <2>1. \/ pc' \in {"start", "unwound"} /\ writer' = writer
        \/ pc' = "missing" /\ writer' = [writer EXCEPT !["main"] = "waiting"]
    OBVIOUS
  <2>2. logOpen' <=> pc' # "unwound"
    BY DEF IInv, MainInv, TypeOK
  <2>3. QED
    BY <1>1, <2>1, <2>2 DEF IInv, TypeOK, MainInv, LinePcs
<1>5. OutputInv'
  BY <1>1 DEF IInv, TypeOK, OutputInv, MainInv, Line
<1>6. ChildInv'
  BY DEF IInv, ChildInv
<1>7. QED
  BY <1>2, <1>3, <1>4, <1>5, <1>6 DEF IInv

LEMMA StartThreadIInv == ASSUME IInv, NEW s \in Streams, StartThread(s) PROVE IInv'
<1> USE DEF StartThread, logVars, childVars
<1>1. writer' = [writer EXCEPT ![s] = "idle"] /\ writer[s] = "unstarted" /\ s # "main" /\ s \in Writers
  BY DEF Streams, Writers
<1>2. TypeOK'
  BY <1>1 DEF IInv, TypeOK
<1>3. LockInv' /\ lock # s /\ lock # "main"
  BY <1>1 DEF IInv, TypeOK, LockInv, MainInv, LinePcs, Writers
<1>4. MainInv'
  BY <1>1 DEF IInv, TypeOK, MainInv, Writers, LinePcs
<1>5. OutputInv'
  BY <1>1, <1>3 DEF IInv, TypeOK, OutputInv, Line
<1>6. ChildInv'
  BY DEF IInv, ChildInv
<1>7. QED
  BY <1>2, <1>3, <1>4, <1>5, <1>6 DEF IInv

\* The steps of the wait move the main thread between pcs that write no line.
LEMMA WaitIInv == ASSUME IInv, WaitReturns \/ BriefWaitEnds \/ HandleInterrupt PROVE IInv'
<1>1. /\ UNCHANGED <<exitCode, writer, copied, written, lock, screen, log>>
      /\ UNCHANGED <<logOpen, background, interrupts, broken>>
  BY DEF WaitReturns, BriefWaitEnds, HandleInterrupt, logVars, childVars
<1>2. lock # "main" /\ pc \in {"wait", "brief", "handler"} /\ pc' \in {"join", "handler", "wait"}
  BY DEF IInv, LockInv, MainInv, LinePcs, Writers, WaitReturns, BriefWaitEnds, HandleInterrupt
<1>3. TypeOK'
  <2>1. caught' \in Nat
    BY DEF IInv, TypeOK, WaitReturns, BriefWaitEnds, HandleInterrupt
  <2>2. child' \in {"unborn", "running", "exited"} /\ returnCode' \in {NoCode} \cup -64..255
    BY DEF IInv, TypeOK, Sigkill, WaitReturns, BriefWaitEnds, HandleInterrupt, childVars
  <2>3. QED
    BY <1>1, <1>2, <2>1, <2>2 DEF IInv, TypeOK
<1>4. LockInv' /\ MainInv'
  BY <1>1, <1>2 DEF IInv, LockInv, MainInv, LinePcs
<1>5. OutputInv'
  BY <1>1, <1>2 DEF IInv, OutputInv, Line
<1>6. ChildInv'
  BY DEF IInv, ChildInv, Sigkill, WaitReturns, BriefWaitEnds, HandleInterrupt, childVars
<1>7. QED
  BY <1>3, <1>4, <1>5, <1>6 DEF IInv

LEMMA JoinIInv == ASSUME IInv, Join PROVE IInv'
<1> USE DEF Join, logVars, childVars
<1>1. writer["main"] = "idle" /\ lock # "main" /\ "main" \in Writers
  BY DEF IInv, MainInv, LockInv, LinePcs, Writers
<1>2. TypeOK'
  <2>1. exitCode' \in 0..255
    BY ExitCodeType DEF IInv, ChildInv
  <2>2. writer' \in [Writers -> {"unstarted", "idle", "waiting", "terminal", "log", "dead"}]
    BY DEF IInv, TypeOK
  <2>3. QED
    BY <2>1, <2>2 DEF IInv, TypeOK, LinePcs
<1>3. LockInv'
  BY <1>1 DEF IInv, TypeOK, LockInv
<1>4. MainInv'
  BY <1>1 DEF IInv, TypeOK, MainInv, LinePcs
<1>5. OutputInv'
  BY <1>1 DEF IInv, TypeOK, OutputInv, MainInv, Line
<1>6. ChildInv'
  BY DEF IInv, ChildInv
<1>7. QED
  BY <1>2, <1>3, <1>4, <1>5, <1>6 DEF IInv

\* Outside the wait the log closes, so nothing is left to say of the output.
LEMMA InterruptIInv == ASSUME IInv, Interrupt PROVE IInv'
<1> USE DEF Interrupt, childVars
<1>1. ChildInv'
  BY DEF IInv, ChildInv, Raise
<1>2. CASE pc \in {"wait", "brief"}
  <2>1. lock # "main" /\ pc' \in {"brief", "handler"} /\ UNCHANGED <<writer, lock, logOpen>>
    BY <1>2 DEF IInv, LockInv, MainInv, LinePcs, Writers
  <2>2. TypeOK'
    <3>1. interrupts' \in Nat
      BY DEF IInv, TypeOK
    <3>2. QED
      BY <2>1, <3>1 DEF IInv, TypeOK
  <2>3. LockInv' /\ MainInv' /\ OutputInv'
    BY <1>2, <2>1 DEF IInv, LockInv, MainInv, OutputInv, Line, LinePcs
  <2>4. QED
    BY <1>1, <2>2, <2>3 DEF IInv
<1>3. CASE pc \notin {"wait", "brief"}
  <2>1. /\ Raise("main") /\ "main" \in Writers
        /\ UNCHANGED <<caught, exitCode, copied, screen, log, childVars, broken>>
    BY <1>3 DEF Writers
  <2>2. interrupts' \in Nat
    BY DEF IInv, TypeOK
  <2>3. QED
    BY <2>1, <2>2, RaiseIInv
<1>4. QED
  BY <1>2, <1>3

-----------------------------------------------------------------------------
(* The environment moves neither the program counters nor the RunLog. *)

LEMMA EnvironmentIInv ==
  ASSUME IInv,
         \/ Exit \/ Background \/ \E s \in Streams : Write(s)
         \/ \E sink \in Sinks : Break(sink)
  PROVE  IInv'
<1>1. UNCHANGED <<pc, caught, exitCode, writer, copied, lock, screen, log, logOpen, interrupts>>
  BY DEF Exit, Background, Break, Write, mainVars, logVars
<1>2. child' \in {"unborn", "running", "exited"} /\ background' \in BOOLEAN /\ broken' \subseteq Sinks
  BY DEF IInv, TypeOK, Exit, Background, Break, Write, childVars
<1>3. returnCode' \in {NoCode} \cup -64..255
  BY CodesAssumption DEF IInv, TypeOK, Exit, Background, Break, Write, childVars
<1>4. written' \in [Streams -> Nat]
  <2>1. CASE \E s \in Streams : Write(s)
    BY <2>1 DEF IInv, TypeOK, Write
  <2>2. CASE Exit \/ Background \/ \E sink \in Sinks : Break(sink)
    BY <2>2 DEF IInv, TypeOK, Exit, Background, Break, childVars
  <2>3. QED
    BY <2>1, <2>2
<1>5. TypeOK'
  BY <1>1, <1>2, <1>3, <1>4 DEF IInv, TypeOK
<1>6. LockInv' /\ MainInv' /\ OutputInv'
  <2>1. broken \subseteq broken'
    BY DEF Exit, Background, Break, Write
  <2>2. QED
    BY <1>1, <2>1 DEF IInv, LockInv, MainInv, OutputInv, Line
<1>7. ChildInv'
  BY CodesAssumption, <1>1 DEF IInv, ChildInv, Exit, Background, Break, Write, childVars
<1>8. QED
  BY <1>5, <1>6, <1>7 DEF IInv

-----------------------------------------------------------------------------
LEMMA NextIInv == IInv /\ [Next]_vars => IInv'
<1> SUFFICES ASSUME IInv, [Next]_vars PROVE IInv'
  OBVIOUS
<1>1. ASSUME NEW w \in Writers, WriteLine(w) PROVE IInv'
  BY <1>1, AcquireIInv, WriteTerminalIInv, WriteLogIInv DEF WriteLine
<1>2. CASE Main
  BY <1>2, SpawnIInv, StartThreadIInv, WaitIInv, JoinIInv DEF Main
<1>3. ASSUME NEW s \in Streams, Copy(s) PROVE IInv'
  BY <1>1, <1>3, ReadLineIInv, CloseStreamIInv DEF Copy, Writers
<1>4. CASE Environment
  BY <1>4, InterruptIInv, EnvironmentIInv DEF Environment
<1>5. CASE UNCHANGED vars
  BY <1>5 DEF vars, mainVars, logVars, childVars, IInv, TypeOK, LockInv, MainInv, OutputInv, ChildInv, Line
<1>6. QED
  BY <1>1, <1>2, <1>3, <1>4, <1>5 DEF Next, Done, Writers

THEOREM InductiveInvariant == Spec => []IInv
  BY InitIInv, NextIInv, PTL DEF Spec

\* Every variable keeps its type; in particular the exit code stays in 0..255.
THEOREM TypeCorrect == Spec => []TypeOK
<1>1. IInv => TypeOK
  BY DEF IInv
<1>2. QED
  BY <1>1, InductiveInvariant, PTL

\* The terminal and the log agree whenever no thread is inside write_line:
\* the lock makes the two writes of a line one step (RunLog.write_line).
THEOREM ScreenAndLogAgree == Spec => []ScreenMatchesLog
<1>1. IInv => ScreenMatchesLog
  BY DEF IInv, OutputInv, ScreenMatchesLog
<1>2. QED
  BY <1>1, InductiveInvariant, PTL
-----------------------------------------------------------------------------
(* The exit code *)

\* A child exists from Popen on, and only then; the code is set after the join.
ExitInv == /\ pc \in {"command", "spawn"} => child = "unborn" /\ exitCode = NoCode
           /\ pc \in {"start", "wait", "brief", "handler", "join"} =>
                child # "unborn" /\ exitCode = NoCode
           /\ ExitCodeIsTheChilds

LEMMA NextExitInv == IInv /\ ExitInv /\ [Next]_vars => ExitInv'
<1> SUFFICES ASSUME IInv, ExitInv, [Next]_vars PROVE ExitInv'
  OBVIOUS
<1> USE DEF ExitInv, ExitCodeIsTheChilds
<1>1. ASSUME NEW w \in Writers, Acquire(w) \/ WriteTerminal(w) PROVE ExitInv'
  BY <1>1 DEF Acquire, WriteTerminal, Raise, mainVars, childVars
<1>2. ASSUME NEW w \in Writers, WriteLog(w) PROVE ExitInv'
  <2>1. w = "main" => pc \in LinePcs
    BY <1>2 DEF WriteLog, IInv, MainInv
  <2>2. UNCHANGED <<exitCode, child, returnCode>>
    BY <1>2, WriteLogSplit
  <2>3. \/ pc' = pc \/ pc' = "unwound"
        \/ pc = "command" /\ pc' = "spawn"
        \/ pc = "missing" /\ pc' = "exit"
        \/ pc = "exit" /\ pc' = "returned"
    BY <1>2, <2>1, WriteLogSplit DEF LogLine, Raise, LinePcs
  <2>4. QED
    BY <2>2, <2>3
<1>3. ASSUME NEW s \in Streams, ReadLine(s) \/ CloseStream(s) \/ StartThread(s) PROVE ExitInv'
  BY <1>3 DEF ReadLine, CloseStream, StartThread, mainVars, childVars
<1>4. CASE Spawn
  BY <1>4 DEF Spawn, NoCode
<1>5. CASE WaitReturns \/ BriefWaitEnds \/ HandleInterrupt
  BY <1>5 DEF WaitReturns, BriefWaitEnds, HandleInterrupt, childVars
<1>6. CASE Join
  BY <1>6 DEF Join, ExitCodeOf, childVars, IInv, ChildInv
<1>7. CASE Interrupt
  BY <1>7 DEF Interrupt, Raise, childVars
<1>8. CASE \/ Exit \/ Background \/ \E s \in Streams : Write(s)
           \/ \E sink \in Sinks : Break(sink)
  BY <1>8 DEF Exit, Background, Break, Write, mainVars, childVars
<1>9. CASE UNCHANGED vars
  BY <1>9 DEF vars, mainVars, childVars
<1>10. QED
  BY <1>1, <1>2, <1>3, <1>4, <1>5, <1>6, <1>7, <1>8, <1>9
  DEF Next, Main, WriteLine, Copy, Environment, Done, Writers

\* The reported code is the child's own, 128 + N for signal N, or 127 if there
\* was none (convert_return_code_to_exit_code), whatever Ctrl-C did meanwhile.
THEOREM ExitCodeIsHonest == Spec => []ExitCodeIsTheChilds
<1>1. Init => ExitInv
  BY DEF Init, ExitInv, ExitCodeIsTheChilds
<1>2. ExitInv => ExitCodeIsTheChilds
  BY DEF ExitInv
<1>3. QED
  BY <1>1, <1>2, NextExitInv, InductiveInvariant, PTL DEF Spec

-----------------------------------------------------------------------------
(* The kill *)

\* Each interrupt that is caught, or is about to be, is one that was sent.
KillInv == /\ caught \in Nat /\ interrupts \in Nat
           /\ caught + (IF pc \in {"brief", "handler"} THEN 1 ELSE 0) <= interrupts
           /\ KilledOnlyOnSecondInterrupt

LEMMA NextKillInv == ASSUME Sigkill \notin ReturnCodes
                     PROVE  IInv /\ KillInv /\ [Next]_vars => KillInv'
<1> SUFFICES ASSUME IInv, KillInv, [Next]_vars PROVE KillInv'
  OBVIOUS
<1> USE DEF KillInv, KilledOnlyOnSecondInterrupt
<1>1. ASSUME NEW w \in Writers, Acquire(w) \/ WriteTerminal(w) PROVE KillInv'
  BY <1>1 DEF Acquire, WriteTerminal, Raise, mainVars, childVars
<1>2. ASSUME NEW w \in Writers, WriteLog(w) PROVE KillInv'
  <2>1. w = "main" => pc \in LinePcs
    BY <1>2 DEF WriteLog, IInv, MainInv
  <2>2. pc' = pc \/ pc' \notin {"brief", "handler"}
    BY <1>2, <2>1, WriteLogSplit DEF LogLine, Raise, LinePcs
  <2>3. UNCHANGED <<caught, interrupts, returnCode>>
    BY <1>2, WriteLogSplit
  <2>4. QED
    BY <2>2, <2>3
<1>3. ASSUME NEW s \in Streams, ReadLine(s) \/ CloseStream(s) \/ StartThread(s) PROVE KillInv'
  BY <1>3 DEF ReadLine, CloseStream, StartThread, mainVars, childVars
<1>4. CASE Spawn \/ WaitReturns \/ BriefWaitEnds \/ Join
  BY <1>4 DEF Spawn, WaitReturns, BriefWaitEnds, Join, childVars
<1>5. CASE HandleInterrupt
  BY <1>5 DEF HandleInterrupt, Kills
<1>6. CASE Interrupt
  BY <1>6 DEF Interrupt, Raise, childVars
<1>7. CASE \/ Exit \/ Background \/ \E s \in Streams : Write(s)
           \/ \E sink \in Sinks : Break(sink)
  BY <1>7 DEF Exit, Background, Break, Write, mainVars, childVars
<1>8. CASE UNCHANGED vars
  BY <1>8 DEF vars, mainVars, childVars
<1>9. QED
  BY <1>1, <1>2, <1>3, <1>4, <1>5, <1>6, <1>7, <1>8
  DEF Next, Main, WriteLine, Copy, Environment, Done, Writers

\* wait_for_process_through_interrupts kills no child before the second Ctrl-C.
\* (A child that somebody else may kill with SIGKILL would look the same.)
THEOREM KillsAreAskedFor == ASSUME Sigkill \notin ReturnCodes
                            PROVE  Spec => []KilledOnlyOnSecondInterrupt
<1>1. Init => KillInv
  BY DEF Init, KillInv, KilledOnlyOnSecondInterrupt, NoCode, Sigkill
<1>2. IInv /\ KillInv /\ [Next]_vars => KillInv'
  BY NextKillInv
<1>3. KillInv => KilledOnlyOnSecondInterrupt
  BY DEF KillInv
<1>4. QED
  BY <1>1, <1>2, <1>3, InductiveInvariant, PTL DEF Spec

-----------------------------------------------------------------------------
(* The frame of the log *)

CommandLine == <<"main", "command">>
ExitLine == <<"main", "exit">>

\* The copying threads are started after the command line was written and are
\* gone before the exit line is.
FrameInv ==
  /\ pc \in {"command", "spawn", "missing"} => \A s \in Streams : writer[s] = "unstarted"
  /\ pc \in {"exit", "returned"} => \A s \in Streams : writer[s] \in {"unstarted", "dead"}
  /\ pc = "command" => log = <<>>
  /\ pc \notin {"command", "unwound"} => log # <<>>
  /\ pc \notin {"returned", "unwound"} => \A i \in DOMAIN log : log[i] # ExitLine
  /\ LogIsFramed

LEMMA NextFrameInv == IInv /\ FrameInv /\ [Next]_vars => FrameInv'
<1> SUFFICES ASSUME IInv, FrameInv, [Next]_vars PROVE FrameInv'
  OBVIOUS
<1> USE DEF FrameInv, LogIsFramed
<1>1. writer \in [Writers -> {"unstarted", "idle", "waiting", "terminal", "log", "dead"}]
  BY DEF IInv, TypeOK
<1>2. ASSUME NEW w \in Writers, Acquire(w) \/ WriteTerminal(w) \/ (WriteLog(w) /\ ~LogLine(w))
      PROVE  FrameInv'
  <2>1. UNCHANGED log /\ (pc' = pc \/ pc' = "unwound")
    BY <1>2, WriteLogSplit DEF Acquire, WriteTerminal, Raise, mainVars
  <2>2. \A s \in Streams : writer[s] \in {"unstarted", "dead"} => writer'[s] = writer[s]
    BY <1>1, <1>2, WriteLogSplit DEF Acquire, WriteTerminal, Raise, Writers, Streams
  <2>3. QED
    BY <2>1, <2>2
<1>3. ASSUME NEW w \in Writers, WriteLog(w), LogLine(w) PROVE FrameInv'
  <2>1. \A s \in Streams : writer[s] \in {"unstarted", "dead"} => writer'[s] = writer[s]
    BY <1>1, <1>3 DEF WriteLog, LogLine, Writers
  <2>2. logOpen
    BY <1>3 DEF LogLine
  <2>3. CASE logOpen /\ w = "main"
    <3>1. log' = Append(log, <<"main", pc>>) /\ log \in Seq(Lines)
      BY <1>3, <2>3 DEF LogLine, Line, IInv, TypeOK
    <3>2. \/ pc = "command" /\ pc' = "spawn"
          \/ pc = "missing" /\ pc' = "exit"
          \/ pc = "exit" /\ pc' = "returned"
      BY <1>3, <2>3 DEF WriteLog, LogLine, IInv, MainInv, LinePcs
    <3>3. /\ Len(log') = Len(log) + 1 /\ log'[Len(log')] = <<"main", pc>>
          /\ \A i \in 1..Len(log) : log'[i] = log[i]
          /\ DOMAIN log' = 1..Len(log') /\ DOMAIN log = 1..Len(log) /\ Len(log) \in Nat
          /\ log = <<>> <=> Len(log) = 0
      BY <3>1
    <3>4. log' # <<>>
      BY <3>1
    <3>5. log'[1] = CommandLine
      BY <3>2, <3>3 DEF CommandLine
    <3>6. \A i \in DOMAIN log' : log'[i] = ExitLine => i = Len(log') /\ pc = "exit"
      BY <3>2, <3>3 DEF ExitLine
    <3>7. QED
      BY <2>1, <3>2, <3>4, <3>5, <3>6 DEF CommandLine, ExitLine
  <2>4. CASE logOpen /\ w # "main"
    <3>1. w \in Streams /\ writer[w] = "log" /\ pc # "unwound" /\ pc' = pc
      BY <1>3, <2>4 DEF WriteLog, LogLine, Writers, IInv, MainInv
    <3>2. pc \notin {"command", "spawn", "missing", "exit", "returned"}
      BY <3>1
    <3>3. log' = Append(log, <<w, copied[w]>>) /\ log \in Seq(Lines)
      BY <1>3, <2>4 DEF LogLine, Line, IInv, TypeOK
    <3>4. /\ Len(log') = Len(log) + 1 /\ log'[Len(log')] = <<w, copied[w]>>
          /\ \A i \in 1..Len(log) : log'[i] = log[i]
          /\ DOMAIN log' = 1..Len(log') /\ DOMAIN log = 1..Len(log) /\ Len(log) \in Nat
          /\ log = <<>> <=> Len(log) = 0
      BY <3>3
    <3>5. log' # <<>> /\ log'[1] = CommandLine
      BY <3>1, <3>2, <3>3, <3>4 DEF CommandLine
    <3>6. \A i \in DOMAIN log' : log'[i] # ExitLine
      BY <3>1, <3>2, <3>4, <2>4 DEF ExitLine
    <3>7. QED
      BY <2>1, <3>1, <3>2, <3>5, <3>6 DEF CommandLine, ExitLine
  <2>5. QED
    BY <2>2, <2>3, <2>4
<1>4. ASSUME NEW s \in Streams, ReadLine(s) \/ CloseStream(s) PROVE FrameInv'
  BY <1>1, <1>4 DEF ReadLine, CloseStream, mainVars, logVars, Writers
<1>5. ASSUME NEW s \in Streams, StartThread(s) PROVE FrameInv'
  BY <1>5 DEF StartThread, logVars
<1>6. CASE Spawn
  BY <1>1, <1>6 DEF Spawn, Streams, Writers
<1>7. CASE WaitReturns \/ BriefWaitEnds \/ HandleInterrupt
  BY <1>7 DEF WaitReturns, BriefWaitEnds, HandleInterrupt, logVars
<1>8. CASE Join
  BY <1>1, <1>8 DEF Join, Joined, logVars, Streams, Writers
<1>9. CASE Interrupt
  BY <1>1, <1>9 DEF Interrupt, Raise, Writers, Streams
<1>10. CASE \/ Exit \/ Background \/ \E s \in Streams : Write(s)
            \/ \E sink \in Sinks : Break(sink)
  BY <1>10 DEF Exit, Background, Break, Write, mainVars, logVars
<1>11. CASE UNCHANGED vars
  BY <1>11 DEF vars, mainVars, logVars
<1>12. QED
  BY <1>2, <1>3, <1>4, <1>5, <1>6, <1>7, <1>8, <1>9, <1>10, <1>11
  DEF Next, Main, WriteLine, Copy, Environment, Done, Writers

\* A log begins with the command line, and nothing follows the exit line: the two
\* threads are joined first (run_command_with_timestamped_output).
THEOREM LogsAreFramed == Spec => []LogIsFramed
<1>1. Init => FrameInv
  BY DEF Init, FrameInv, LogIsFramed, Writers, Streams
<1>2. FrameInv => LogIsFramed
  BY DEF FrameInv
<1>3. QED
  BY <1>1, <1>2, NextFrameInv, InductiveInvariant, PTL DEF Spec
=============================================================================
