------------------------ MODULE CommandRun_refinement ------------------------
(***************************************************************************)
(* The run of a command implements LoggedRun: for any number of lines,     *)
(* pipes of any capacity, any interrupts and return codes.                 *)
(***************************************************************************)
EXTENDS CommandRun_proofs, FiniteSetTheorems

Count(s) == Cardinality(Places(s))

\* The n-th line of a stream in the log is the stream's line n.
OrderInv ==
  \A s \in Streams :
    /\ \A i \in Places(s) : log[i][2] = Rank(s, i)
    /\ \A n \in 1..Count(s) : \E i \in Places(s) : Rank(s, i) = n

\* The lines of s are all in the log, or a sink failed and some will never be.
Complete(s) == \/ AtEndOfFile /\ Count(s) = written[s]
               \/ {Terminal(s), "log"} \cap broken # {} /\ Count(s) < written[s]

\* While the log is open, a copying thread has logged what it has read, but for
\* the line it is at; one that is gone has seen the end, or a sink that failed.
CopyInv ==
  \A s \in Streams :
    /\ Count(s) <= copied[s] /\ copied[s] <= written[s]
    /\ logOpen =>
         /\ writer[s] \in {"unstarted", "idle"} => copied[s] = Count(s)
         /\ writer[s] \in {"waiting", "terminal", "log"} => copied[s] = Count(s) + 1
         /\ writer[s] = "dead" => Complete(s)

\* Nothing more can be written, and the log has it all but what stdout's failure cost.
Delivered == \/ child = "unborn"
             \/ /\ AtEndOfFile /\ Count("err") = written["err"]
                /\ \/ Count("out") = written["out"]
                   \/ "out" \in broken /\ Count("out") < written["out"]

Codes == {127} \cup {ExitCodeOf(rc) : rc \in ReturnCodes \cup {Sigkill}}

\* The exit line is written when both threads are gone.  Where it has got past
\* stderr, stderr took nobody away, and past the log, neither did the log.
CodeInv ==
  /\ child = "unborn" => ~background /\ returnCode = NoCode
                         /\ \A s \in Streams : written[s] = 0 /\ copied[s] = 0
  /\ returnCode \in {NoCode, Sigkill} \cup ReturnCodes
  /\ pc = "missing" => child = "unborn" /\ exitCode \in Codes
  /\ pc = "exit" => exitCode \in Codes /\ (child = "unborn" \/ \A s \in Streams : Complete(s))
  /\ pc = "exit" /\ writer["main"] = "log" => Delivered \/ "log" \in broken
  /\ pc = "returned" => exitCode \in Codes /\ Delivered

RunInv == OrderInv /\ CopyInv /\ CodeInv

-----------------------------------------------------------------------------
(* The lines of one stream in the log *)

LEMMA PlacesAreFinite ==
  ASSUME log \in Seq(Lines), NEW s
  PROVE  /\ IsFiniteSet(Places(s)) /\ Count(s) \in Nat
         /\ Places(s) \subseteq 1..Len(log)
         /\ \A i \in Places(s) : Rank(s, i) \in 1..Count(s)
  <1>1. IsFiniteSet(1..Len(log)) /\ Places(s) \subseteq 1..Len(log)
    BY FS_Interval DEF Places
  <1>2. IsFiniteSet(Places(s)) /\ Count(s) \in Nat
    BY <1>1, FS_Subset, FS_CardinalityType DEF Count
  <1>3. ASSUME NEW i \in Places(s) PROVE Rank(s, i) \in 1..Count(s)
    <2> DEFINE upTo == {j \in Places(s) : j <= i}
    <2>1. upTo \in SUBSET Places(s) /\ i \in upTo
      BY <1>1
    <2>2. IsFiniteSet(upTo) /\ Cardinality(upTo) <= Count(s)
      BY <1>2, <2>1, FS_Subset DEF Count
    <2>3. Cardinality(upTo) \in Nat /\ Cardinality(upTo) # 0
      BY <2>1, <2>2, FS_CardinalityType, FS_EmptySet
    <2> QED BY <1>2, <2>2, <2>3 DEF Rank
  <1> QED BY <1>1, <1>2, <1>3

\* A log in order records exactly the numbers up to the count.
InOrder == \A s \in Streams : /\ Count(s) \in Nat /\ Logged(s) = [n \in 1..Count(s) |-> n]
                              /\ Len(Logged(s)) = Count(s)

LEMMA LoggedInOrder == log \in Seq(Lines) /\ OrderInv => InOrder
  <1> SUFFICES ASSUME log \in Seq(Lines), OrderInv, NEW s \in Streams
               PROVE  /\ Count(s) \in Nat /\ Logged(s) = [n \in 1..Count(s) |-> n]
                      /\ Len(Logged(s)) = Count(s)
    BY DEF InOrder
  <1>1. ASSUME NEW n \in 1..Count(s)
        PROVE  log[CHOOSE i \in Places(s) : Rank(s, i) = n][2] = n
    <2>1. \E i \in Places(s) : Rank(s, i) = n
      BY DEF OrderInv
    <2> DEFINE place == CHOOSE i \in Places(s) : Rank(s, i) = n
    <2>2. place \in Places(s) /\ Rank(s, place) = n
      BY <2>1
    <2> QED BY <2>2 DEF OrderInv
  <1>2. Count(s) \in Nat /\ Logged(s) = [n \in 1..Count(s) |-> n]
    BY <1>1, PlacesAreFinite DEF Logged, Count
  <1> QED BY <1>2

LEMMA SameLog ==
  ASSUME UNCHANGED log
  PROVE  /\ \A s \in Streams : Count(s)' = Count(s) /\ Logged(s)' = Logged(s)
         /\ OrderInv => OrderInv'
  BY DEF Count, Logged, Places, Rank, OrderInv

\* A line that is appended is the last of its stream, and does not count for others.
LEMMA OtherLine ==
  ASSUME log \in Seq(Lines), NEW line, log' = Append(log, line), NEW s, line[1] # s
  PROVE  /\ Places(s)' = Places(s) /\ Count(s)' = Count(s)
         /\ \A i \in Places(s) : Rank(s, i)' = Rank(s, i) /\ log'[i] = log[i]
  <1>1. /\ DOMAIN log' = 1..Len(log) + 1 /\ log'[Len(log) + 1] = line
        /\ DOMAIN log = 1..Len(log) /\ Len(log) \in Nat
        /\ \A i \in 1..Len(log) : log'[i] = log[i]
    OBVIOUS
  <1>2. Places(s)' = Places(s)
    BY <1>1 DEF Places
  <1>3. \A i \in Places(s) : log'[i] = log[i]
    BY <1>1 DEF Places
  <1> QED BY <1>2, <1>3 DEF Count, Rank

LEMMA OwnLine ==
  ASSUME log \in Seq(Lines), NEW line, log' = Append(log, line), NEW s, line[1] = s,
         NEW place, place = Len(log) + 1
  PROVE  /\ Places(s)' = Places(s) \cup {place} /\ Count(s)' = Count(s) + 1
         /\ \A i \in Places(s) : Rank(s, i)' = Rank(s, i) /\ log'[i] = log[i]
         /\ Rank(s, place)' = Count(s) + 1
  <1>1. /\ DOMAIN log' = 1..Len(log) + 1 /\ log'[Len(log) + 1] = line
        /\ DOMAIN log = 1..Len(log) /\ Len(log) \in Nat
        /\ \A i \in 1..Len(log) : log'[i] = log[i]
    OBVIOUS
  <1>2. Places(s)' = Places(s) \cup {place}
    BY <1>1 DEF Places
  <1>3. IsFiniteSet(Places(s)) /\ Places(s) \subseteq 1..Len(log) /\ Count(s) \in Nat
    BY PlacesAreFinite
  <1>4. place \notin Places(s)
    BY <1>1, <1>3
  <1>5. Count(s)' = Count(s) + 1
    BY <1>2, <1>3, <1>4, FS_AddElement DEF Count
  <1>6. ASSUME NEW i \in Places(s) PROVE Rank(s, i)' = Rank(s, i) /\ log'[i] = log[i]
    <2>1. {j \in Places(s)' : j <= i} = {j \in Places(s) : j <= i}
      BY <1>1, <1>2, <1>3
    <2>2. Rank(s, i)' = Rank(s, i)
      BY <2>1 DEF Rank
    <2> QED BY <1>1, <1>3, <2>2
  <1>7. Rank(s, place)' = Count(s)'
    <2>1. {j \in Places(s)' : j <= place} = Places(s)'
      BY <1>1, <1>2, <1>3
    <2> QED BY <2>1 DEF Rank, Count
  <1> QED BY <1>2, <1>5, <1>6, <1>7

\* The next line of a stream keeps the order, and is the next that is recorded.
LEMMA NextLineInOrder ==
  ASSUME log \in Seq(Lines), OrderInv, NEW s \in Streams,
         NEW line, log' = Append(log, line), line[1] = s, line[2] = Count(s) + 1
  PROVE  /\ OrderInv' /\ Count(s)' = Count(s) + 1
         /\ \A r \in Streams \ {s} : Count(r)' = Count(r)
  <1>0. Count(s) \in Nat /\ Len(log) \in Nat
    BY PlacesAreFinite
  <1>1. PICK there \in Nat : there = Len(log) + 1
    BY <1>0
  <1>2. /\ Places(s)' = Places(s) \cup {there} /\ Count(s)' = Count(s) + 1
        /\ \A i \in Places(s) : Rank(s, i)' = Rank(s, i) /\ log'[i] = log[i]
        /\ Rank(s, there)' = Count(s) + 1
    BY <1>0, <1>1, OwnLine
  <1>3. log'[there] = line
    BY <1>1
  <1>4. ASSUME NEW r \in Streams \ {s}
        PROVE  /\ Places(r)' = Places(r) /\ Count(r)' = Count(r)
               /\ \A i \in Places(r) : Rank(r, i)' = Rank(r, i) /\ log'[i] = log[i]
    BY OtherLine
  <1>5. ASSUME NEW i \in Places(s)' PROVE log'[i][2] = Rank(s, i)'
    <2>1. CASE i = there
      BY <1>2, <1>3, <2>1
    <2>2. CASE i \in Places(s)
      BY <1>2, <2>2 DEF OrderInv
    <2> QED BY <1>2, <2>1, <2>2
  <1>6. ASSUME NEW n \in 1..Count(s)' PROVE \E i \in Places(s)' : Rank(s, i)' = n
    <2>1. CASE n = Count(s) + 1
      BY <1>2, <2>1
    <2>2. CASE n \in 1..Count(s)
      BY <1>2, <2>2 DEF OrderInv
    <2> QED BY <1>0, <1>2, <2>1, <2>2
  <1>7. ASSUME NEW r \in Streams \ {s}
        PROVE  /\ \A i \in Places(r)' : log'[i][2] = Rank(r, i)'
               /\ \A n \in 1..Count(r)' : \E i \in Places(r)' : Rank(r, i)' = n
    <2>1. ASSUME NEW i \in Places(r)' PROVE log'[i][2] = Rank(r, i)'
      <3>1. i \in Places(r)
        BY <1>4
      <3>2. log[i][2] = Rank(r, i)
        BY <3>1 DEF OrderInv
      <3> QED BY <1>4, <3>1, <3>2
    <2>2. ASSUME NEW n \in 1..Count(r)' PROVE \E i \in Places(r)' : Rank(r, i)' = n
      <3>1. PICK i \in Places(r) : Rank(r, i) = n
        BY <1>4 DEF OrderInv
      <3> QED BY <1>4, <3>1
    <2> QED BY <2>1, <2>2
  <1>8. OrderInv'
    BY <1>5, <1>6, <1>7 DEF OrderInv
  <1> QED BY <1>2, <1>4, <1>8

\* The main thread's lines belong to no stream.
LEMMA MainLineInOrder ==
  ASSUME log \in Seq(Lines), OrderInv,
         NEW line, log' = Append(log, line), line[1] \notin Streams
  PROVE  OrderInv' /\ \A r \in Streams : Count(r)' = Count(r)
  <1>1. ASSUME NEW r \in Streams
        PROVE  /\ Places(r)' = Places(r) /\ Count(r)' = Count(r)
               /\ \A i \in Places(r) : Rank(r, i)' = Rank(r, i) /\ log'[i] = log[i]
    BY OtherLine
  <1>2. ASSUME NEW r \in Streams, NEW i \in Places(r)' PROVE log'[i][2] = Rank(r, i)'
    <2>1. i \in Places(r)
      BY <1>1
    <2>2. log[i][2] = Rank(r, i)
      BY <2>1 DEF OrderInv
    <2> QED BY <1>1, <2>1, <2>2
  <1>3. ASSUME NEW r \in Streams, NEW n \in 1..Count(r)'
        PROVE  \E i \in Places(r)' : Rank(r, i)' = n
    <2>1. PICK i \in Places(r) : Rank(r, i) = n
      BY <1>1 DEF OrderInv
    <2> QED BY <1>1, <2>1
  <1> QED BY <1>1, <1>2, <1>3 DEF OrderInv

-----------------------------------------------------------------------------
(* The invariant *)

\* Everything proved about a run so far.
Inv == IInv /\ ExitInv /\ FrameInv

LEMMA Shapes ==
  ASSUME Inv
  PROVE  /\ log \in Seq(Lines) /\ writer \in [Writers -> Stage] /\ logOpen \in BOOLEAN
         /\ copied \in [Streams -> Nat] /\ written \in [Streams -> Nat] /\ background \in BOOLEAN
         /\ \A s \in Streams : Count(s) \in Nat
         /\ Streams = {"out", "err"} /\ Writers = {"out", "err", "main"}
  <1>1. log \in Seq(Lines)
    BY DEF Inv, IInv, TypeOK
  <1> QED BY <1>1, PlacesAreFinite DEF Inv, IInv, TypeOK, Stage, Streams, Writers

LEMMA InitRunInv == Init => RunInv
  <1> SUFFICES ASSUME Init PROVE RunInv
    OBVIOUS
  <1>1. \A s : Places(s) = {} /\ Count(s) = 0
    BY FS_EmptySet DEF Init, Places, Count
  <1>2. OrderInv
    BY <1>1 DEF OrderInv
  <1>3. CopyInv
    BY <1>1 DEF Init, CopyInv, Streams, Writers
  <1>4. CodeInv
    BY <1>1 DEF Init, CodeInv, Streams, Writers
  <1> QED BY <1>2, <1>3, <1>4 DEF RunInv

\* The end of both streams is final, and a sink that failed stays so.
LEMMA EndIsFinal ==
  ASSUME Inv, [Next]_vars
  PROVE  /\ AtEndOfFile => AtEndOfFile' /\ UNCHANGED written
         /\ broken \subseteq broken'
         /\ \A s \in Streams : written[s] <= written'[s]
  <1> USE DEF AtEndOfFile
  <1>0. written \in [Streams -> Nat]
    BY Shapes
  <1>1. CASE \E s \in Streams : Write(s)
    BY <1>0, <1>1 DEF Write
  <1>2. CASE Exit \/ Background \/ \E sink \in Sinks : Break(sink)
    BY <1>0, <1>2 DEF Exit, Background, Break, childVars
  <1>3. CASE Spawn \/ HandleInterrupt
    <2>1. UNCHANGED <<written, background, broken>>
      BY <1>3 DEF Spawn, HandleInterrupt
    <2>2. child = "exited" => child' = "exited"
      BY <1>3 DEF Spawn, HandleInterrupt, Inv, ExitInv
    <2> QED BY <1>0, <2>1, <2>2
  <1>4. CASE \/ WaitReturns \/ BriefWaitEnds \/ Join \/ Interrupt \/ UNCHANGED vars
             \/ \E s \in Streams : StartThread(s) \/ ReadLine(s) \/ CloseStream(s)
             \/ \E w \in Writers : WriteLine(w)
    <2>1. UNCHANGED <<child, written, background, broken>>
      BY <1>4 DEF WaitReturns, BriefWaitEnds, Join, Interrupt, vars, StartThread, ReadLine,
                  CloseStream, WriteLine, Acquire, WriteTerminal, WriteLog, childVars
    <2> QED BY <1>0, <2>1
  <1> QED BY <1>1, <1>2, <1>3, <1>4 DEF Next, Main, Copy, Environment, Done, Writers

\* What is complete stays so while no line of the stream is logged.
LEMMA CompleteStays ==
  ASSUME Inv, [Next]_vars, NEW s \in Streams, Count(s)' = Count(s), Complete(s)
  PROVE  Complete(s)'
  <1>1. /\ written \in [Streams -> Nat] /\ Count(s) \in Nat
        /\ written' \in [Streams -> Nat]
    <2>1. IInv'
      BY NextIInv DEF Inv
    <2> QED BY <2>1, Shapes DEF IInv, TypeOK
  <1> QED BY <1>1, EndIsFinal DEF Complete

\* Only LogLine changes the log.
LEMMA LogMoves ==
  ASSUME [Next]_vars
  PROVE  UNCHANGED log \/ \E w \in Writers : WriteLog(w) /\ LogLine(w)
  <1>1. ASSUME NEW w \in Writers, WriteLine(w)
        PROVE  UNCHANGED log \/ (WriteLog(w) /\ LogLine(w))
    BY <1>1, WriteLogSplit DEF WriteLine, Acquire, WriteTerminal
  <1>2. CASE Main
    BY <1>2 DEF Main, Spawn, StartThread, WaitReturns, BriefWaitEnds, HandleInterrupt, Join, logVars
  <1>3. ASSUME NEW s \in Streams, ReadLine(s) \/ CloseStream(s)
        PROVE  UNCHANGED log
    BY <1>3 DEF ReadLine, CloseStream, logVars
  <1>4. CASE Environment
    BY <1>4 DEF Environment, Interrupt, Exit, Background, Break, Write, logVars
  <1>5. CASE UNCHANGED vars
    BY <1>5 DEF vars, logVars
  <1> QED BY <1>1, <1>2, <1>3, <1>4, <1>5 DEF Next, Copy, Done, Writers

\* No line of a stream is logged once the main thread has come to its last lines.
LEMMA NoLateLine ==
  ASSUME Inv, [Next]_vars, pc \in {"missing", "exit", "returned"}
  PROVE  \A s \in Streams : Count(s)' = Count(s)
  <1>1. CASE UNCHANGED log
    BY <1>1, SameLog
  <1>2. CASE \E w \in Writers : WriteLog(w) /\ LogLine(w)
    <2>1. PICK w \in Writers : WriteLog(w) /\ LogLine(w)
      BY <1>2
    <2>2. w = "main"
      BY <2>1 DEF Inv, FrameInv, WriteLog, Writers
    <2> DEFINE line == Line("main")
    <2>3. log' = Append(log, line) /\ log \in Seq(Lines)
      BY <2>1, <2>2, Shapes DEF LogLine
    <2>4. \A s \in Streams : line[1] # s
      BY DEF Line, Streams
    <2> HIDE DEF line
    <2> QED BY <2>3, <2>4, OtherLine
  <1> QED BY <1>1, <1>2, LogMoves

\* What a step of write_line to the log file does to a stream's count.
LEMMA WriteLogCounts ==
  ASSUME Inv, RunInv, NEW w \in Writers, WriteLog(w)
  PROVE  /\ OrderInv'
         /\ LogLine(w) /\ w \in Streams => Count(w)' = Count(w) + 1 /\ copied[w] = Count(w) + 1
         /\ \A s \in Streams : s # w \/ ~LogLine(w) => Count(s)' = Count(s)
  <1>1. CASE ~LogLine(w)
    <2>1. UNCHANGED log
      BY <1>1, WriteLogSplit
    <2> QED BY <1>1, <2>1, SameLog DEF RunInv
  <1>2. CASE LogLine(w) /\ w = "main"
    <2> DEFINE line == Line("main")
    <2>1. log' = Append(log, line) /\ log \in Seq(Lines) /\ line[1] \notin Streams
      BY <1>2, Shapes DEF LogLine, Line
    <2> HIDE DEF line
    <2>2. OrderInv' /\ \A r \in Streams : Count(r)' = Count(r)
      BY <2>1, MainLineInOrder DEF RunInv
    <2>3. w \notin Streams
      BY <1>2, Shapes
    <2> QED BY <2>2, <2>3
  <1>3. CASE LogLine(w) /\ w \in Streams
    <2> DEFINE line == Line(w)
    <2>1. copied[w] = Count(w) + 1
      BY <1>3, WriteLogSplit DEF RunInv, CopyInv, LogLine
    <2>2. line = <<w, copied[w]>>
      BY <1>3 DEF Line, Streams
    <2>3. log' = Append(log, line) /\ log \in Seq(Lines) /\ line[1] = w /\ line[2] = Count(w) + 1
      BY <1>3, <2>1, <2>2, Shapes DEF LogLine
    <2> HIDE DEF line
    <2>4. OrderInv' /\ Count(w)' = Count(w) + 1 /\ \A r \in Streams \ {w} : Count(r)' = Count(r)
      BY <1>3, <2>3, NextLineInOrder DEF RunInv
    <2> QED BY <1>3, <2>1, <2>4
  <1> QED BY <1>1, <1>2, <1>3 DEF Writers

LEMMA NextOrderInv == ASSUME Inv, RunInv, [Next]_vars PROVE OrderInv'
  BY LogMoves, SameLog, WriteLogCounts DEF RunInv

LEMMA NextCopyInv == ASSUME Inv, RunInv, [Next]_vars PROVE CopyInv'
  <1> DEFINE Kept(s) == writer'[s] = writer[s] /\ copied'[s] = copied[s] /\ Count(s)' = Count(s)
  <1>0. /\ writer \in [Writers -> Stage] /\ copied \in [Streams -> Nat]
        /\ written \in [Streams -> Nat] /\ written' \in [Streams -> Nat]
        /\ \A s \in Streams : Count(s) \in Nat /\ written[s] <= written'[s]
        /\ Streams = {"out", "err"} /\ Writers = {"out", "err", "main"}
    <2>1. IInv'
      BY NextIInv DEF Inv
    <2> QED BY <2>1, Shapes, EndIsFinal DEF IInv, TypeOK
  <1> DEFINE Good(s) ==
        /\ Count(s) <= copied[s] /\ copied[s] <= written[s]
        /\ logOpen =>
             /\ writer[s] \in {"unstarted", "idle"} => copied[s] = Count(s)
             /\ writer[s] \in {"waiting", "terminal", "log"} => copied[s] = Count(s) + 1
             /\ writer[s] = "dead" => Complete(s)
  <1>1. \A s \in Streams : Good(s)
    BY DEF RunInv, CopyInv
  <1>2. ASSUME NEW s \in Streams, Kept(s), logOpen' => logOpen PROVE Good(s)'
    <2>1. Complete(s) => Complete(s)'
      BY <1>2, CompleteStays
    <2> QED BY <1>0, <1>1, <1>2, <2>1
  <1>3. ASSUME NEW w \in Writers, Acquire(w) \/ WriteTerminal(w) PROVE CopyInv'
    <2>1. UNCHANGED <<log, copied, written, broken>> /\ (logOpen' => logOpen)
      BY <1>3 DEF Acquire, WriteTerminal, Raise, childVars
    <2>2. \A s \in Streams : Count(s)' = Count(s)
      BY <2>1, SameLog
    <2>3. ASSUME NEW s \in Streams, s # w PROVE Good(s)'
      <3>1. writer'[s] = writer[s]
        BY <1>0, <1>3, <2>3 DEF Acquire, WriteTerminal, Raise
      <3> QED BY <1>2, <2>1, <2>2, <3>1
    <2>4. ASSUME w \in Streams PROVE Good(w)'
      <3>1. \/ writer[w] \in {"waiting", "terminal"} /\ writer'[w] \in {"terminal", "log"}
            \/ writer[w] = "terminal" /\ writer'[w] = "dead" /\ Terminal(w) \in broken
        BY <1>0, <1>3, <2>4 DEF Acquire, WriteTerminal, Raise
      <3>2. Count(w)' = Count(w) /\ copied'[w] = copied[w] /\ written'[w] = written[w]
        BY <2>1, <2>2, <2>4
      <3>3. writer'[w] = "dead" /\ logOpen => Complete(w)'
        <4>1. CASE writer'[w] = "dead" /\ logOpen
          <5>1. Terminal(w) \in broken /\ copied[w] = Count(w) + 1 /\ copied[w] <= written[w]
            BY <1>1, <2>4, <3>1, <4>1
          <5> QED BY <1>0, <2>1, <2>4, <3>2, <5>1 DEF Complete
        <4> QED BY <4>1
      <3> QED BY <1>0, <1>1, <2>1, <2>4, <3>1, <3>2, <3>3
    <2> QED BY <2>3, <2>4 DEF CopyInv
  <1>4. ASSUME NEW w \in Writers, WriteLog(w) PROVE CopyInv'
    <2>1. UNCHANGED <<copied, written, broken>> /\ (logOpen' => logOpen) /\ writer[w] = "log"
      BY <1>4, WriteLogSplit DEF LogLine, Raise
    <2>2. ASSUME NEW s \in Streams, s # w PROVE Good(s)'
      <3>1. writer'[s] = writer[s]
        BY <1>0, <1>4, <2>2, WriteLogSplit DEF LogLine, Raise
      <3>2. Count(s)' = Count(s)
        BY <1>4, <2>2, WriteLogCounts
      <3> QED BY <1>2, <2>1, <3>1, <3>2
    <2>3. ASSUME w \in Streams PROVE Good(w)'
      <3>1. CASE LogLine(w)
        <4>1. writer'[w] = "idle"
          BY <1>0, <2>3, <3>1 DEF LogLine
        <4>2. Count(w)' = Count(w) + 1 /\ copied[w] = Count(w) + 1
          BY <1>4, <2>3, <3>1, WriteLogCounts
        <4> QED BY <1>0, <1>1, <2>1, <2>3, <4>1, <4>2
      <3>2. CASE ~LogLine(w)
        <4>1. writer'[w] = "dead" /\ (logOpen => "log" \in broken)
          BY <1>0, <1>4, <2>3, <3>2, WriteLogSplit DEF Raise
        <4>2. Count(w)' = Count(w)
          BY <1>4, <2>3, <3>2, WriteLogCounts
        <4>3. logOpen => Complete(w)'
          BY <1>0, <1>1, <2>1, <2>3, <4>1, <4>2 DEF Complete
        <4> QED BY <1>0, <1>1, <2>1, <2>3, <4>1, <4>2, <4>3
      <3> QED BY <3>1, <3>2
    <2> QED BY <2>2, <2>3 DEF CopyInv
  <1>5. ASSUME NEW t \in Streams, ReadLine(t) \/ CloseStream(t) \/ StartThread(t) PROVE CopyInv'
    <2>1. UNCHANGED <<log, logOpen, written, broken, child, background>>
      BY <1>5 DEF ReadLine, CloseStream, StartThread, logVars, childVars
    <2>2. \A s \in Streams : Count(s)' = Count(s)
      BY <2>1, SameLog
    <2>3. ASSUME NEW s \in Streams, s # t PROVE Good(s)'
      <3>1. writer'[s] = writer[s] /\ copied'[s] = copied[s]
        BY <1>0, <1>5, <2>3 DEF ReadLine, CloseStream, StartThread
      <3> QED BY <1>2, <2>1, <2>2, <3>1
    <2>4. Good(t)'
      <3>1. CASE ReadLine(t)
        BY <1>0, <1>1, <2>1, <2>2, <3>1 DEF ReadLine
      <3>2. CASE StartThread(t)
        BY <1>0, <1>1, <2>1, <2>2, <3>2 DEF StartThread
      <3>3. CASE CloseStream(t)
        <4>1. writer[t] = "idle" /\ AtEndOfFile /\ copied[t] = written[t] /\ writer'[t] = "dead"
              /\ copied' = copied
          BY <1>0, <3>3 DEF CloseStream
        <4>2. logOpen => Complete(t)
          BY <1>1, <4>1 DEF Complete
        <4>3. logOpen => Complete(t)'
          BY <2>2, <4>2, CompleteStays
        <4> QED BY <1>1, <2>1, <2>2, <4>1, <4>3
      <3> QED BY <1>5, <3>1, <3>2, <3>3
    <2> QED BY <2>3, <2>4 DEF CopyInv
  <1>6. CASE Spawn \/ Join \/ Interrupt
    <2>1. UNCHANGED <<log, copied>> /\ (logOpen' => logOpen)
      BY <1>6 DEF Spawn, Join, Interrupt, Raise, logVars
    <2>2. \A s \in Streams : writer'[s] = writer[s]
      BY <1>0, <1>6 DEF Spawn, Join, Interrupt, Raise
    <2> QED BY <1>2, <2>1, <2>2, SameLog DEF CopyInv
  <1>7. CASE \/ WaitReturns \/ BriefWaitEnds \/ HandleInterrupt \/ UNCHANGED vars
             \/ Exit \/ Background \/ \E s \in Streams : Write(s)
             \/ \E sink \in Sinks : Break(sink)
    <2>1. UNCHANGED <<log, copied, writer, logOpen>>
      BY <1>7 DEF WaitReturns, BriefWaitEnds, HandleInterrupt, vars, Exit, Background,
                  Break, Write, logVars
    <2> QED BY <1>2, <2>1, SameLog DEF CopyInv
  <1> QED BY <1>3, <1>4, <1>5, <1>6, <1>7
          DEF Next, Main, WriteLine, Copy, Environment, Done, Writers

\* How the main thread comes to its last lines and through them.
LEMMA MainMoves ==
  ASSUME Inv, [Next]_vars
  PROVE  /\ pc' = "missing" => pc = "missing" \/ Spawn
         /\ pc' = "exit" => \/ Join
                            \/ pc = "missing" /\ writer'["main"] = "waiting"
                            \/ /\ pc = "exit"
                               /\ \/ writer'["main"] = "log" => writer["main"] = "log"
                                  \/ WriteTerminal("main") /\ "err" \notin broken
         /\ pc' = "returned" => \/ pc = "returned"
                                \/ pc = "exit" /\ WriteLog("main") /\ LogLine("main")
         /\ exitCode' # exitCode => Spawn \/ Join
         /\ pc = "returned" => pc' = "returned"
  <1>0. "main" \in Writers /\ writer \in [Writers -> Stage] /\ Streams = {"out", "err"}
    BY Shapes
  <1>1. ASSUME NEW s \in Streams, Copy(s)
        PROVE  UNCHANGED <<pc, exitCode>> /\ writer'["main"] = writer["main"]
    BY <1>0, <1>1, WriteLogSplit
       DEF Copy, ReadLine, CloseStream, WriteLine, Acquire, WriteTerminal, LogLine, Raise, mainVars
  <1>2. CASE WriteLine("main")
    <2>1. CASE Acquire("main")
      BY <1>0, <2>1 DEF Acquire, mainVars
    <2>2. CASE WriteTerminal("main")
      <3>1. UNCHANGED exitCode /\ pc \in LinePcs
        BY <2>2 DEF WriteTerminal, Inv, IInv, MainInv
      <3>2. pc' = "unwound" \/ (pc' = pc /\ "err" \notin broken)
        BY <2>2 DEF WriteTerminal, Raise, Terminal
      <3> QED BY <2>2, <3>1, <3>2 DEF LinePcs
    <2>3. CASE WriteLog("main")
      <3>1. UNCHANGED exitCode /\ pc \in LinePcs
        BY <2>3, WriteLogSplit DEF Inv, IInv, MainInv
      <3>2. CASE LogLine("main")
        BY <1>0, <2>3, <3>1, <3>2 DEF LogLine, LinePcs
      <3>3. CASE Raise("main")
        BY <3>1, <3>3 DEF Raise, LinePcs
      <3> QED BY <2>3, <3>2, <3>3, WriteLogSplit
    <2> QED BY <1>2, <2>1, <2>2, <2>3 DEF WriteLine
  <1>3. CASE Main
    BY <1>0, <1>3 DEF Main, Spawn, StartThread, WaitReturns, BriefWaitEnds, HandleInterrupt, Join
  <1>4. CASE Environment
    BY <1>0, <1>4 DEF Environment, Interrupt, Raise, Exit, Background, Break, Write, mainVars
  <1>5. CASE UNCHANGED vars
    BY <1>5 DEF vars, mainVars
  <1> QED BY <1>1, <1>2, <1>3, <1>4, <1>5 DEF Next, Done

\* A child that was never born leaves nothing behind, and is not born later.
LEMMA UnbornMoves ==
  ASSUME Inv, RunInv, [Next]_vars, child = "unborn"
  PROVE  /\ child' = "unborn" => UNCHANGED <<background, returnCode, written, copied>>
         /\ pc \in {"missing", "exit", "returned"} => child' = "unborn"
  <1>1. ~background /\ \A s \in Streams : written[s] = 0 /\ copied[s] = 0
    BY DEF RunInv, CodeInv
  <1>2. ASSUME NEW w \in Writers, WriteLine(w)
        PROVE  UNCHANGED <<child, background, returnCode, written, copied>>
    BY <1>2, WriteLogSplit DEF WriteLine, Acquire, WriteTerminal, childVars
  <1>3. CASE Main
    BY <1>3 DEF Main, Spawn, StartThread, WaitReturns, BriefWaitEnds, HandleInterrupt, Join, childVars
  <1>4. ASSUME NEW s \in Streams, ReadLine(s) \/ CloseStream(s)
        PROVE  UNCHANGED <<child, background, returnCode, written, copied>>
    BY <1>1, <1>4 DEF ReadLine, CloseStream, childVars
  <1>5. CASE Environment
    BY <1>1, <1>5 DEF Environment, Interrupt, Exit, Background, Break, Write, childVars
  <1>6. CASE UNCHANGED vars
    BY <1>6 DEF vars, childVars
  <1> QED BY <1>2, <1>3, <1>4, <1>5, <1>6 DEF Next, Copy, Done, Writers

\* Every exit code that Join can set is one of the promise's.
LEMMA JoinCode == ASSUME Inv, RunInv, Join PROVE exitCode' \in Codes
  <1>1. returnCode \in -64..255
    BY DEF Join, Inv, IInv, ChildInv
  <1>2. returnCode \in ReturnCodes \cup {Sigkill}
    BY <1>1 DEF RunInv, CodeInv, NoCode
  <1> QED BY <1>2 DEF Join, Codes

LEMMA NextCodeInv == ASSUME Inv, RunInv, [Next]_vars PROVE CodeInv'
  <1>0. /\ Streams = {"out", "err"} /\ CodeInv
        /\ \A s \in Streams : Count(s) \in Nat /\ written[s] \in Nat
    BY Shapes DEF RunInv
  <1>1. (child = "unborn" => ~background /\ returnCode = NoCode
                             /\ \A s \in Streams : written[s] = 0 /\ copied[s] = 0)'
    <2>1. ASSUME child' = "unborn" PROVE child = "unborn"
      <3>1. ASSUME NEW w \in Writers, WriteLine(w) PROVE UNCHANGED child
        BY <3>1, WriteLogSplit DEF WriteLine, Acquire, WriteTerminal, childVars
      <3> QED BY <2>1, <3>1
              DEF Next, Main, Copy, Environment, Done, Writers, Spawn, StartThread, WaitReturns,
             BriefWaitEnds, HandleInterrupt, Join, ReadLine,
             CloseStream, Interrupt, Exit, Background, Break, Write, vars, childVars
    <2> QED BY <1>0, <2>1, UnbornMoves DEF CodeInv
  <1>2. (returnCode \in {NoCode, Sigkill} \cup ReturnCodes)'
    <2>1. ASSUME NEW w \in Writers, WriteLine(w) PROVE UNCHANGED returnCode
      BY <2>1, WriteLogSplit DEF WriteLine, Acquire, WriteTerminal, childVars
    <2> QED BY <1>0, <2>1
            DEF CodeInv, Next, Main, Copy, Environment, Done, Writers, Spawn, StartThread,
           WaitReturns, BriefWaitEnds, HandleInterrupt, Join,
           ReadLine, CloseStream, Interrupt, Exit, Background, Break, Write, vars, childVars
  <1>3. (pc = "missing" => child = "unborn" /\ exitCode \in Codes)'
    <2>1. CASE Spawn
      BY <2>1 DEF Spawn, Inv, ExitInv, Codes
    <2>2. CASE pc = "missing" /\ ~Spawn /\ ~Join
      BY <1>0, <2>2, MainMoves, UnbornMoves DEF CodeInv, Codes
    <2> QED BY <2>1, <2>2, MainMoves DEF Join
  <1>4. ASSUME pc \in {"exit", "returned"}, child = "unborn" \/ \A s \in Streams : Complete(s)
        PROVE  child' = "unborn" \/ \A s \in Streams : Complete(s)'
    BY <1>4, NoLateLine, CompleteStays, UnbornMoves
  <1>5. ASSUME pc \in {"exit", "returned"}, Delivered PROVE Delivered'
    <2>1. CASE child = "unborn"
      BY <1>5, <2>1, UnbornMoves DEF Delivered
    <2>2. CASE child # "unborn"
      BY <1>0, <1>5, <2>2, NoLateLine, EndIsFinal DEF Delivered
    <2> QED BY <2>1, <2>2
  <1>6. (pc = "exit" => exitCode \in Codes /\ (child = "unborn" \/ \A s \in Streams : Complete(s)))'
    <2> SUFFICES ASSUME pc' = "exit"
                 PROVE  exitCode' \in Codes /\ (child' = "unborn" \/ \A s \in Streams : Complete(s)')
      OBVIOUS
    <2>1. CASE Join
      <3>1. /\ logOpen /\ \A s \in Streams : writer[s] = "dead"
            /\ UNCHANGED log
        BY <2>1 DEF Join, Joined, logVars, Inv, IInv, MainInv
      <3>2. \A s \in Streams : Complete(s)
        BY <1>0, <3>1 DEF RunInv, CopyInv
      <3>3. \A s \in Streams : Complete(s)'
        BY <3>1, <3>2, SameLog, CompleteStays
      <3> QED BY <2>1, <3>3, JoinCode
    <2>2. CASE pc = "missing" /\ ~Join
      <3>1. exitCode' = exitCode
        BY <2>2, MainMoves DEF Spawn
      <3> QED BY <1>0, <2>2, <3>1, UnbornMoves DEF CodeInv, Codes
    <2>3. CASE pc = "exit" /\ ~Join
      <3>1. exitCode' = exitCode
        BY <2>3, MainMoves DEF Spawn
      <3> QED BY <1>0, <1>4, <2>3, <3>1 DEF CodeInv, Codes
    <2> QED BY <2>1, <2>2, <2>3, MainMoves
  <1>7. (pc = "exit" /\ writer["main"] = "log" => Delivered \/ "log" \in broken)'
    <2> SUFFICES ASSUME pc' = "exit", writer'["main"] = "log"
                 PROVE  Delivered' \/ "log" \in broken'
      OBVIOUS
    <2>1. ~Join
      <3>1. Join => writer'["main"] = "waiting"
        BY Shapes DEF Join
      <3> QED BY <3>1
    <2>2. pc = "exit"
      BY <2>1, MainMoves
    <2>3. CASE writer["main"] = "log"
      BY <1>0, <1>5, <2>2, <2>3, EndIsFinal DEF CodeInv
    <2>4. CASE "err" \notin broken
      <3>1. child = "unborn" \/ \A s \in Streams : Complete(s)
        BY <1>0, <2>2 DEF CodeInv
      <3>2. Delivered \/ "log" \in broken
        BY <1>0, <2>4, <3>1 DEF Complete, Delivered, Terminal
      <3> QED BY <1>5, <2>2, <3>2, EndIsFinal
    <2> QED BY <2>1, <2>2, <2>3, <2>4, MainMoves
  <1>8. (pc = "returned" => exitCode \in Codes /\ Delivered)'
    <2> SUFFICES ASSUME pc' = "returned" PROVE exitCode' \in Codes /\ Delivered'
      OBVIOUS
    <2>1. pc \in {"exit", "returned"} /\ exitCode' = exitCode
      BY MainMoves DEF Spawn, Join
    <2>2. exitCode \in Codes /\ Delivered
      <3>1. CASE pc = "exit" /\ WriteLog("main") /\ LogLine("main")
        BY <1>0, <3>1, WriteLogSplit DEF CodeInv, LogLine
      <3>2. CASE pc = "returned"
        BY <1>0, <3>2 DEF CodeInv
      <3> QED BY <3>1, <3>2, MainMoves
    <2> QED BY <1>5, <2>1, <2>2 DEF Codes
  <1> QED BY <1>1, <1>2, <1>3, <1>6, <1>7, <1>8 DEF CodeInv

\* The invariant holds of every run.
LEMMA RunIsInvariant == Spec => [](Inv /\ RunInv)
  <1>1. Init => Inv /\ RunInv
    BY InitIInv, InitRunInv DEF Init, Inv, ExitInv, ExitCodeIsTheChilds, FrameInv, LogIsFramed,
                                Writers, Streams
  <1>2. Inv /\ RunInv /\ [Next]_vars => (Inv /\ RunInv)'
    BY NextIInv, NextExitInv, NextFrameInv, NextOrderInv, NextCopyInv, NextCodeInv
       DEF Inv, RunInv
  <1> QED BY <1>1, <1>2, PTL DEF Spec

-----------------------------------------------------------------------------
(* The steps *)

Recorded == [s \in Streams |-> Logged(s)]
Reported == IF pc = "returned" /\ ~Lost THEN exitCode ELSE NoCode

\* A line of a stream that is logged is recorded next, before the report.
LEMMA LoggedIsRecorded ==
  ASSUME Inv, RunInv, InOrder, InOrder', [Next]_vars,
         NEW s \in Streams, WriteLog(s), LogLine(s)
  PROVE  Promise!Record(s)
  <1>1. UNCHANGED <<written, child, background>>
    BY WriteLogSplit
  <1>2. /\ Count(s)' = Count(s) + 1 /\ copied[s] = Count(s) + 1 /\ Count(s) \in Nat
        /\ \A r \in Streams \ {s} : Count(r)' = Count(r)
    BY WriteLogCounts DEF Writers, InOrder
  <1>3. Reported = NoCode /\ Reported' = NoCode
    <2>1. pc # "returned" /\ pc' = pc
      BY WriteLogSplit, Shapes DEF Inv, FrameInv, LogLine
    <2> QED BY <2>1 DEF Reported
  <1>4. Len(Recorded[s]) < written[s]
    BY <1>2, Shapes DEF Recorded, InOrder, RunInv, CopyInv
  <1>5. Recorded' = [Recorded EXCEPT ![s] = Append(@, Len(@) + 1)]
    <2>1. \A r \in Streams \ {s} : Logged(r)' = Logged(r)
      BY <1>2 DEF InOrder
    <2>2. Logged(s)' = Append(Logged(s), Len(Logged(s)) + 1)
      <3>1. /\ Logged(s) = [n \in 1..Count(s) |-> n] /\ Len(Logged(s)) = Count(s)
            /\ Logged(s)' = [n \in 1..Count(s) + 1 |-> n]
        BY <1>2 DEF InOrder
      <3>2. [n \in 1..Count(s) |-> n] \in Seq(Nat)
        BY <1>2
      <3> QED BY <1>2, <3>1, <3>2
    <2> QED BY <2>1, <2>2 DEF Recorded
  <1> QED BY <1>1, <1>3, <1>4, <1>5 DEF Promise!Record, Recorded, Reported, AtEndOfFile

LEMMA WrittenIsWritten ==
  ASSUME Inv, RunInv, NEW s \in Streams, Write(s)
  PROVE  Promise!Write(s)
  <1>1. UNCHANGED <<log, child, background, pc>>
    BY DEF Write, logVars, mainVars
  <1>2. ~AtEndOfFile
    BY DEF Write, AtEndOfFile
  <1>3. Reported = NoCode /\ Reported' = NoCode
    <2>1. pc # "returned"
      BY <1>2 DEF RunInv, CodeInv, Delivered, Write
    <2> QED BY <1>1, <2>1 DEF Reported
  <1>4. Recorded' = Recorded
    BY <1>1, SameLog DEF Recorded
  <1> QED BY <1>1, <1>2, <1>3, <1>4 DEF Promise!Write, Recorded, Reported, AtEndOfFile, Write

\* Before the report, and after it while nothing fails, only the streams may end.
LEMMA StreamsMayEnd ==
  ASSUME Inv, RunInv, [Next]_vars, \A s \in Streams : Logged(s)' = Logged(s),
         UNCHANGED <<written, broken>>,
         pc' = "returned" => pc = "returned" /\ UNCHANGED exitCode
  PROVE  [Promise!Next]_<<written, Recorded, AtEndOfFile, Reported>>
  <1>1. Recorded' = Recorded /\ Reported' = Reported
    BY MainMoves DEF Recorded, Reported, Lost, Streams
  <1>2. AtEndOfFile' = AtEndOfFile \/ (~AtEndOfFile /\ AtEndOfFile' = TRUE)
    BY EndIsFinal DEF AtEndOfFile
  <1>3. CASE ~AtEndOfFile /\ AtEndOfFile' = TRUE
    BY <1>1, <1>3 DEF Promise!Next, Promise!End, Recorded, Reported, AtEndOfFile
  <1> QED BY <1>1, <1>2, <1>3

\* The code is reported when all is in the log, unless lines are lost.
LEMMA CodeIsReported ==
  ASSUME Inv, RunInv, InOrder, InOrder', WriteLog("main"), LogLine("main"), pc = "exit"
  PROVE  [Promise!Next]_<<written, Recorded, AtEndOfFile, Reported>>
  <1>0. /\ \A s \in Streams : Count(s) \in Nat /\ written[s] \in Nat
        /\ Streams = {"out", "err"} /\ "main" \in Writers
    BY Shapes
  <1>1. UNCHANGED <<written, broken, child, background, exitCode>> /\ pc' = "returned"
    BY WriteLogSplit DEF LogLine
  <1>2. Recorded' = Recorded /\ Lost' = Lost /\ AtEndOfFile' = AtEndOfFile
    <2>1. \A s \in Streams : Count(s)' = Count(s)
      BY <1>0, WriteLogCounts
    <2>2. \A s \in Streams : Logged(s)' = Logged(s)
      BY <2>1 DEF InOrder
    <2> QED BY <1>0, <1>1, <2>2 DEF Recorded, Lost, AtEndOfFile
  <1>3. CASE Lost
    BY <1>1, <1>2, <1>3 DEF Reported
  <1>4. CASE ~Lost
    <2>1. Delivered /\ exitCode \in Codes
      BY WriteLogSplit DEF LogLine, RunInv, CodeInv
    <2>2. /\ \A s \in Streams : Len(Recorded[s]) = written[s]
          /\ AtEndOfFile \/ \A s \in Streams : written[s] = 0
      <3>1. CASE child = "unborn"
        <4>1. \A s \in Streams : written[s] = 0 /\ Count(s) <= written[s]
          BY <1>0, <3>1, Shapes DEF RunInv, CodeInv, CopyInv
        <4> QED BY <1>0, <4>1 DEF Recorded, InOrder
      <3>2. CASE child # "unborn"
        BY <1>0, <1>4, <2>1, <3>2 DEF Delivered, Lost, Recorded, InOrder
      <3> QED BY <3>1, <3>2
    <2>3. Reported = NoCode /\ Reported' = exitCode
      BY <1>1, <1>2, <1>4 DEF Reported
    <2> QED BY <1>1, <1>2, <2>1, <2>2, <2>3
            DEF Promise!Next, Promise!Report, Recorded, AtEndOfFile, Reported, Codes
  <1> QED BY <1>3, <1>4

\* A sink that fails after the report has lost nothing.
LEMMA LateFailureLosesNothing ==
  ASSUME Inv, RunInv, InOrder, NEW sink \in Sinks, Break(sink)
  PROVE  UNCHANGED <<written, Recorded, AtEndOfFile, Reported>>
  <1>1. UNCHANGED <<log, written, child, background, exitCode, pc>> /\ broken \subseteq broken'
    BY DEF Break, mainVars, logVars, childVars
  <1>2. \A s \in Streams : Logged(s)' = Logged(s)
    BY <1>1, SameLog
  <1>3. pc = "returned" => Lost' = Lost
    <2> SUFFICES ASSUME pc = "returned" PROVE Lost' = Lost
      OBVIOUS
    <2>1. /\ "out" \in Streams /\ Count("out") \in Nat /\ written["out"] \in Nat
          /\ Count("out") <= written["out"] /\ Len(Logged("out")) = Count("out")
      BY Shapes DEF RunInv, CopyInv, InOrder
    <2>2. Count("out") = written["out"] \/ "out" \in broken
      <3>1. CASE child = "unborn"
        BY <2>1, <3>1, Shapes DEF RunInv, CodeInv, CopyInv
      <3>2. CASE child # "unborn"
        BY <3>2 DEF RunInv, CodeInv, Delivered
      <3> QED BY <3>1, <3>2
    <2> QED BY <1>1, <1>2, <2>1, <2>2 DEF Lost
  <1>4. Reported' = Reported
    BY <1>1, <1>3 DEF Reported
  <1> QED BY <1>1, <1>2, <1>4 DEF Recorded, AtEndOfFile

\* Every step of a run is a step of the promise, or none.
LEMMA StepRefines ==
  ASSUME Inv, RunInv, InOrder, InOrder', [Next]_vars
  PROVE  [Promise!Next]_<<written, Recorded, AtEndOfFile, Reported>>
  <1>0. Writers = {"out", "err", "main"} /\ Streams = {"out", "err"}
    BY Shapes
  <1>1. CASE \E s \in Streams : WriteLog(s) /\ LogLine(s)
    BY <1>1, LoggedIsRecorded DEF Promise!Next
  <1>2. CASE \E s \in Streams : Write(s)
    BY <1>2, WrittenIsWritten DEF Promise!Next
  <1>3. CASE \E sink \in Sinks : Break(sink)
    BY <1>3, LateFailureLosesNothing
  <1>4. CASE WriteLog("main") /\ LogLine("main")
    <2>1. CASE pc = "exit"
      BY <1>4, <2>1, CodeIsReported
    <2>2. CASE pc # "exit"
      <3>1. \A s \in Streams : Count(s)' = Count(s)
        BY <1>0, <1>4, WriteLogCounts
      <3>2. \A s \in Streams : Logged(s)' = Logged(s)
        BY <3>1 DEF InOrder
      <3>3. UNCHANGED <<written, exitCode, broken>>
        BY <1>4, WriteLogSplit
      <3>4. pc' = "returned" => pc = "returned"
        BY <2>2, MainMoves
      <3> QED BY <3>2, <3>3, <3>4, StreamsMayEnd
    <2> QED BY <2>1, <2>2
  <1>5. CASE UNCHANGED <<log, written, broken>>
    <2>1. pc' = "returned" => pc = "returned"
      BY <1>5, MainMoves DEF LogLine, Inv, IInv, TypeOK
    <2>2. pc = "returned" => UNCHANGED exitCode
      BY MainMoves DEF Spawn, Join
    <2> QED BY <1>5, <2>1, <2>2, SameLog, StreamsMayEnd
  <1>6. ASSUME NEW w \in Writers, WriteLine(w), ~(WriteLog(w) /\ LogLine(w))
        PROVE  UNCHANGED <<log, written, broken>>
    BY <1>6, WriteLogSplit DEF WriteLine, Acquire, WriteTerminal, childVars
  <1> QED BY <1>0, <1>1, <1>2, <1>3, <1>4, <1>5, <1>6
          DEF Next, Main, Copy, Environment, Done, Spawn, StartThread, WaitReturns,
              BriefWaitEnds, HandleInterrupt, Join, ReadLine, CloseStream,
              Interrupt, Exit, Background, vars, mainVars, logVars, childVars

\* Each line of both streams is in the log, once and in order, before an exit code is
\* returned (run_command_with_timestamped_output), for any number of lines, pipes of any
\* capacity, Ctrl-C at any time, and a terminal or a log that fails at any time.
THEOREM Refinement == Spec => ImplementsLoggedRun
  <1>1. Init => Promise!Init
    <2> SUFFICES ASSUME Init PROVE Promise!Init
      OBVIOUS
    <2>1. \A s \in Streams : Logged(s) = <<>>
      BY FS_EmptySet DEF Init, Logged, Places
    <2> QED BY <2>1 DEF Init, Promise!Init
  <1>2. Inv /\ RunInv => InOrder
    BY LoggedInOrder, Shapes DEF RunInv
  <1>3. Inv /\ RunInv /\ InOrder /\ InOrder' /\ [Next]_vars => [Promise!Next]_(Promise!vars)
    BY StepRefines DEF Promise!vars, Recorded, Reported, AtEndOfFile
  <1> QED BY <1>1, <1>2, <1>3, RunIsInvariant, PTL DEF Spec, ImplementsLoggedRun, Promise!Spec
=============================================================================
