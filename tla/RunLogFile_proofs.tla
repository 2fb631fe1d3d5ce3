------------------------- MODULE RunLogFile_proofs -------------------------
(***************************************************************************)
(* For any set of runs and of start times: the runs never share a log,     *)
(* nothing that is in the directory is lost, and the shared directory      *)
(* implements a private log for each run.                                  *)
(***************************************************************************)
EXTENDS RunLogFile, TLAPS

\* A run that is still looking for a name has created nothing, and every name
\* it has tried is taken.
SearchInv == \A r \in Runs : pc[r] = "opening" =>
               /\ \A f \in Files : creator[f] # r
               /\ \A n \in 1..(attempt[r] - 1) : <<stem[r], n>> \in Files

\* A run that has its log open writes to a file it created.
OwnerInv == \A r \in Runs : pc[r] = "open" => HasLog(r)

IInv == TypeOK /\ SearchInv /\ OwnerInv /\ NoSuffixGaps /\ NoMixedLines

LEMMA InitIInv == Init => IInv
<1> SUFFICES ASSUME Init PROVE IInv
  OBVIOUS
<1>1. PICK left \in [Stems -> 0..MaxEarlier] :
        creator = [f \in {g \in Stems \X (1..MaxEarlier) : g[2] <= left[g[1]]} |-> Earlier]
  BY DEF Init
<1>2. Files = {g \in Stems \X (1..MaxEarlier) : g[2] <= left[g[1]]}
  BY <1>1 DEF Files
<1>3. \A f \in Files : creator[f] = Earlier /\ text[f] = <<Earlier>>
  BY <1>1, <1>2 DEF Init
<1>4. TypeOK
  <2>1. pc \in [Runs -> {"opening", "open", "ended"}] /\ stem \in [Runs -> Stems]
    BY DEF Init
  <2>2. attempt \in [Runs -> Nat \ {0}]
    BY DEF Init
  <2>3. Files \subseteq Names
    BY <1>2, BoundsAssumption DEF Names
  <2>4. creator \in [Files -> Runs \cup {Earlier}]
    BY <1>1, <1>2
  <2>5. text \in [Files -> Seq(Runs \cup {Earlier})]
    BY DEF Init
  <2>6. QED
    BY <2>1, <2>2, <2>3, <2>4, <2>5 DEF TypeOK
<1>5. SearchInv
  BY <1>3, RunsAssumption DEF SearchInv, Init
<1>6. OwnerInv
  BY DEF OwnerInv, Init
<1>7. NoSuffixGaps
  BY <1>2, BoundsAssumption DEF NoSuffixGaps
<1>8. NoMixedLines
  BY <1>3 DEF NoMixedLines
<1>9. QED
  BY <1>4, <1>5, <1>6, <1>7, <1>8 DEF IInv

LEMMA NameOfType == ASSUME TypeOK, NEW r \in Runs
                    PROVE  NameOf(r) \in Names /\ NameOf(r)[1] = stem[r] /\ NameOf(r)[2] = attempt[r]
  BY DEF TypeOK, NameOf, Names

\* The exclusive create adds one file, and leaves the others as they are.
LEMMA CreateEffect ==
  ASSUME NEW r \in Runs, Create(r)
  PROVE  /\ NameOf(r) \notin Files /\ Files' = Files \cup {NameOf(r)}
         /\ creator'[NameOf(r)] = r /\ text'[NameOf(r)] = <<>>
         /\ \A g \in Files : creator'[g] = creator[g] /\ text'[g] = text[g]
         /\ \A q \in Runs : NameOf(q)' = NameOf(q)
  BY DEF Create, Free, Files, NameOf

LEMMA CreateIInv == ASSUME IInv, NEW r \in Runs, Create(r) PROVE IInv'
<1> DEFINE f == NameOf(r)
<1> USE CreateEffect
<1>1. f \in Names /\ f[1] = stem[r] /\ f[2] = attempt[r]
  BY NameOfType DEF IInv
<1>2. pc[r] = "opening" /\ pc' = [pc EXCEPT ![r] = "open"] /\ UNCHANGED <<stem, attempt>>
  BY DEF Create
<1>3. TypeOK'
  <2>1. creator' \in [Files' -> Runs \cup {Earlier}]
    BY DEF IInv, TypeOK, Create, Files
  <2>2. text' \in [Files' -> Seq(Runs \cup {Earlier})]
    <3>1. DOMAIN text = Files /\ \A g \in Files : text[g] \in Seq(Runs \cup {Earlier})
      BY DEF IInv, TypeOK
    <3>2. text' = [g \in Files' |-> IF g = f THEN <<>> ELSE text[g]]
      BY DEF Create
    <3>3. \A g \in Files' : (IF g = f THEN <<>> ELSE text[g]) \in Seq(Runs \cup {Earlier})
      BY <3>1
    <3>4. QED
      BY <3>2, <3>3
  <2>3. Files' \subseteq Names
    BY <1>1 DEF IInv, TypeOK
  <2>4. QED
    BY <1>2, <2>1, <2>2, <2>3 DEF IInv, TypeOK
<1>4. SearchInv'
  BY <1>2 DEF IInv, SearchInv, TypeOK
<1>5. OwnerInv'
  BY <1>2 DEF IInv, OwnerInv, TypeOK, HasLog
<1>6. NoSuffixGaps'
  <2> SUFFICES ASSUME NEW g \in Files', NEW n \in 1..g[2]
               PROVE  <<g[1], n>> \in Files'
    BY DEF NoSuffixGaps
  <2>1. CASE g \in Files
    BY <2>1 DEF IInv, NoSuffixGaps
  <2>2. CASE g = f /\ n = g[2]
    BY <2>2, <1>1 DEF NameOf
  <2>3. CASE g = f /\ n # g[2]
    <3>1. n \in 1..(attempt[r] - 1)
      BY <2>3, <1>1 DEF Names
    <3>2. QED
      BY <3>1, <2>3, <1>1, <1>2 DEF IInv, SearchInv
  <2>4. QED
    BY <2>1, <2>2, <2>3
<1>7. NoMixedLines'
  BY DEF IInv, NoMixedLines
<1>8. QED
  BY <1>3, <1>4, <1>5, <1>6, <1>7 DEF IInv

LEMMA RetryIInv == ASSUME IInv, NEW r \in Runs, Retry(r) PROVE IInv'
<1>1. /\ attempt' = [attempt EXCEPT ![r] = attempt[r] + 1]
      /\ UNCHANGED <<pc, stem, creator, text>> /\ UNCHANGED Files
      /\ pc[r] = "opening" /\ <<stem[r], attempt[r]>> \in Files
  BY DEF IInv, TypeOK, Retry, NextAttempt, Free, NameOf, Files
<1>2. TypeOK'
  BY <1>1 DEF IInv, TypeOK
<1>3. SearchInv'
  <2> SUFFICES ASSUME NEW q \in Runs, pc[q] = "opening", NEW n \in 1..(attempt'[q] - 1)
               PROVE  <<stem[q], n>> \in Files
    BY <1>1 DEF IInv, SearchInv
  <2>1. CASE n \in 1..(attempt[q] - 1)
    BY <2>1 DEF IInv, SearchInv
  <2>2. CASE q = r /\ n = attempt[r]
    BY <2>2, <1>1
  <2>3. QED
    BY <2>1, <2>2, <1>1 DEF IInv, TypeOK
<1>4. OwnerInv'
  BY <1>1 DEF IInv, TypeOK, OwnerInv, HasLog, NameOf
<1>5. NoSuffixGaps' /\ NoMixedLines'
  BY <1>1 DEF IInv, NoSuffixGaps, NoMixedLines
<1>6. QED
  BY <1>2, <1>3, <1>4, <1>5 DEF IInv

LEMMA WriteLineIInv == ASSUME IInv, NEW r \in Runs, WriteLine(r) PROVE IInv'
<1> DEFINE f == NameOf(r)
<1>1. f \in Files /\ creator[f] = r
  BY DEF IInv, OwnerInv, HasLog, WriteLine
<1>2. UNCHANGED <<pc, stem, attempt, creator>> /\ UNCHANGED Files
  BY DEF WriteLine, Files
<1>3. text' = [text EXCEPT ![f] = Append(text[f], r)]
  BY DEF WriteLine
<1>4. TypeOK'
  BY <1>1, <1>2, <1>3 DEF IInv, TypeOK
<1>5. SearchInv' /\ OwnerInv' /\ NoSuffixGaps'
  BY <1>2 DEF IInv, SearchInv, OwnerInv, NoSuffixGaps, HasLog, NameOf
<1>6. NoMixedLines'
  BY <1>1, <1>2, <1>3 DEF IInv, TypeOK, NoMixedLines
<1>7. QED
  BY <1>4, <1>5, <1>6 DEF IInv

LEMMA NextIInv == IInv /\ [Next]_vars => IInv'
<1> SUFFICES ASSUME IInv, [Next]_vars PROVE IInv'
  OBVIOUS
<1>1. ASSUME NEW r \in Runs, Open(r) PROVE IInv'
  BY <1>1, CreateIInv, RetryIInv DEF Open
<1>2. ASSUME NEW r \in Runs, WriteLine(r) PROVE IInv'
  BY <1>2, WriteLineIInv
<1>3. ASSUME NEW r \in Runs, End(r) PROVE IInv'
  BY <1>3 DEF End, IInv, TypeOK, SearchInv, OwnerInv, NoSuffixGaps, NoMixedLines, HasLog, NameOf, Files
<1>4. CASE UNCHANGED vars
  BY <1>4 DEF vars, IInv, TypeOK, SearchInv, OwnerInv, NoSuffixGaps, NoMixedLines, HasLog, NameOf, Files
<1>5. QED
  BY <1>1, <1>2, <1>3, <1>4 DEF Next, Done

THEOREM InductiveInvariant == Spec => []IInv
  BY InitIInv, NextIInv, PTL DEF Spec

-----------------------------------------------------------------------------
\* Every variable keeps its type: attempts are positive, files have names.
THEOREM TypeCorrect == Spec => []TypeOK
<1>1. IInv => TypeOK
  BY DEF IInv
<1>2. QED
  BY <1>1, InductiveInvariant, PTL

\* Two runs never hold the same log, whatever they started in the same millisecond.
THEOREM LogsAreOwned == Spec => []OneLogPerRun
<1>1. IInv => OneLogPerRun
  BY DEF IInv, OwnerInv, OneLogPerRun, HasLog
<1>2. QED
  BY <1>1, InductiveInvariant, PTL

\* The suffixes of a start time are taken in order: no retry skips a free name.
THEOREM SuffixesHaveNoGaps == Spec => []NoSuffixGaps
<1>1. IInv => NoSuffixGaps
  BY DEF IInv
<1>2. QED
  BY <1>1, InductiveInvariant, PTL

\* A log holds the lines of the run that created it and of no other, however many
\* started in the same millisecond and whichever of them have ended.
THEOREM LinesAreNotMixed == Spec => []NoMixedLines
<1>1. IInv => NoMixedLines
  BY DEF IInv
<1>2. QED
  BY <1>1, InductiveInvariant, PTL

-----------------------------------------------------------------------------
\* No step of any run loses a file or changes a line that is in one.
THEOREM NothingIsLost == Spec => LinesAreKept
<1> DEFINE Keeps == \A f \in Files : /\ f \in DOMAIN creator'
                                     /\ Len(text[f]) <= Len(text'[f])
                                     /\ SubSeq(text'[f], 1, Len(text[f])) = text[f]
<1>1. ASSUME IInv, [Next]_vars PROVE [Keeps]_vars
  <2>1. \A f \in Files : text[f] \in Seq(Runs \cup {Earlier})
    BY <1>1 DEF IInv, TypeOK
  <2>2. ASSUME Files \subseteq Files', \A f \in Files : text'[f] = text[f] PROVE Keeps
    BY <2>1, <2>2 DEF Files
  <2>3. ASSUME NEW r \in Runs, Open(r) PROVE Keeps
    BY <2>2, <2>3, CreateEffect DEF Open, Retry, Files
  <2>4. ASSUME NEW r \in Runs, WriteLine(r) PROVE Keeps
    <3>1. UNCHANGED creator /\ \A f \in Files : f \in DOMAIN creator'
      BY <2>4 DEF WriteLine, Files
    <3>2. text' = [text EXCEPT ![NameOf(r)] = Append(text[NameOf(r)], r)]
      BY <2>4 DEF WriteLine
    <3>3. \A f \in Files : text'[f] = text[f] \/ text'[f] = Append(text[f], r)
      BY <1>1, <3>2 DEF IInv, TypeOK
    <3>4. ASSUME NEW f \in Files
          PROVE  Len(text[f]) <= Len(text'[f]) /\ SubSeq(text'[f], 1, Len(text[f])) = text[f]
      BY <2>1, <3>3
    <3>5. QED
      BY <3>1, <3>4
  <2>5. ASSUME NEW r \in Runs, End(r) PROVE Keeps
    BY <2>2, <2>5 DEF End, Files
  <2>6. CASE UNCHANGED vars
    BY <2>6
  <2>7. QED
    BY <1>1, <2>3, <2>4, <2>5, <2>6 DEF Next, Done
<1>2. QED
  BY <1>1, InductiveInvariant, PTL DEF Spec, LinesAreKept

-----------------------------------------------------------------------------
(* The refinement *)

\* The log of run r as PrivateLogs sees it.
LinesOf(r) == IF HasLog(r) THEN Len(text[NameOf(r)]) ELSE NoLog

LEMMA CreateStarts == ASSUME IInv, NEW r \in Runs, Create(r) PROVE Private!Start(r)
<1> USE CreateEffect
<1>1. pc[r] = "opening"
  BY DEF Create
<1>2. ~HasLog(r) /\ LinesOf(r)' = 0
  BY DEF HasLog, LinesOf
<1>3. ASSUME NEW q \in Runs \ {r} PROVE LinesOf(q)' = LinesOf(q)
  <2>1. HasLog(q)' <=> HasLog(q)
    BY DEF HasLog
  <2>2. QED
    BY <2>1 DEF LinesOf, HasLog
<1>4. QED
  BY <1>2, <1>3 DEF Private!Start, LinesOf

LEMMA WriteLineAppends == ASSUME IInv, NEW r \in Runs, WriteLine(r) PROVE Private!Append(r)
<1> DEFINE f == NameOf(r)
<1>1. HasLog(r) /\ UNCHANGED creator /\ \A q \in Runs : NameOf(q)' = NameOf(q)
  BY DEF IInv, OwnerInv, WriteLine, NameOf
<1>2. \A q \in Runs : HasLog(q)' <=> HasLog(q)
  BY <1>1 DEF HasLog, Files
<1>3. text' = [text EXCEPT ![f] = Append(text[f], r)] /\ text[f] \in Seq(Runs \cup {Earlier})
  BY <1>1 DEF WriteLine, IInv, TypeOK, HasLog
<1>4. LinesOf(r)' = LinesOf(r) + 1 /\ LinesOf(r) # NoLog
  BY <1>1, <1>2, <1>3, RunsAssumption DEF LinesOf, IInv, TypeOK, HasLog
<1>5. ASSUME NEW q \in Runs \ {r} PROVE LinesOf(q)' = LinesOf(q)
  BY <1>1, <1>2, <1>3 DEF LinesOf, HasLog, IInv, TypeOK
<1>6. QED
  BY <1>4, <1>5 DEF Private!Append, LinesOf

\* The rest of the run is invisible: a failed attempt, the end of a run.
LEMMA OthersStutter ==
  ASSUME IInv, (\E r \in Runs : Retry(r) \/ End(r)) \/ UNCHANGED vars
  PROVE  \A q \in Runs : LinesOf(q)' = LinesOf(q)
<1>1. UNCHANGED <<creator, text, stem>>
  BY DEF Retry, End, vars
<1>2. ASSUME NEW r \in Runs, Retry(r), NEW q \in Runs PROVE LinesOf(q)' = LinesOf(q)
  <2>1. q # r => NameOf(q)' = NameOf(q)
    BY <1>2 DEF Retry, NameOf, IInv, TypeOK
  <2>2. ~HasLog(r) /\ ~HasLog(r)'
    BY <1>1, <1>2 DEF Retry, IInv, SearchInv, HasLog, Files
  <2>3. QED
    BY <1>1, <2>1, <2>2 DEF LinesOf, HasLog, Files
<1>3. ASSUME (\E r \in Runs : End(r)) \/ UNCHANGED vars, NEW q \in Runs
      PROVE  LinesOf(q)' = LinesOf(q)
  BY <1>3 DEF End, vars, LinesOf, HasLog, NameOf, Files
<1>4. QED
  BY <1>2, <1>3

\* Runs that share one directory behave as if each had a log to itself.
THEOREM Refinement == Spec => ImplementsPrivateLogs
<1>1. Init => Private!Init
  <2> SUFFICES ASSUME Init, NEW r \in Runs PROVE ~HasLog(r)
    BY DEF Private!Init
  <2>1. IInv /\ pc[r] = "opening"
    BY InitIInv DEF Init
  <2>2. QED
    BY <2>1 DEF IInv, SearchInv, HasLog
<1>2. ASSUME IInv, [Next]_vars
      PROVE  [Private!Next]_([r \in Runs |-> IF HasLog(r) THEN Len(text[NameOf(r)]) ELSE NoLog])
  <2>1. ASSUME NEW r \in Runs, Create(r) PROVE Private!Next
    BY <1>2, <2>1, CreateStarts DEF Private!Next
  <2>2. ASSUME NEW r \in Runs, WriteLine(r) PROVE Private!Next
    BY <1>2, <2>2, WriteLineAppends DEF Private!Next
  <2>3. CASE (\E r \in Runs : Retry(r) \/ End(r)) \/ UNCHANGED vars
    <3>1. \A q \in Runs : LinesOf(q)' = LinesOf(q)
      BY <1>2, <2>3, OthersStutter
    <3>2. QED
      BY <3>1 DEF LinesOf
  <2>4. QED
    BY <1>2, <2>1, <2>2, <2>3 DEF Next, Open, Done
<1>3. QED
  BY <1>1, <1>2, InductiveInvariant, PTL DEF Spec, ImplementsPrivateLogs, Private!Spec
=============================================================================
