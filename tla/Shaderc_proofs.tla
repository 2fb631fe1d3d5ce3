---------------------------- MODULE Shaderc_proofs ----------------------------
(***************************************************************************)
(* Who owns what during and after one compile, for any number of includes, *)
(* nested to any depth, and whichever allocation fails.                    *)
(***************************************************************************)
EXTENDS Shaderc, TLAPS

InProgress == {"compiler", "options", "compiling", "status"}
AllParts == {"box", "name", "content"}

\* The includes that libshaderc reads own the blocks there are: each is on the stack
\* once, has its parts, and nothing alive belongs to an include that is not there.
BlocksInv ==
  /\ live \subseteq (Nat \X AllParts)
  /\ \A i \in DOMAIN stack : stack[i] <= met
  /\ \A i, j \in DOMAIN stack : stack[i] = stack[j] /\ stack[i] # Static => i = j
  /\ \A block \in live : block[1] # Static /\ \E i \in DOMAIN stack : stack[i] = block[1]
  /\ OpenIncludesAreAlive

\* A failure on the way is known to libshaderc, so it reports no success after one.
StatusInv == /\ exhausted => rejected
             /\ pc = "status" /\ status = "success" => ~rejected

\* Wherever compile may return, the defers it has passed are those of the handles
\* it has taken.
DefersInv == deferred = handles

IInv == /\ pc \in InProgress \cup {"returned"} /\ met \in Nat /\ stack \in Seq(Nat)
        /\ hasDiagnostics \in BOOLEAN /\ exhausted \in BOOLEAN /\ rejected \in BOOLEAN
        /\ pc # "compiling" => stack = <<>>
        /\ pc \in InProgress => BlocksInv /\ StatusInv /\ DefersInv /\ result = "none"
        /\ badFree = FALSE
        /\ NoLeak /\ HandlesReleased /\ WordsNeedAllIncludes

LEMMA InitIInv == Init => IInv
  <1> SUFFICES ASSUME Init PROVE IInv
    OBVIOUS
  <1>1. stack \in Seq(Nat) /\ DOMAIN stack = {}
    BY DEF Init
  <1>2. BlocksInv
    BY <1>1 DEF Init, BlocksInv, OpenIncludesAreAlive
  <1>3. pc = "compiler" /\ result = "none" /\ ~exhausted /\ ~rejected
    BY DEF Init
  <1> QED BY <1>1, <1>2, <1>3 DEF Init, IInv, StatusInv, DefersInv, InProgress, NoLeak,
                                  HandlesReleased, WordsNeedAllIncludes

\* With nothing on the stack nothing is alive.
LEMMA EmptyStack ==
  ASSUME IInv, pc \in InProgress, stack = <<>>
  PROVE  live = {}
  BY DEF IInv, BlocksInv

\* The includes' blocks do not change.
LEMMA SameBlocks == BlocksInv /\ UNCHANGED <<live, stack, met>> => BlocksInv'
  BY DEF BlocksInv, OpenIncludesAreAlive

\* What an include keeps: all of it if every allocation succeeds, nothing if one
\* fails; and it frees only what it has allocated.
LEMMA ResolveOutcome ==
  ASSUME NEW found \in BOOLEAN, NEW n \in 0..Len(Allocations(found)),
         NEW failed, failed = FailedAt(found, n),
         NEW freed, freed = FreedOnReturn(failed) \cap Parts(found)
  PROVE  /\ freed \subseteq Allocated(found, n)
         /\ failed = "none" => Allocated(found, n) \ freed = Parts(found)
         /\ failed # "none" => Allocated(found, n) \ freed = {}
  <1>1. CASE found
    <2>1. Allocations(found) = <<"box", "name", "content">> /\ Len(Allocations(found)) = 3
      BY <1>1 DEF Allocations
    <2>2. Parts(found) = {"box", "name", "content"}
      BY <2>1 DEF Parts, ToSet
    <2>3. n \in 0..3
      BY <2>1
    <2>4. CASE n = 0
      BY <2>1, <2>2, <2>4 DEF Allocated, FailedAt, FreedOnReturn
    <2>5. CASE n = 1
      BY <2>1, <2>2, <2>5 DEF Allocated, FailedAt, FreedOnReturn
    <2>6. CASE n = 2
      BY <2>1, <2>2, <2>6 DEF Allocated, FailedAt, FreedOnReturn
    <2>7. CASE n = 3
      BY <2>1, <2>2, <2>7 DEF Allocated, FailedAt, FreedOnReturn
    <2> QED BY <2>3, <2>4, <2>5, <2>6, <2>7
  <1>2. CASE ~found
    <2>1. Allocations(found) = <<"box", "content">> /\ Len(Allocations(found)) = 2
      BY <1>2 DEF Allocations
    <2>2. Parts(found) = {"box", "content"}
      BY <2>1 DEF Parts, ToSet
    <2>3. n \in 0..2
      BY <2>1
    <2>4. CASE n = 0
      BY <2>1, <2>2, <2>4 DEF Allocated, FailedAt, FreedOnReturn
    <2>5. CASE n = 1
      BY <2>1, <2>2, <2>5 DEF Allocated, FailedAt, FreedOnReturn
    <2>6. CASE n = 2
      BY <2>1, <2>2, <2>6 DEF Allocated, FailedAt, FreedOnReturn
    <2> QED BY <2>3, <2>4, <2>5, <2>6
  <1> QED BY <1>1, <1>2

LEMMA PartsAreParts ==
  ASSUME NEW found \in BOOLEAN
  PROVE  {"box", "content"} \subseteq Parts(found) /\ Parts(found) \subseteq AllParts
  <1>1. CASE found
    BY <1>1 DEF Parts, Allocations, ToSet, AllParts
  <1>2. CASE ~found
    BY <1>2 DEF Parts, Allocations, ToSet, AllParts
  <1> QED BY <1>1, <1>2

LEMMA ResolveIInv == IInv /\ IncludeResolve => IInv'
  <1> SUFFICES ASSUME IInv, IncludeResolve PROVE IInv'
    OBVIOUS
  <1>1. /\ pc = "compiling" /\ pc' = "compiling" /\ result' = result
        /\ UNCHANGED <<hasDiagnostics, status, handles, deferred>> /\ met' = met + 1
    BY DEF IncludeResolve, inputs, taken
  <1>2. /\ BlocksInv /\ StatusInv /\ DefersInv /\ result = "none" /\ met \in Nat
        /\ stack \in Seq(Nat) /\ badFree = FALSE
    BY <1>1 DEF IInv, InProgress
  <1>3. PICK found \in BOOLEAN, fails \in BOOLEAN :
          /\ badFree' = FALSE
          /\ rejected' = (rejected \/ ~found \/ fails)
          /\ exhausted' = (exhausted \/ fails)
          /\ IF fails THEN live' = live /\ stack' = Append(stack, Static)
             ELSE live' = live \cup ({met'} \X Parts(found)) /\ stack' = Append(stack, met')
    <2>0. PICK found \in BOOLEAN : \E n \in 0..Len(Allocations(found)) :
            LET failed == FailedAt(found, n)
                freed == FreedOnReturn(failed) \cap Parts(found)
            IN /\ live' = live \cup ({met'} \X (Allocated(found, n) \ freed))
               /\ badFree' = (badFree \/ ~(freed \subseteq Allocated(found, n)))
               /\ stack' = Append(stack, IF failed = "none" THEN met' ELSE Static)
               /\ rejected' = (rejected \/ ~found \/ failed # "none")
               /\ exhausted' = (exhausted \/ failed # "none")
      BY DEF IncludeResolve
    <2>1. PICK n \in 0..Len(Allocations(found)) :
            LET failed == FailedAt(found, n)
                freed == FreedOnReturn(failed) \cap Parts(found)
            IN /\ live' = live \cup ({met'} \X (Allocated(found, n) \ freed))
               /\ badFree' = (badFree \/ ~(freed \subseteq Allocated(found, n)))
               /\ stack' = Append(stack, IF failed = "none" THEN met' ELSE Static)
               /\ rejected' = (rejected \/ ~found \/ failed # "none")
               /\ exhausted' = (exhausted \/ failed # "none")
      BY <2>0
    <2> DEFINE failed == FailedAt(found, n)
               freed == FreedOnReturn(failed) \cap Parts(found)
               fails == failed # "none"
    <2>2. /\ live' = live \cup ({met'} \X (Allocated(found, n) \ freed))
          /\ badFree' = (badFree \/ ~(freed \subseteq Allocated(found, n)))
          /\ stack' = Append(stack, IF failed = "none" THEN met' ELSE Static)
          /\ rejected' = (rejected \/ ~found \/ fails)
          /\ exhausted' = (exhausted \/ fails)
      BY <2>1
    <2> HIDE DEF failed, freed, fails
    <2>3. /\ freed \subseteq Allocated(found, n)
          /\ failed = "none" => Allocated(found, n) \ freed = Parts(found)
          /\ failed # "none" => Allocated(found, n) \ freed = {}
      <3>1. failed = FailedAt(found, n) /\ freed = FreedOnReturn(failed) \cap Parts(found)
        BY DEF failed, freed
      <3> QED BY <3>1, ResolveOutcome
    <2>4. badFree' = FALSE
      BY <1>2, <2>2, <2>3
    <2>5. IF fails THEN live' = live /\ stack' = Append(stack, Static)
          ELSE live' = live \cup ({met'} \X Parts(found)) /\ stack' = Append(stack, met')
      BY <2>2, <2>3 DEF fails
    <2>6. fails \in BOOLEAN
      BY DEF fails
    <2> QED BY <2>2, <2>4, <2>5, <2>6
  <1>4. BlocksInv' /\ stack' \in Seq(Nat)
    <2>1. CASE ~fails
      <3>0. live' = live \cup ({met'} \X Parts(found)) /\ stack' = Append(stack, met')
        BY <1>3, <2>1
      <3>1. /\ {"box", "content"} \subseteq Parts(found) /\ Parts(found) \subseteq AllParts
        BY PartsAreParts
      <3>2. /\ stack' \in Seq(Nat) /\ Len(stack') = Len(stack) + 1 /\ stack'[Len(stack')] = met + 1
            /\ \A i \in DOMAIN stack : stack'[i] = stack[i]
            /\ DOMAIN stack' = DOMAIN stack \cup {Len(stack')}
            /\ DOMAIN stack = 1..Len(stack)
        BY <1>1, <1>2, <3>0
      <3>3. live' \subseteq (Nat \X AllParts)
        BY <1>1, <1>2, <3>0, <3>1 DEF BlocksInv
      <3>4. \A i \in DOMAIN stack' : stack'[i] <= met'
        BY <1>1, <1>2, <3>2 DEF BlocksInv
      <3>5. \A i, j \in DOMAIN stack' : stack'[i] = stack'[j] /\ stack'[i] # Static => i = j
        BY <1>1, <1>2, <3>2 DEF BlocksInv
      <3>6. \A block \in live' : block[1] # Static /\ \E i \in DOMAIN stack' : stack'[i] = block[1]
        <4> SUFFICES ASSUME NEW block \in live'
                     PROVE  block[1] # Static /\ \E i \in DOMAIN stack' : stack'[i] = block[1]
          OBVIOUS
        <4>1. CASE block \in live
          BY <1>2, <3>2, <4>1 DEF BlocksInv
        <4>2. CASE block \in {met'} \X Parts(found)
          BY <1>1, <1>2, <3>2, <4>2 DEF Static
        <4> QED BY <3>0, <4>1, <4>2
      <3>7. OpenIncludesAreAlive'
        BY <1>1, <1>2, <3>0, <3>1, <3>2 DEF BlocksInv, OpenIncludesAreAlive
      <3> QED BY <3>2, <3>3, <3>4, <3>5, <3>6, <3>7 DEF BlocksInv
    <2>2. CASE fails
      <3>1. live' = live /\ stack' = Append(stack, Static)
        BY <1>3, <2>2
      <3>2. /\ stack' \in Seq(Nat) /\ Len(stack') = Len(stack) + 1 /\ stack'[Len(stack')] = Static
            /\ \A i \in DOMAIN stack : stack'[i] = stack[i]
            /\ DOMAIN stack' = DOMAIN stack \cup {Len(stack')}
        BY <1>2, <3>1 DEF Static
      <3>3. \A i \in DOMAIN stack' : stack'[i] <= met'
        BY <1>1, <1>2, <3>2 DEF BlocksInv, Static
      <3> QED BY <1>2, <3>1, <3>2, <3>3 DEF BlocksInv, OpenIncludesAreAlive
    <2> QED BY <1>3, <2>1, <2>2
  <1>5. StatusInv'
 BY <1>1, <1>2, <1>3 DEF StatusInv
  <1>6. exhausted' \in BOOLEAN /\ rejected' \in BOOLEAN
    BY <1>3 DEF IInv
  <1> QED BY <1>1, <1>2, <1>3, <1>4, <1>5, <1>6
          DEF IInv, DefersInv, InProgress, NoLeak, HandlesReleased, WordsNeedAllIncludes

LEMMA ReleaseIInv == IInv /\ IncludeRelease => IInv'
  <1> SUFFICES ASSUME IInv, IncludeRelease PROVE IInv'
    OBVIOUS
  <1>1. /\ pc = "compiling" /\ stack # <<>> /\ stack' = Front(stack)
        /\ UNCHANGED <<pc, hasDiagnostics, handles, deferred, met, rejected, exhausted, status, result>>
        /\ IF Last(stack) # Static
           THEN /\ badFree' = (badFree \/ ~({Last(stack)} \X {"box", "content"} \subseteq live))
                /\ live' = live \ ({Last(stack)} \X AllParts)
           ELSE UNCHANGED <<live, badFree>>
    BY DEF IncludeRelease, inputs, taken, FreesBlocks, FreedParts, AllParts
  <1>2. BlocksInv /\ StatusInv /\ result = "none" /\ met \in Nat /\ stack \in Seq(Nat)
    BY <1>1 DEF IInv, InProgress
  <1>3. /\ Len(stack) \in DOMAIN stack /\ Last(stack) = stack[Len(stack)]
        /\ stack' \in Seq(Nat) /\ DOMAIN stack' = DOMAIN stack \ {Len(stack)}
        /\ \A i \in DOMAIN stack' : stack'[i] = stack[i]
    BY <1>1, <1>2 DEF Front, Last
  <1>4. badFree' = FALSE
    <2>1. badFree = FALSE
      BY <1>1 DEF IInv
    <2>2. CASE Last(stack) = Static
      BY <1>1, <2>1, <2>2
    <2>3. CASE Last(stack) # Static
      <3>1. {<<Last(stack), "box">>, <<Last(stack), "content">>} \subseteq live
        BY <1>2, <1>3, <2>3 DEF BlocksInv, OpenIncludesAreAlive
      <3>2. {Last(stack)} \X {"box", "content"} \subseteq live
        BY <3>1
      <3> QED BY <1>1, <2>1, <2>3, <3>2
    <2> QED BY <2>2, <2>3
  <1>5. BlocksInv'
    <2>1. /\ live' \subseteq (Nat \X AllParts)
          /\ \A i \in DOMAIN stack' : stack'[i] <= met'
          /\ \A i, j \in DOMAIN stack' : stack'[i] = stack'[j] /\ stack'[i] # Static => i = j
      BY <1>1, <1>2, <1>3 DEF BlocksInv
    <2>2. \A block \in live' : block[1] # Static /\ \E i \in DOMAIN stack' : stack'[i] = block[1]
      <3> SUFFICES ASSUME NEW block \in live'
                   PROVE  block[1] # Static /\ \E i \in DOMAIN stack' : stack'[i] = block[1]
        OBVIOUS
      <3>1. block \in live /\ block[1] # Static
        BY <1>1, <1>2 DEF BlocksInv
      <3>2. PICK i \in DOMAIN stack : stack[i] = block[1]
        BY <1>2, <3>1 DEF BlocksInv
      <3>3. block = <<block[1], block[2]>> /\ block[2] \in AllParts
        BY <1>2, <3>1 DEF BlocksInv
      <3>4. i # Len(stack)
        BY <1>1, <1>3, <3>1, <3>2, <3>3
      <3> QED BY <1>3, <3>1, <3>2, <3>4
    <2>3. OpenIncludesAreAlive'
      <3> SUFFICES ASSUME NEW i \in DOMAIN stack', stack'[i] # Static
                   PROVE  {<<stack'[i], "box">>, <<stack'[i], "content">>} \subseteq live'
        BY DEF OpenIncludesAreAlive
      <3>1. i \in DOMAIN stack /\ i # Len(stack) /\ stack'[i] = stack[i]
        BY <1>3
      <3>2. stack[i] # Last(stack)
        BY <1>2, <1>3, <3>1 DEF BlocksInv
      <3>3. {<<stack[i], "box">>, <<stack[i], "content">>} \subseteq live
        BY <1>2, <3>1 DEF BlocksInv, OpenIncludesAreAlive
      <3> QED BY <1>1, <3>1, <3>2, <3>3
    <2> QED BY <2>1, <2>2, <2>3 DEF BlocksInv
  <1>6. StatusInv'
    BY <1>1, <1>2 DEF StatusInv
  <1> QED BY <1>1, <1>2, <1>3, <1>4, <1>5, <1>6
          DEF IInv, DefersInv, InProgress, NoLeak, HandlesReleased, WordsNeedAllIncludes

\* On every return path the defers release what was taken, and no more.
LEMMA ReturnReleases ==
  ASSUME IInv, pc \in InProgress, NEW r, Return(r)
  PROVE  pc' = "returned" /\ result' = r /\ handles' = {} /\ badFree' = FALSE
  BY DEF Return, IInv, DefersInv

\* A handle that is taken is deferred.
LEMMA TakeKeepsDefers ==
  ASSUME DefersInv, NEW handle, Take(handle)
  PROVE  DefersInv' /\ UNCHANGED <<result, badFree>>
  BY DEF Take, Deferring, DefersInv

\* Returning for want of memory while nothing is alive.
LEMMA OutOfMemoryIInv ==
  ASSUME IInv, pc \in InProgress, live = {}, stack = <<>>, Return("OutOfMemory"), exhausted' = TRUE,
         UNCHANGED <<hasDiagnostics, live, stack, met, rejected>>
  PROVE  IInv'
  <1>1. pc' = "returned" /\ result' = "OutOfMemory" /\ handles' = {} /\ live' = {} /\ stack' = <<>>
        /\ badFree' = FALSE
    BY ReturnReleases
  <1>2. NoLeak' /\ HandlesReleased' /\ WordsNeedAllIncludes'
    BY <1>1 DEF NoLeak, HandlesReleased, WordsNeedAllIncludes
  <1>3. met' \in Nat /\ stack' \in Seq(Nat)
        /\ hasDiagnostics' \in BOOLEAN /\ exhausted' \in BOOLEAN /\ rejected' \in BOOLEAN
    BY DEF IInv
  <1> QED BY <1>1, <1>2, <1>3 DEF IInv, InProgress

LEMMA InitializeIInv ==
  ASSUME IInv, NEW handle, NEW next, Initialize(handle, next),
         handle \in {"compiler", "options"}, next \in {"options", "compiling"}
  PROVE  IInv'
  <1>1. /\ pc = handle /\ UNCHANGED <<hasDiagnostics, live, stack, met, rejected, status>>
        /\ \/ pc' = next /\ Take(handle) /\ UNCHANGED exhausted
           \/ Return("OutOfMemory") /\ exhausted' = TRUE
    BY DEF Initialize, inputs, includes
  <1>2. pc \in InProgress /\ stack = <<>> /\ result = "none" /\ BlocksInv /\ StatusInv /\ DefersInv
    BY <1>1 DEF IInv, InProgress
  <1>3. live = {} /\ BlocksInv'
    BY <1>1, <1>2, EmptyStack, SameBlocks
  <1>4. CASE pc' = next /\ Take(handle) /\ UNCHANGED exhausted
    <2>0. DefersInv' /\ UNCHANGED <<result, badFree>>
      BY <1>2, <1>4, TakeKeepsDefers
    <2>1. pc' \in {"options", "compiling"} /\ StatusInv'
      BY <1>1, <1>2, <1>4 DEF StatusInv
    <2>2. NoLeak' /\ HandlesReleased' /\ WordsNeedAllIncludes'
      BY <1>1, <1>2, <1>4, <2>0, <2>1 DEF NoLeak, HandlesReleased, WordsNeedAllIncludes
    <2>3. met' \in Nat /\ stack' = <<>> /\ stack' \in Seq(Nat) /\ badFree' = FALSE
          /\ hasDiagnostics' \in BOOLEAN /\ exhausted' \in BOOLEAN /\ rejected' \in BOOLEAN
      BY <1>1, <1>2, <1>4, <2>0 DEF IInv
    <2> QED BY <1>2, <1>3, <1>4, <2>0, <2>1, <2>2, <2>3 DEF IInv, InProgress
  <1>5. CASE Return("OutOfMemory") /\ exhausted' = TRUE
    BY <1>1, <1>2, <1>3, <1>5, OutOfMemoryIInv
  <1> QED BY <1>1, <1>4, <1>5

LEMMA CompileIInv == IInv /\ CompileIntoSpv => IInv'
  <1> SUFFICES ASSUME IInv, CompileIntoSpv PROVE IInv'
    OBVIOUS
  <1>1. /\ pc = "compiling" /\ stack = <<>>
        /\ UNCHANGED <<hasDiagnostics, live, stack, met, rejected>>
        /\ \/ /\ pc' = "status" /\ (status' = "success" => ~rejected)
              /\ Take("result") /\ UNCHANGED exhausted
           \/ Return("OutOfMemory") /\ exhausted' = TRUE
    BY DEF CompileIntoSpv, inputs, includes
  <1>2. result = "none" /\ BlocksInv /\ StatusInv /\ DefersInv
    BY <1>1 DEF IInv, InProgress
  <1>3. live = {} /\ BlocksInv'
    BY <1>1, <1>2, EmptyStack, SameBlocks DEF InProgress
  <1>4. CASE /\ pc' = "status" /\ (status' = "success" => ~rejected)
             /\ Take("result") /\ UNCHANGED exhausted
    <2>0. DefersInv' /\ UNCHANGED <<result, badFree>>
      BY <1>2, <1>4, TakeKeepsDefers
    <2>1. StatusInv' /\ result' = "none"
      BY <1>1, <1>2, <1>4, <2>0 DEF StatusInv
    <2>2. NoLeak' /\ HandlesReleased' /\ WordsNeedAllIncludes'
      BY <1>4, <2>1 DEF NoLeak, HandlesReleased, WordsNeedAllIncludes
    <2>3. met' \in Nat /\ stack' = <<>> /\ stack' \in Seq(Nat) /\ badFree' = FALSE
          /\ hasDiagnostics' \in BOOLEAN /\ exhausted' \in BOOLEAN /\ rejected' \in BOOLEAN
      BY <1>1, <1>4, <2>0 DEF IInv
    <2> QED BY <1>3, <1>4, <2>0, <2>1, <2>2, <2>3 DEF IInv, InProgress
  <1>5. CASE Return("OutOfMemory") /\ exhausted' = TRUE
    BY <1>1, <1>3, <1>5, OutOfMemoryIInv DEF InProgress
  <1> QED BY <1>1, <1>4, <1>5

LEMMA CheckStatusIInv == IInv /\ CheckStatus => IInv'
  <1> SUFFICES ASSUME IInv, CheckStatus PROVE IInv'
    OBVIOUS
  <1>1. pc = "status" /\ UNCHANGED <<hasDiagnostics, stack, met, rejected, status>>
    BY DEF CheckStatus, inputs, includes
  <1>2. stack = <<>> /\ result = "none" /\ StatusInv /\ live = {}
    BY <1>1, EmptyStack DEF IInv, InProgress
  <1>3. PICK r \in {"OutOfMemory", "ShaderCompilationFailed", "words"} :
          /\ Return(r)
          /\ \/ r = "OutOfMemory" /\ exhausted' = TRUE /\ UNCHANGED live
             \/ r = "ShaderCompilationFailed" /\ ~hasDiagnostics /\ UNCHANGED <<live, exhausted>>
             \/ /\ r = "ShaderCompilationFailed" /\ hasDiagnostics
                /\ live' = live \cup {<<Static, "message">>} /\ UNCHANGED exhausted
             \/ /\ r = "words" /\ ~Failed
                /\ live' = live \cup {<<Static, "words">>} /\ UNCHANGED exhausted
    BY DEF CheckStatus, CopyOut
  <1>4. pc' = "returned" /\ result' = r /\ handles' = {} /\ badFree' = FALSE
    BY <1>1, <1>3, ReturnReleases DEF InProgress
  <1>5. r = "words" => ~rejected /\ ~exhausted
    BY <1>1, <1>2, <1>3 DEF Failed, StatusInv
  <1>6. exhausted' \in BOOLEAN /\ hasDiagnostics \in BOOLEAN /\ rejected \in BOOLEAN
        /\ met \in Nat /\ stack \in Seq(Nat)
    BY <1>3 DEF IInv
  <1>7. NoLeak' /\ HandlesReleased' /\ WordsNeedAllIncludes'
    BY <1>1, <1>2, <1>3, <1>4, <1>5 DEF NoLeak, HandlesReleased, WordsNeedAllIncludes
  <1> QED BY <1>1, <1>2, <1>4, <1>6, <1>7 DEF IInv, InProgress

LEMMA NextIInv == IInv /\ [Next]_vars => IInv'
  <1> SUFFICES ASSUME IInv, [Next]_vars PROVE IInv'
    OBVIOUS
  <1>1. CASE Initialize("compiler", "options") \/ Initialize("options", "compiling")
    BY <1>1, InitializeIInv
  <1>2. CASE IncludeResolve
    BY <1>2, ResolveIInv
  <1>3. CASE IncludeRefused
    <2>1. UNCHANGED <<pc, hasDiagnostics, handles, deferred, live, stack, met, exhausted, badFree,
                      status, result>>
          /\ pc = "compiling" /\ rejected' = TRUE
      BY <1>3 DEF IncludeRefused, inputs, taken
    <2> QED BY <2>1, SameBlocks DEF IInv, DefersInv, InProgress, StatusInv, NoLeak, HandlesReleased,
                                    WordsNeedAllIncludes
  <1>4. CASE IncludeRelease
    BY <1>4, ReleaseIInv
  <1>5. CASE CompileIntoSpv
    BY <1>5, CompileIInv
  <1>6. CASE CheckStatus
    BY <1>6, CheckStatusIInv
  <1>7. CASE UNCHANGED vars
    <2>1. UNCHANGED <<pc, hasDiagnostics, handles, deferred, live, stack, met, rejected, exhausted,
                      badFree, status, result>>
      BY <1>7 DEF vars, inputs, taken, includes
    <2> QED BY <2>1, SameBlocks DEF IInv, DefersInv, InProgress, StatusInv, NoLeak, HandlesReleased,
                                    WordsNeedAllIncludes
  <1> QED BY <1>1, <1>2, <1>3, <1>4, <1>5, <1>6, <1>7 DEF Next, Done

LEMMA Invariant == Spec => []IInv
  BY InitIInv, NextIInv, PTL DEF Spec

\* Whatever allocation of compile or of its callbacks fails, at whatever depth: the
\* caller owns the words or the log, and all else was freed.
THEOREM NothingLeaks == Spec => []NoLeak
  <1>1. IInv => NoLeak
    BY DEF IInv
  <1> QED BY <1>1, Invariant, PTL

\* On every path out of compile the defers passed so far release what was taken so
\* far: by DefersInv wherever compile may return, and so on each return.
THEOREM HandlesComeBack == Spec => []HandlesReleased
  <1>1. IInv => HandlesReleased
    BY DEF IInv
  <1> QED BY <1>1, Invariant, PTL

\* includeRelease frees each include once and the static oom_result never, a failing
\* includeResolve only what it has allocated, and a return releases only what was taken.
THEOREM FreesAreGood == Spec => []NoBadFree
  <1>1. IInv => NoBadFree
    BY DEF IInv, NoBadFree
  <1> QED BY <1>1, Invariant, PTL

\* libshaderc reads no include that has been freed.
THEOREM IncludesStayAlive == Spec => []OpenIncludesAreAlive
  <1>1. IInv => OpenIncludesAreAlive
    BY DEF IInv, BlocksInv, OpenIncludesAreAlive
  <1> QED BY <1>1, Invariant, PTL

\* A shader with an include that could not be had is never handed out.
THEOREM WordsAreWhole == Spec => []WordsNeedAllIncludes
  <1>1. IInv => WordsNeedAllIncludes
    BY DEF IInv
  <1> QED BY <1>1, Invariant, PTL
=============================================================================
