------------------------------ MODULE Shaderc ------------------------------
(***************************************************************************)
(* One call of shaderc.zig's compile: the handles it takes from libshaderc *)
(* and gives back by defer, and the include callbacks that libshaderc      *)
(* calls while it compiles, each allocating and freeing with the caller's  *)
(* allocator.  A block is <<include, part>>; any allocation may fail.      *)
(* libshaderc itself is external: it nests includes, releases each when it *)
(* has been read, and all of them before it returns.                       *)
(***************************************************************************)
EXTENDS Integers, Sequences, SequencesExt

CONSTANTS MaxIncludes,  \* bound: #include directives met in one compile
          MaxDepth      \* bound: nesting of includes

ASSUME BoundsAssumption == MaxIncludes \in Nat /\ MaxDepth \in Nat

Static == 0             \* oom_result, which belongs to nobody

VARIABLES
  pc,             \* "compiler", "options", "compiling", "status", "returned"
  hasIncluder,    \* options.includer given
  hasDiagnostics, \* a *Diagnostics given
  handles,        \* libshaderc objects alive
  deferred,       \* those whose release is registered so far
  live,           \* blocks of the caller's allocator alive
  stack,          \* includes libshaderc is reading, the innermost last
  met,            \* includes met so far; also the number of the newest
  rejected,       \* an include could not be had
  exhausted,      \* an allocation has failed
  badFree,        \* a block was freed, or a handle released, that was not alive
  status, result  \* libshaderc's compilation status; what compile returned

inputs == <<hasIncluder, hasDiagnostics>>
includes == <<stack, met, rejected>>
taken == <<handles, deferred>>
vars == <<pc, inputs, taken, live, includes, exhausted, badFree, status, result>>

Init == /\ pc = "compiler" /\ hasIncluder \in BOOLEAN /\ hasDiagnostics \in BOOLEAN
        /\ handles = {} /\ deferred = {} /\ live = {}
        /\ stack = <<>> /\ met = 0 /\ rejected = FALSE
        /\ exhausted = FALSE /\ badFree = FALSE
        /\ status = "none" /\ result = "none"

\* A handle that was given out, and the `defer` in the line after it.
DeferringButResult(handle) == deferred \cup ({handle} \ {"result"})
Deferring(handle) == deferred \cup {handle}

Take(handle) == /\ handles' = handles \cup {handle}
                /\ deferred' = Deferring(handle)
                /\ UNCHANGED <<result, badFree>>

\* `return`, on any path: the defers that have been passed, and no other, are run.
Return(r) == /\ pc' = "returned" /\ result' = r
             /\ handles' = handles \ deferred /\ deferred' = {}
             /\ badFree' = (badFree \/ ~(deferred \subseteq handles))

\* shaderc_compiler_initialize, then shaderc_compile_options_initialize.
Initialize(handle, next) ==
  /\ pc = handle
  /\ \/ pc' = next /\ Take(handle) /\ UNCHANGED exhausted
     \/ Return("OutOfMemory") /\ exhausted' = TRUE
  /\ UNCHANGED <<inputs, live, includes, status>>

-----------------------------------------------------------------------------
(* The include callbacks *)

\* What an include allocates, in order.  One that is not found gets an empty
\* name, which takes no memory, so allocating it cannot fail.
Allocations(found) == IF found THEN <<"box", "name", "content">> ELSE <<"box", "content">>
Parts(found) == ToSet(Allocations(found))

\* Of n allocations that succeed: what they are, and which one fails then.
Allocated(found, n) == {Allocations(found)[i] : i \in 1..n}
FailedAt(found, n) == IF n = Len(Allocations(found)) THEN "none" ELSE Allocations(found)[n + 1]

\* The frees on the way out.
FreedOnReturnButName(failed) == IF failed \in {"name", "content"} THEN {"box"} ELSE {}
FreedOnReturnContentToo(failed) == (IF failed \in {"name", "content"} THEN {"box"} ELSE {})
                                   \cup (IF failed = "none" THEN {"content"} ELSE {})
FreedOnReturn(failed) == (IF failed = "content" THEN {"name"} ELSE {})
                         \cup (IF failed \in {"name", "content"} THEN {"box"} ELSE {})

IncludeResolve ==
  /\ pc = "compiling" /\ hasIncluder
  /\ met < MaxIncludes /\ Len(stack) < MaxDepth
  /\ met' = met + 1
  /\ \E found \in BOOLEAN : \E n \in 0..Len(Allocations(found)) :
       LET failed == FailedAt(found, n)
           freed == FreedOnReturn(failed) \cap Parts(found)
       IN /\ live' = live \cup ({met'} \X (Allocated(found, n) \ freed))
          /\ badFree' = (badFree \/ ~(freed \subseteq Allocated(found, n)))
          /\ stack' = Append(stack, IF failed = "none" THEN met' ELSE Static)
          /\ rejected' = (rejected \/ ~found \/ failed # "none")
          /\ exhausted' = (exhausted \/ failed # "none")
  /\ UNCHANGED <<pc, inputs, taken, status, result>>

\* Without callbacks libshaderc refuses each #include.
IncludeRefused == /\ pc = "compiling" /\ ~hasIncluder
                  /\ rejected' = TRUE
                  /\ UNCHANGED <<pc, inputs, taken, live, stack, met, exhausted, badFree, status, result>>

FreesBlocksAlways(include) == TRUE
FreesBlocks(include) == include # Static

FreedParts == {"box", "name", "content"}

IncludeRelease ==
  /\ pc = "compiling" /\ stack # <<>>
  /\ stack' = Front(stack)
  /\ IF FreesBlocks(Last(stack))
     THEN /\ badFree' = (badFree \/ ~({Last(stack)} \X {"box", "content"} \subseteq live))
          /\ live' = live \ ({Last(stack)} \X FreedParts)
     ELSE UNCHANGED <<live, badFree>>
  /\ UNCHANGED <<pc, inputs, taken, met, rejected, exhausted, status, result>>

-----------------------------------------------------------------------------
(* shaderc_compile_into_spv returns, and what compile makes of it *)

CompileIntoSpv ==
  /\ pc = "compiling" /\ stack = <<>>
  /\ \/ /\ pc' = "status" /\ Take("result")
        /\ status' \in IF rejected THEN {"error"} ELSE {"error", "success"}
        /\ UNCHANGED exhausted
     \/ /\ Return("OutOfMemory") /\ exhausted' = TRUE
        /\ UNCHANGED status
  /\ UNCHANGED <<inputs, live, includes>>

\* The log, or the words, in the caller's memory; the copy may fail.
CopyOut(part, r) ==
  \/ live' = live \cup {<<Static, part>>} /\ Return(r) /\ UNCHANGED exhausted
  \/ Return("OutOfMemory") /\ exhausted' = TRUE /\ UNCHANGED live

CheckStatusLost == status = "none"
Failed == status # "success"

CheckStatus ==
  /\ pc = "status"
  /\ IF Failed
     THEN IF hasDiagnostics THEN CopyOut("message", "ShaderCompilationFailed")
          ELSE Return("ShaderCompilationFailed") /\ UNCHANGED <<live, exhausted>>
     ELSE CopyOut("words", "words")
  /\ UNCHANGED <<inputs, includes, status>>

Done == pc = "returned" /\ UNCHANGED vars

Next == \/ Initialize("compiler", "options") \/ Initialize("options", "compiling")
        \/ IncludeResolve \/ IncludeRefused \/ IncludeRelease
        \/ CompileIntoSpv \/ CheckStatus \/ Done

Spec == Init /\ [][Next]_vars

-----------------------------------------------------------------------------
(* Properties *)

\* What the caller owns after the call is the SPIR-V words of a success, or the
\* log of a failure it asked to be told of, and nothing else: whichever
\* allocation failed, at whatever depth of includes, the rest was freed.
NoLeak ==
  pc = "returned" =>
    live = IF result = "words" THEN {<<Static, "words">>}
           ELSE IF result = "ShaderCompilationFailed" /\ hasDiagnostics
                THEN {<<Static, "message">>} ELSE {}

\* The library's handles are all given back, on each of the return paths: where
\* compile returns, the defers it has passed cover every handle it has taken.
HandlesReleased == pc = "returned" => handles = {}

\* Nothing is freed or released that is not alive: not the static oom_result, no
\* include twice, no part of one before it was allocated, no handle not taken.
NoBadFree == ~badFree

\* What libshaderc reads of the includes on its stack has not been freed.
OpenIncludesAreAlive ==
  \A i \in DOMAIN stack : stack[i] # Static => {<<stack[i], "box">>, <<stack[i], "content">>} \subseteq live

\* Words are returned only if every include was had, none replaced by the error
\* text that stands in for it.
WordsNeedAllIncludes == result = "words" => ~rejected /\ ~exhausted
=============================================================================
