-------------------------------- MODULE Volk --------------------------------
(***************************************************************************)
(* The loader (volk.zig): threads of an application call loadBase, which   *)
(* tests and sets the global `gipa` without a lock and searches a list of  *)
(* library names in between.  A handle <<t, n>> is the n-th name, opened   *)
(* by thread t.  Libraries may appear or vanish while the search runs.     *)
(***************************************************************************)
EXTENDS Integers

CONSTANTS
  Threads,
  NameCount,   \* candidate names on POSIX; Windows has one
  MaxChanges   \* bound: changes of the installed libraries

ASSUME LoaderAssumption == NameCount \in Nat \ {0} /\ MaxChanges \in Nat

None == 0      \* gipa is null

VARIABLES
  windows,     \* the target's loader backend
  installed,   \* per name: "absent", "loader", or "other", which lacks the symbol
  gipa,        \* the name whose vkGetInstanceProcAddr is held, or None
  handles,     \* libraries open
  at, step,    \* per thread: the name it tries, and where it stands
  trusting,    \* threads that have seen loadBase succeed
  changes

loaderVars == <<windows, installed, gipa, handles, at, step, trusting, changes>>

Contents == {"absent", "other", "loader"}

LoaderInit ==
  /\ windows \in BOOLEAN
  /\ installed \in [1..NameCount -> Contents]
  /\ gipa = None /\ handles = {}
  /\ at = [t \in Threads |-> 1] /\ step = [t \in Threads |-> "out"]
  /\ trusting = {} /\ changes = 0

NextNameBackwards(t) == at[t] - 1
NextName(t) == at[t] + 1
LastName == IF windows THEN 1 ELSE NameCount

Goto(t, s) == step' = [step EXCEPT ![t] = s]

LoadBase(t) ==
  /\ step[t] = "out"
  /\ IF gipa # None
     THEN trusting' = trusting \cup {t} /\ UNCHANGED <<at, step>>
     ELSE Goto(t, "open") /\ at' = [at EXCEPT ![t] = 1] /\ UNCHANGED trusting
  /\ UNCHANGED <<windows, installed, gipa, handles, changes>>

\* dlopen or LoadLibraryW, and the look-up of the symbol in what was opened.
OpenLibrary(t) ==
  /\ step[t] = "open" /\ at[t] <= LastName
  /\ IF installed[at[t]] = "absent"
     THEN at' = [at EXCEPT ![t] = NextName(t)] /\ UNCHANGED <<handles, step>>
     ELSE /\ handles' = handles \cup {<<t, at[t]>>}
          /\ Goto(t, IF installed[at[t]] = "loader" THEN "keep" ELSE "close")
          /\ UNCHANGED at
  /\ UNCHANGED <<windows, installed, gipa, trusting, changes>>

\* close() is for libraries without the symbol, and Windows has none.
ClosedNever(t) == {}
ClosedAlways(t) == {<<t, at[t]>>}
Closed(t) == IF step[t] = "close" /\ ~windows THEN {<<t, at[t]>>} ELSE {}

CloseLibrary(t) ==
  /\ step[t] = "close"
  /\ handles' = handles \ Closed(t)
  /\ at' = [at EXCEPT ![t] = NextName(t)]
  /\ Goto(t, "open")
  /\ UNCHANGED <<windows, installed, gipa, trusting, changes>>

\* The handle stays open; then loadBase sets gipa, whatever it is by now.
KeepLibrary(t) ==
  /\ step[t] = "keep"
  /\ handles' = handles \ Closed(t)
  /\ Goto(t, "set")
  /\ UNCHANGED <<windows, installed, gipa, at, trusting, changes>>

SetGipa(t) ==
  /\ step[t] = "set"
  /\ gipa' = at[t]
  /\ trusting' = trusting \cup {t}
  /\ Goto(t, "out")
  /\ UNCHANGED <<windows, installed, handles, at, changes>>

GipaAfterFailure == gipa

\* VulkanLibraryNotFound
NotFound(t) ==
  /\ step[t] = "open" /\ at[t] > LastName
  /\ gipa' = GipaAfterFailure
  /\ Goto(t, "out")
  /\ UNCHANGED <<windows, installed, handles, at, trusting, changes>>

\* A library is installed, replaced or removed; open handles keep their own.
ChangeLibraries ==
  /\ changes < MaxChanges /\ changes' = changes + 1
  /\ \E n \in 1..NameCount, c \in Contents : installed' = [installed EXCEPT ![n] = c]
  /\ UNCHANGED <<windows, gipa, handles, at, step, trusting>>

LoaderStep(t) == LoadBase(t) \/ OpenLibrary(t) \/ CloseLibrary(t) \/ KeepLibrary(t)
                 \/ SetGipa(t) \/ NotFound(t)

LoaderTypeOK ==
  /\ windows \in BOOLEAN /\ installed \in [1..NameCount -> Contents]
  /\ gipa \in 0..NameCount /\ handles \subseteq Threads \X (1..NameCount)
  /\ at \in [Threads -> 1..NameCount + 1]
  /\ step \in [Threads -> {"out", "open", "close", "keep", "set"}]
  /\ trusting \subseteq Threads /\ changes \in Nat

\* The library whose function everybody calls stays open for good, also when two
\* threads raced and the second one overwrote what the first had set.
PointerIsBacked == gipa # None => \E t \in Threads : <<t, gipa>> \in handles

\* A search that fails leaves no library open, and one that succeeds leaves only
\* the library it kept (POSIX; Windows has no close).
NoLibraryLeaks ==
  ~windows => /\ \A h, k \in handles : h[1] = k[1] => h = k
              /\ \A h \in handles : step[h[1]] = "out" => h[1] \in trusting
=============================================================================
