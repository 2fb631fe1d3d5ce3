------------------------- MODULE VulkanStack_proofs -------------------------
(***************************************************************************)
(* Proofs about VulkanStack, for any number of threads, candidate names    *)
(* and objects.  The loader's invariant says what is open and why; the     *)
(* stack's says who has what.                                              *)
(***************************************************************************)
EXTENDS VulkanStack, TLAPS

Searching == {"keep", "close", "set"}

\* A thread between opening a library and its decision has that library open.
SearchersHold ==
  \A t \in Threads : step[t] \in Searching => <<t, at[t]>> \in handles

\* Who has seen success is outside loadBase and finds the pointer set, for good.
TrustIsJustified ==
  \A t \in trusting : step[t] = "out" /\ gipa # None

\* The pointer's library is held by a thread that has left loadBase: it will not
\* search again, so nobody closes it.
BackedByLeaver ==
  gipa # None => \E t \in Threads : <<t, gipa>> \in handles /\ step[t] = "out"

\* An open library is the one its thread is at, during the search or for good.
HandlesAreAccounted ==
  ~windows => \A h \in handles : /\ h[2] = at[h[1]]
                                 /\ step[h[1]] \in Searching \/ h[1] \in trusting

LoaderInv == LoaderTypeOK /\ SearchersHold /\ TrustIsJustified /\ BackedByLeaver
             /\ HandlesAreAccounted

-----------------------------------------------------------------------------
(* The loader *)

LEMMA LoaderInitial == LoaderInit => LoaderInv
  BY LoaderAssumption
  DEF LoaderInit, LoaderInv, LoaderTypeOK, SearchersHold, TrustIsJustified, BackedByLeaver,
      HandlesAreAccounted, Searching, None, Contents

\* Every step of a thread in loadBase preserves the loader's invariant.
LEMMA LoaderPreserved ==
  ASSUME LoaderInv, NEW t \in Threads, LoaderStep(t)
  PROVE  LoaderInv'
<1> USE LoaderAssumption DEF LoaderInv, LoaderTypeOK, SearchersHold, TrustIsJustified,
        BackedByLeaver, HandlesAreAccounted, Searching, None, Goto, NextName
<1>1. CASE LoadBase(t)
  <2>1. CASE gipa # None
    <3>1. UNCHANGED <<windows, installed, gipa, handles, at, step, changes>>
          /\ trusting' = trusting \cup {t}
      BY <1>1, <2>1 DEF LoadBase
    <3>2. step[t] = "out"
      BY <1>1 DEF LoadBase
    <3>3. QED
      BY <3>1, <3>2, <2>1
  <2>2. CASE gipa = None
    <3>1. trusting = {}
      BY <2>2
    <3>2. LoaderTypeOK'
      BY <1>1, <2>2 DEF LoadBase
    <3>3. SearchersHold' /\ TrustIsJustified' /\ BackedByLeaver'
      BY <1>1, <2>2, <3>1 DEF LoadBase
    <3>4. HandlesAreAccounted'
      BY <1>1, <2>2, <3>1 DEF LoadBase
    <3>5. QED
      BY <3>2, <3>3, <3>4
  <2>3. QED
    BY <2>1, <2>2
<1>2. CASE OpenLibrary(t)
  <2>1. at[t] \in 1..NameCount /\ step[t] = "open" /\ t \notin trusting
    BY <1>2 DEF OpenLibrary, LastName
  <2>2. ASSUME ~windows PROVE \A h \in handles : h[1] # t
    BY <2>1, <2>2
  <2>3. CASE installed[at[t]] = "absent"
    <3>1. LoaderTypeOK'
      <4>1. /\ at' = [at EXCEPT ![t] = at[t] + 1]
            /\ UNCHANGED <<windows, installed, gipa, handles, step, trusting, changes>>
        BY <1>2, <2>3 DEF OpenLibrary
      <4>2. at[t] + 1 \in 1..NameCount + 1
        BY <2>1
      <4>3. QED
        BY <4>1, <4>2
    <3>2. SearchersHold' /\ TrustIsJustified' /\ BackedByLeaver'
      BY <1>2, <2>1, <2>3 DEF OpenLibrary
    <3>3. HandlesAreAccounted'
      BY <1>2, <2>1, <2>2, <2>3 DEF OpenLibrary
    <3>4. QED
      BY <3>1, <3>2, <3>3
  <2>4. CASE installed[at[t]] # "absent"
    <3>1. /\ handles' = handles \cup {<<t, at[t]>>}
          /\ \E s \in {"keep", "close"} : step' = [step EXCEPT ![t] = s]
          /\ UNCHANGED <<at, windows, installed, gipa, trusting, changes>>
      BY <1>2, <2>4 DEF OpenLibrary
    <3>2. LoaderTypeOK'
      <4>1. handles' \subseteq Threads \X (1..NameCount)
        BY <2>1, <3>1
      <4>2. step' \in [Threads -> {"out", "open", "close", "keep", "set"}]
        BY <3>1
      <4>3. QED
        BY <3>1, <4>1, <4>2
    <3>3. SearchersHold' /\ TrustIsJustified'
      BY <2>1, <3>1
    <3>4. BackedByLeaver'
      BY <2>1, <3>1
    <3>5. HandlesAreAccounted'
      BY <2>1, <2>2, <3>1
    <3>6. QED
      BY <3>2, <3>3, <3>4, <3>5
  <2>5. QED
    BY <2>3, <2>4
<1>3. CASE CloseLibrary(t)
  <2>1. /\ step[t] = "close" /\ step' = [step EXCEPT ![t] = "open"]
        /\ handles' = handles \ (IF windows THEN {} ELSE {<<t, at[t]>>})
        /\ at' = [at EXCEPT ![t] = at[t] + 1]
        /\ UNCHANGED <<windows, installed, gipa, trusting, changes>>
    BY <1>3 DEF CloseLibrary, Closed
  <2>2. at[t] \in 1..NameCount /\ t \notin trusting
    BY <2>1
  <2>3. LoaderTypeOK'
    BY <2>1, <2>2
  <2>4. SearchersHold' /\ TrustIsJustified'
    BY <2>1, <2>2
  <2>5. BackedByLeaver'
    BY <2>1
  <2>6. HandlesAreAccounted'
    BY <2>1, <2>2
  <2>7. QED
    BY <2>3, <2>4, <2>5, <2>6
<1>4. CASE KeepLibrary(t)
  BY <1>4 DEF KeepLibrary, Closed
<1>5. CASE SetGipa(t)
  <2>1. at[t] \in 1..NameCount /\ <<t, at[t]>> \in handles
    BY <1>5 DEF SetGipa
  <2>2. LoaderTypeOK'
    BY <1>5, <2>1 DEF SetGipa
  <2>3. SearchersHold' /\ TrustIsJustified' /\ HandlesAreAccounted'
    BY <1>5, <2>1 DEF SetGipa
  <2>4. BackedByLeaver'
    <3>1. <<t, gipa'>> \in handles' /\ step'[t] = "out"
      BY <1>5, <2>1 DEF SetGipa
    <3>2. QED
      BY <3>1
  <2>5. QED
    BY <2>2, <2>3, <2>4
<1>6. CASE NotFound(t)
  BY <1>6 DEF NotFound, GipaAfterFailure
<1>7. QED
  BY <1>1, <1>2, <1>3, <1>4, <1>5, <1>6 DEF LoaderStep

\* So does a change of the installed libraries.
LEMMA ChangePreserved == ASSUME LoaderInv, ChangeLibraries PROVE LoaderInv'
<1>1. LoaderTypeOK'
  BY DEF ChangeLibraries, LoaderInv, LoaderTypeOK, Contents
<1>2. UNCHANGED <<windows, gipa, handles, at, step, trusting>>
  BY DEF ChangeLibraries
<1>3. SearchersHold' /\ TrustIsJustified' /\ BackedByLeaver' /\ HandlesAreAccounted'
  BY <1>2 DEF LoaderInv, SearchersHold, TrustIsJustified, BackedByLeaver, HandlesAreAccounted
<1>4. QED
  BY <1>1, <1>3 DEF LoaderInv

-----------------------------------------------------------------------------
(* The stack: each thread's calls leave the loader alone *)

StackInv == StackTypeOK /\ PanicsAreTheCallers /\ OwnershipAgrees

LEMMA StackInitial == Init => StackInv
<1> SUFFICES ASSUME Init PROVE StackInv
  OBVIOUS
<1>1. StackTypeOK
  BY DEF Init, StackTypeOK, MemoryKinds
<1>2. PanicsAreTheCallers
  BY DEF Init, PanicsAreTheCallers
<1>3. OwnershipAgrees
  BY DEF Init, OwnershipAgrees
<1>4. QED
  BY <1>1, <1>2, <1>3 DEF StackInv

\* Whatever a call of VMA ends in, the wrapper hands out what VMA has made, and finds
\* no null in what it unwraps.
LEMMA CallsAgree ==
  ASSUME NEW ending, NEW asked
  PROVE  Got(ending, asked) = Made(ending, asked) /\ ~UnwrapsNull(ending, asked)
<1> USE DEF Got, Made, UnwrapsNull, Unwrapped, Written, ResultOf, IsOk
<1>1. CASE ending = "success"
  BY <1>1
<1>2. CASE ending = "throws"
  BY <1>2
<1>3. CASE ending \notin {"success", "throws"}
  BY <1>3
<1>4. QED
  BY <1>1, <1>2, <1>3

\* An object of which the application has got what was made.
LEMMA ObtainKeeps ==
  ASSUME StackInv, NEW o \in Objects, NEW k \in MemoryKinds \cup {"surface"},
         NEW made, made \subseteq {"handle", "memory"}, Obtain(o, k, made, made),
         panic' = panic
  PROVE  StackInv'
<1>1. StackTypeOK'
  <2>1. live' \subseteq Objects \X {"handle", "memory"} /\ held' = live'
    BY DEF StackInv, StackTypeOK, OwnershipAgrees, Obtain
  <2>2. kind' \in [Objects -> MemoryKinds \cup {"none", "surface"}]
    BY DEF StackInv, StackTypeOK, Obtain
  <2>3. mappedData' \in [Objects -> {"unasked", "null", "pointer"}]
    BY DEF StackInv, StackTypeOK, Obtain
  <2>4. QED
    BY <2>1, <2>2, <2>3 DEF StackInv, StackTypeOK, Obtain
<1>2. PanicsAreTheCallers'
  BY DEF StackInv, PanicsAreTheCallers
<1>3. OwnershipAgrees'
  BY DEF StackInv, OwnershipAgrees, Obtain
<1>4. QED
  BY <1>1, <1>2, <1>3 DEF StackInv

\* What is destroyed was held, and is gone on both sides.
LEMMA DestroyKeeps ==
  ASSUME StackInv, NEW o \in Objects, Destroy(o)
  PROVE  StackInv'
<1>1. StackTypeOK'
  BY DEF StackInv, StackTypeOK, Destroy
<1>2. PanicsAreTheCallers'
  BY DEF StackInv, PanicsAreTheCallers, Destroy
<1>3. OwnershipAgrees'
  BY DEF StackInv, OwnershipAgrees, Destroy
<1>4. QED
  BY <1>1, <1>2, <1>3 DEF StackInv

\* A panic that is not the library's fault is allowed.
LEMMA PanicKeeps ==
  ASSUME StackInv, NEW cause \in {"not loaded", "not implemented"}, Panic(cause)
  PROVE  StackInv'
  BY DEF StackInv, StackTypeOK, PanicsAreTheCallers, OwnershipAgrees, Panic

\* Without a loader a thread panics, but none that has seen a load succeed.
LEMMA NotLoadedKeeps ==
  ASSUME StackInv, LoaderInv, NEW t \in Threads, gipa = None, NotLoaded(t)
  PROVE  StackInv'
<1>1. t \notin trusting
  BY DEF LoaderInv, TrustIsJustified
<1>2. QED
  BY <1>1, PanicKeeps DEF NotLoaded

LEMMA StutterKeeps == ASSUME StackInv, UNCHANGED stackVars PROVE StackInv'
  BY DEF StackInv, StackTypeOK, PanicsAreTheCallers, OwnershipAgrees, stackVars

\* Every call an application's thread makes preserves the stack's invariant.
LEMMA StackPreserved ==
  ASSUME StackInv, LoaderInv, NEW t \in Threads, Using(t)
  PROVE  StackInv'
<1>1. CASE CreateAllocator(t)
  <2>1. CASE gipa = None
    BY <1>1, <2>1, NotLoadedKeeps DEF CreateAllocator
  <2>2. CASE gipa # None
    <3>1. PICK ending \in Endings :
            /\ PanicAfter(ending, {"allocator"})
            /\ allocator' = [live |-> allocator.live \/ Made(ending, {"allocator"}) # {},
                             held |-> Got(ending, {"allocator"}) # {}]
      BY <1>1, <2>2 DEF CreateAllocator
    <3>2. UNCHANGED <<live, held, kind, maps, pointers, mappedData>>
      BY <1>1, <2>2 DEF CreateAllocator
    <3>3. panic' = panic
      BY <3>1, CallsAgree DEF PanicAfter
    <3>4. allocator.live = FALSE
      BY <1>1 DEF CreateAllocator, StackInv, OwnershipAgrees, StackTypeOK
    <3>5. allocator'.live = allocator'.held /\ allocator' \in [live : BOOLEAN, held : BOOLEAN]
      <4>1. Got(ending, {"allocator"}) = Made(ending, {"allocator"})
        BY CallsAgree
      <4>2. QED
        BY <3>1, <3>4, <4>1
    <3>6. QED
      BY <3>2, <3>3, <3>5 DEF StackInv, StackTypeOK, PanicsAreTheCallers, OwnershipAgrees
  <2>3. QED
    BY <2>1, <2>2
<1>2. CASE DestroyAllocator(t)
  BY <1>2 DEF DestroyAllocator, StackInv, StackTypeOK, PanicsAreTheCallers, OwnershipAgrees
<1>3. CASE CreateAndroidSurface(t)
  BY <1>3, PanicKeeps DEF CreateAndroidSurface
<1>4. ASSUME NEW o \in Objects, CreateResource(t, o)
      PROVE  StackInv'
  <2> DEFINE asked == {"handle", "memory"}
  <2>1. PICK ending \in Endings, k \in MemoryKinds :
          /\ PanicAfter(ending, asked)
          /\ Obtain(o, k, Made(ending, asked), Got(ending, asked))
    BY <1>4 DEF CreateResource
  <2>2. panic' = panic /\ Obtain(o, k, Made(ending, asked), Made(ending, asked))
    BY <2>1, CallsAgree DEF PanicAfter
  <2>3. Made(ending, asked) \subseteq {"handle", "memory"}
    BY DEF Made
  <2>4. QED
    BY <2>2, <2>3, ObtainKeeps
<1>5. ASSUME NEW o \in Objects, DestroyResource(t, o)
      PROVE  StackInv'
  BY <1>5, DestroyKeeps DEF DestroyResource
<1>6. ASSUME NEW o \in Objects, MapMemory(t, o)
      PROVE  StackInv'
  <2> DEFINE asked == {"pointer"}
  <2>1. PICK ending \in Endings :
          /\ PanicAfter(ending, asked)
          /\ maps' = [maps EXCEPT ![o] = IF Made(ending, asked) = {} THEN @ ELSE @ + 1]
          /\ pointers' = [pointers EXCEPT ![o] = IF Got(ending, asked) = {} THEN @ ELSE @ + 1]
    BY <1>6 DEF MapMemory
  <2>2. UNCHANGED <<allocator, live, held, kind, mappedData>>
    BY <1>6 DEF MapMemory
  <2>3. maps' = pointers' /\ panic' = panic
    BY <2>1, CallsAgree DEF PanicAfter, StackInv, OwnershipAgrees
  <2>4. maps' \in [Objects -> Nat]
    <3>1. maps \in [Objects -> Nat]
      BY DEF StackInv, StackTypeOK
    <3>2. maps[o] \in Nat /\ maps[o] + 1 \in Nat
      BY <3>1
    <3>3. QED
      BY <2>1, <3>1, <3>2
  <2>5. QED
    BY <2>2, <2>3, <2>4 DEF StackInv, StackTypeOK, PanicsAreTheCallers, OwnershipAgrees
<1>7. ASSUME NEW o \in Objects, UnmapMemory(t, o)
      PROVE  StackInv'
  <2>1. maps' = pointers'
    BY <1>7 DEF UnmapMemory, StackInv, OwnershipAgrees
  <2>2. maps' \in [Objects -> Nat]
    <3>1. maps \in [Objects -> Nat] /\ maps[o] \in Nat /\ maps[o] > 0
      BY <1>7 DEF UnmapMemory, StackInv, StackTypeOK, OwnershipAgrees
    <3>2. maps[o] - 1 \in Nat
      BY <3>1
    <3>3. QED
      BY <1>7, <3>1, <3>2 DEF UnmapMemory
  <2>3. QED
    BY <1>7, <2>1, <2>2 DEF UnmapMemory, StackInv, StackTypeOK, PanicsAreTheCallers,
                            OwnershipAgrees
<1>8. ASSUME NEW o \in Objects, GetAllocationInfo(t, o)
      PROVE  StackInv'
  BY <1>8 DEF GetAllocationInfo, StackInv, StackTypeOK, PanicsAreTheCallers, OwnershipAgrees
<1>9. ASSUME NEW o \in Objects, CreateSurface(t, o)
      PROVE  StackInv'
  <2>1. CASE gipa = None
    BY <1>9, <2>1, NotLoadedKeeps DEF CreateSurface
  <2>2. CASE UNCHANGED stackVars
    BY <2>2, StutterKeeps
  <2>3. CASE gipa # None /\ ~UNCHANGED stackVars
    <3>1. panic' = panic
      BY <1>9, <2>3 DEF CreateSurface
    <3>2. PICK result \in Results :
            Obtain(o, "surface", Made(result, {"handle"}),
                   SurfaceResult(result, Made(result, {"handle"})))
      BY <1>9, <2>3 DEF CreateSurface
    <3>3. SurfaceResult(result, Made(result, {"handle"})) = Made(result, {"handle"})
      BY DEF SurfaceResult, Made
    <3>4. Made(result, {"handle"}) \subseteq {"handle", "memory"}
      BY DEF Made
    <3>5. QED
      BY <3>1, <3>2, <3>3, <3>4, ObtainKeeps
  <2>4. QED
    BY <2>1, <2>2, <2>3
<1>10. ASSUME NEW o \in Objects, DestroySurface(t, o)
       PROVE  StackInv'
  BY <1>10, DestroyKeeps DEF DestroySurface
<1>11. QED
  BY <1>1, <1>2, <1>3, <1>4, <1>5, <1>6, <1>7, <1>8, <1>9, <1>10 DEF Using

-----------------------------------------------------------------------------
(* The theorems *)

\* The loader's invariant, and the stack's on top of it.
IInv == LoaderInv /\ StackInv

LEMMA Inductive == IInv /\ [Next]_vars => IInv'
<1> SUFFICES ASSUME IInv, [Next]_vars PROVE IInv'
  OBVIOUS
<1> USE DEF IInv
<1>1. ASSUME UNCHANGED loaderVars PROVE LoaderInv'
  BY <1>1 DEF loaderVars, LoaderInv, LoaderTypeOK, SearchersHold, TrustIsJustified,
              BackedByLeaver, HandlesAreAccounted
<1>2. CASE Loading
  <2>1. LoaderInv'
    BY <1>2, LoaderPreserved, ChangePreserved DEF Loading
  <2>2. StackInv'
    BY <1>2, StutterKeeps DEF Loading
  <2>3. QED
    BY <2>1, <2>2
<1>3. ASSUME NEW t \in Threads, Using(t) PROVE IInv'
  <2>1. UNCHANGED loaderVars
    BY <1>3 DEF Using, CreateAllocator, DestroyAllocator, CreateAndroidSurface, CreateResource,
                DestroyResource, MapMemory, UnmapMemory, GetAllocationInfo, CreateSurface,
                DestroySurface, Destroy
  <2>2. QED
    BY <1>1, <1>3, <2>1, StackPreserved
<1>4. CASE UNCHANGED vars
  BY <1>1, <1>4, StutterKeeps DEF vars
<1>5. QED
  BY <1>2, <1>3, <1>4 DEF Next, Ended

LEMMA Invariance == Spec => []IInv
<1>1. Init => IInv
  BY LoaderInitial, StackInitial DEF Init, IInv
<1>2. QED
  BY <1>1, Inductive, PTL DEF Spec

\* For any number of threads, names and objects, the state is well-typed.
THEOREM TypeCorrect == Spec => []TypeOK
<1>1. IInv => TypeOK
  BY DEF IInv, LoaderInv, StackInv, StackTypeOK, TypeOK
<1>2. QED
  BY <1>1, Invariance, PTL

\* The library behind the pointer that everybody calls is never closed, however many
\* threads race in loadBase (volk.zig).
THEOREM PointerStaysBacked == Spec => []PointerIsBacked
<1>1. IInv => PointerIsBacked
  BY DEF IInv, LoaderInv, BackedByLeaver, PointerIsBacked
<1>2. QED
  BY <1>1, Invariance, PTL

\* A search leaves no library open but the one it kept (volk.zig, POSIX).
THEOREM NothingLeaks == Spec => []NoLibraryLeaks
<1>1. IInv => NoLibraryLeaks
  <2>1. ASSUME IInv, ~windows, NEW h \in handles, NEW k \in handles, h[1] = k[1]
        PROVE  h = k
    BY <2>1 DEF IInv, LoaderInv, LoaderTypeOK, HandlesAreAccounted
  <2>2. ASSUME IInv, ~windows, NEW h \in handles, step[h[1]] = "out"
        PROVE  h[1] \in trusting
    BY <2>2 DEF IInv, LoaderInv, HandlesAreAccounted, Searching
  <2>3. QED
    BY <2>1, <2>2 DEF NoLibraryLeaks
<1>2. QED
  BY <1>1, Invariance, PTL

\* No thread that saw loadBase succeed panics for want of a loader, and no wrapper
\* unwraps a null handle (volk.zig, vma.zig).
THEOREM PanicsAreJustified == Spec => []PanicsAreTheCallers
<1>1. IInv => PanicsAreTheCallers
  BY DEF IInv, StackInv
<1>2. QED
  BY <1>1, Invariance, PTL

\* Whatever VMA's calls end in, an exception among it, the application holds each handle
\* and each mapping that VMA and the driver have made, and no other (vma.zig, root.zig,
\* vma_bridge.cpp).
THEOREM OwnershipStays == Spec => []OwnershipAgrees
<1>1. IInv => OwnershipAgrees
  BY DEF IInv, StackInv
<1>2. QED
  BY <1>1, Invariance, PTL
=============================================================================
