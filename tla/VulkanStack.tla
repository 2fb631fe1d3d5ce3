----------------------------- MODULE VulkanStack -----------------------------
(***************************************************************************)
(* An application of the library: its threads load the loader (Volk) and,  *)
(* between, create surfaces (root.zig) and VMA objects through the bridge  *)
(* (vma.zig, vma_bridge.cpp).  VMA and the driver are external: a call of  *)
(* theirs ends in success and has made its handles, or in an error or a    *)
(* C++ exception and has made none.  What the application then holds is    *)
(* up to the bridge and the wrapper.  The application keeps the documented *)
(* order: what it destroys it holds, and it unmaps what it maps.           *)
(***************************************************************************)
EXTENDS Volk

CONSTANTS Objects,  \* buffers, images and surfaces the application may have
          MaxMaps   \* bound: nested maps of an allocation

ASSUME StackAssumption == MaxMaps \in Nat

VARIABLES
  allocator,        \* [live, held]: VMA's view and the application's; one at a time
  live,             \* handles that VMA or the driver has made and not destroyed
  held,             \* handles the application has got and not given back
  kind,             \* per object: "none", "surface", "hidden", "visible" or "persistent"
  maps,             \* per object: VMA's count of maps
  pointers,         \* per object: pointers the application has got by mapping it
  mappedData,       \* per object: what getAllocationInfo last said of it
  panic             \* "none", or why the process ended, and whose fault it was

stackVars == <<allocator, live, held, kind, maps, pointers, mappedData, panic>>
vars == <<loaderVars, stackVars>>

Init == /\ LoaderInit
        /\ allocator = [live |-> FALSE, held |-> FALSE]
        /\ live = {} /\ held = {}
        /\ kind = [o \in Objects |-> "none"]
        /\ maps = [o \in Objects |-> 0] /\ pointers = [o \in Objects |-> 0]
        /\ mappedData = [o \in Objects |-> "unasked"]
        /\ panic = "none"

\* Memory the host cannot see, can see, or sees all the time (Flags.mapped).
MemoryKinds == {"hidden", "visible", "persistent"}

\* A buffer or an image is two handles, a surface one.
Holds(o) == <<o, "handle">> \in held \/ <<o, "memory">> \in held
Allocations == {o \in Objects : <<o, "memory">> \in held}

\* The thread is in the application's code, and the process is alive.
InApplication(t) == step[t] = "out" /\ panic = "none"

Panic(cause) == /\ panic' = cause
                /\ UNCHANGED <<allocator, live, held, kind, maps, pointers, mappedData>>

\* getInstanceProcAddr: panics unless a load has succeeded.
NotLoaded(t) == Panic(IF t \in trusting THEN "not loaded after success" ELSE "not loaded")

-----------------------------------------------------------------------------
(* A call of VMA, seen through the bridge and the wrapper *)

Results == {"success", "out_of_host_memory", "out_of_device_memory", "memory_map_failed",
            "initialization_failed", "unknown"}

\* How VMA may end, and which of the handles it was asked for it has made then.
Endings == Results \cup {"throws"}
Made(ending, asked) == IF ending = "success" THEN asked ELSE {}

\* The bridge returns VMA's result and writes its handles to the out-parameters,
\* which the wrapper has set to null; `catch` does neither.
ResultOf(ending) == IF ending = "throws" THEN "unknown" ELSE ending
WrittenButHandle(ending, asked) == Made(ending, asked) \ {"handle"}
Written(ending, asked) == IF ending = "throws" THEN {} ELSE Made(ending, asked)

\* check: only success is no error.
IsOkUnlessKnown(result) == result \in {"success", "unknown"}
IsOk(result) == result = "success"

\* The wrapper unwraps the pointers among the handles, and hands all of them out.
Unwrapped(asked) == asked \cap {"allocator", "memory", "pointer"}
UnwrapsNull(ending, asked) == /\ IsOk(ResultOf(ending))
                              /\ ~(Unwrapped(asked) \subseteq Written(ending, asked))
Got(ending, asked) == IF IsOk(ResultOf(ending)) THEN Written(ending, asked) ELSE {}

PanicAfter(ending, asked) ==
  panic' = IF UnwrapsNull(ending, asked) THEN "null unwrapped" ELSE panic

-----------------------------------------------------------------------------
(* VMA *)

CreateAllocator(t) ==
  /\ InApplication(t) /\ ~allocator.held
  /\ IF gipa = None THEN NotLoaded(t)
     ELSE /\ \E ending \in Endings :
               /\ PanicAfter(ending, {"allocator"})
               /\ allocator' = [live |-> allocator.live \/ Made(ending, {"allocator"}) # {},
                                held |-> Got(ending, {"allocator"}) # {}]
          /\ UNCHANGED <<live, held, kind, maps, pointers, mappedData>>
  /\ UNCHANGED loaderVars

\* "Destroy all buffers/images created from it first."
DestroyAllocator(t) ==
  /\ InApplication(t) /\ allocator.held /\ Allocations = {}
  /\ allocator' = [live |-> FALSE, held |-> FALSE]
  /\ UNCHANGED <<live, held, kind, maps, pointers, mappedData, panic, loaderVars>>

\* An object of which VMA or the driver has made some handles, and the application
\* has got some.
Obtain(o, k, made, got) ==
  /\ live' = live \cup ({o} \X made)
  /\ held' = held \cup ({o} \X got)
  /\ kind' = [kind EXCEPT ![o] = IF made = {} THEN @ ELSE k]
  /\ mappedData' = [mappedData EXCEPT ![o] = IF made = {} THEN @ ELSE "unasked"]
  /\ UNCHANGED <<allocator, maps, pointers>>

\* createBuffer and createImage, with or without flags; these and the requested
\* usage decide the kind of memory, with the driver's heaps.
CreateResource(t, o) ==
  /\ InApplication(t) /\ allocator.held /\ ~Holds(o)
  /\ \E ending \in Endings, k \in MemoryKinds :
       LET asked == {"handle", "memory"}
       IN /\ PanicAfter(ending, asked)
          /\ Obtain(o, k, Made(ending, asked), Got(ending, asked))
  /\ UNCHANGED loaderVars

\* VMA destroys the handles that it is passed.
HandlesOf(o) == {h \in held : h[1] = o}

Destroy(o) == /\ live' = live \ HandlesOf(o)
              /\ held' = held \ HandlesOf(o)
              /\ UNCHANGED <<allocator, kind, maps, pointers, mappedData, panic, loaderVars>>

DestroyResource(t, o) ==
  InApplication(t) /\ o \in Allocations /\ pointers[o] = 0 /\ Destroy(o)

\* VMA counts maps; memory the host cannot see fails to map.
MapMemory(t, o) ==
  /\ InApplication(t) /\ o \in Allocations /\ maps[o] < MaxMaps
  /\ \E ending \in IF kind[o] = "hidden" THEN Endings \ {"success"} ELSE Endings :
       /\ PanicAfter(ending, {"pointer"})
       /\ maps' = [maps EXCEPT ![o] = IF Made(ending, {"pointer"}) = {} THEN @ ELSE @ + 1]
       /\ pointers' = [pointers EXCEPT ![o] = IF Got(ending, {"pointer"}) = {} THEN @ ELSE @ + 1]
  /\ UNCHANGED <<allocator, live, held, kind, mappedData, loaderVars>>

UnmapMemory(t, o) ==
  /\ InApplication(t) /\ o \in Allocations /\ pointers[o] > 0
  /\ maps' = [maps EXCEPT ![o] = @ - 1]
  /\ pointers' = [pointers EXCEPT ![o] = @ - 1]
  /\ UNCHANGED <<allocator, live, held, kind, mappedData, panic, loaderVars>>

\* VMA's pMappedData: the mapping that is there, whoever asked for it.
IsMapped(o) == maps[o] > 0 \/ kind[o] = "persistent"

GetAllocationInfo(t, o) ==
  /\ InApplication(t) /\ o \in Allocations
  /\ mappedData' = [mappedData EXCEPT ![o] = IF IsMapped(o) THEN "pointer" ELSE "null"]
  /\ UNCHANGED <<allocator, live, held, kind, maps, pointers, panic, loaderVars>>

-----------------------------------------------------------------------------
(* Surfaces *)

\* surfaceResult: the surface, if the driver has reported success.
SurfaceResult(result, surface) == IF result = "success" THEN surface ELSE {}

\* The instance may lack the extension, and the call may fail.
CreateSurface(t, o) ==
  /\ InApplication(t) /\ ~Holds(o)
  /\ IF gipa = None THEN NotLoaded(t)
     ELSE \/ UNCHANGED stackVars
          \/ /\ \E result \in Results :
                  LET surface == Made(result, {"handle"})
                  IN Obtain(o, "surface", surface, SurfaceResult(result, surface))
             /\ UNCHANGED panic
  /\ UNCHANGED loaderVars

CreateAndroidSurface(t) ==
  /\ InApplication(t)
  /\ Panic("not implemented")
  /\ UNCHANGED loaderVars

\* vkDestroySurfaceKHR, by the application itself.
DestroySurface(t, o) ==
  InApplication(t) /\ Holds(o) /\ kind[o] = "surface" /\ Destroy(o)

-----------------------------------------------------------------------------
Loading == /\ panic = "none"
           /\ ChangeLibraries \/ \E t \in Threads : LoaderStep(t)
           /\ UNCHANGED stackVars

Using(t) ==
  \/ CreateAllocator(t) \/ DestroyAllocator(t) \/ CreateAndroidSurface(t)
  \/ \E o \in Objects : \/ CreateResource(t, o) \/ DestroyResource(t, o)
                        \/ MapMemory(t, o) \/ UnmapMemory(t, o) \/ GetAllocationInfo(t, o)
                        \/ CreateSurface(t, o) \/ DestroySurface(t, o)

Ended == panic # "none" /\ UNCHANGED vars

Next == Loading \/ (\E t \in Threads : Using(t)) \/ Ended

Spec == Init /\ [][Next]_vars

-----------------------------------------------------------------------------
(* Properties *)

StackTypeOK ==
  /\ allocator \in [live : BOOLEAN, held : BOOLEAN]
  /\ live \subseteq Objects \X {"handle", "memory"} /\ held \subseteq Objects \X {"handle", "memory"}
  /\ kind \in [Objects -> MemoryKinds \cup {"none", "surface"}]
  /\ maps \in [Objects -> Nat] /\ pointers \in [Objects -> Nat]
  /\ mappedData \in [Objects -> {"unasked", "null", "pointer"}]
  /\ panic \in {"none", "not loaded", "not loaded after success", "null unwrapped",
                "not implemented"}

TypeOK == LoaderTypeOK /\ StackTypeOK

\* A thread that has seen loadBase succeed never panics for want of a loader,
\* whatever loads of other threads have failed since; and no result of the bridge,
\* an exception among them, makes a wrapper unwrap a null handle.
PanicsAreTheCallers == panic \notin {"not loaded after success", "null unwrapped"}

\* What VMA and the driver have made, handle by handle and map by map, is what the
\* application has got: whatever result or exception goes through the bridge,
\* nothing is made and lost on the way, and nothing is held that is not there.
OwnershipAgrees ==
  live = held /\ allocator.live = allocator.held /\ maps = pointers

\* "mapped_data is non-null only when the allocation was created with Flags.mapped."
MappedDataOnlyIfPersistent ==
  \A o \in Allocations : mappedData[o] = "pointer" => kind[o] = "persistent"
=============================================================================
