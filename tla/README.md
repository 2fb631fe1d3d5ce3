# TLA+ models of zig-cpp-vulkan-stack-adapter

This directory holds TLA+ specifications of the repository's own logic, TLC
configurations that model-check them, and proofs checked by TLAPS. Source paths
below are relative to the repository's root. Every definition that stands for
code is listed with its lines in `PROJECT.json` under `map`.

## 1. The system

The repository is two programs in one tree.

**The Vulkan stack** (`src/`, Zig and C++) is a thin library: it opens the Vulkan
loader, wraps VMA behind a C bridge, compiles GLSL through libshaderc, and creates
surfaces. It starts no thread; its hard parts are ownership on failure paths
and callbacks from foreign libraries.

**devops** (`tools/devops/`, Python) is the command line that contributors and
the scripts use: it builds a toolchain image, runs Zig in containers, logs every
line of their output, keeps or discards a cache volume, and cleans up. It has
threads, child processes, pipes, signals, and several processes that share a log
directory, container runtimes and cache directories.

| Component | Source | State it keeps | Operations | Hard behaviour |
|---|---|---|---|---|
| command runner, run log | `tools/devops/src/devops/run_log.py` | write lock, log file, two copying threads, interrupt count | `write_line`, `copy_stream_lines_to_run_log`, `wait_for_process_through_interrupts`, `run_command_with_timestamped_output` | three threads, full pipes, Ctrl-C at any point, a terminal or a log that fails, descendants that hold the pipes |
| run-log files | same, `open_run_log_file` | the log directory | exclusive create, next suffix, write | processes started in the same millisecond, logs of dead runs |
| CLI and toolchain | `cli.py`, `container.py` | image and cache volume per runtime, cache directories, the two pins of Zig, exit codes | `image build test zig ci tdd shell prune clean` | several processes, each step may fail, daemon outages, Ctrl-C between steps, pins edited under an existing image |
| zig cleanup | `zig_cleanup.py` | the paths selected so far | select, measure, remove | symlinks, `..`, all or nothing, a path that is replaced after it was checked |
| shaderc wrapper | `src/shaderc.zig` | library handles, include boxes | `compile`, `includeResolve`, `includeRelease` | any allocation fails, nested includes, foreign caller of the callbacks |
| VMA wrapper and bridge | `src/vma.zig`, `src/c/vma_bridge.cpp` | VMA's allocator and allocations | create, destroy, map, flush | exceptions across the C ABI, out-parameters after a failure |
| volk loader | `src/volk.zig` | one global function pointer, the open library | `loadBase`, `getInstanceProcAddr` | an unsynchronised test and set, several candidate names |
| surface creators | `src/root.zig` | none | one `create*Surface` per platform | loader not loaded, extension missing |
| instance and swapchain helpers | `src/instance.zig`, `src/swapchain.zig` | none yet | declared; each panics with "not implemented" | none yet |
| display dependencies | `scripts/install_display_deps.py` | the machine's packages | install, `--check-only`, `--vulkan-only` | installs that end half way and are tried again, a check by other means than the install's |
| CI gates, build graph, Dockerfile | `scripts/ci.sh`, `build.zig`, `build/`, `Dockerfile`, `.github/` | none | straight-line scripts and declarations | pins that must agree |

How they interact: every CLI process opens its own log (run-log files), passes it
as a `RunLog` to one subcommand (CLI), which runs zero or more commands through the
command runner, one after the other, and stops at the first that fails. `clean`
calls the zig cleanup before it touches the runtime. The stack is used by
applications only; its parts meet where VMA and the surface creators take
`vkGetInstanceProcAddr` from the volk loader.

What makes each component correct:

- runner: terminal and log agree; every line is logged once, in order, before the
  exit code is reported; the code is the child's; the child never blocks for ever
  on a full pipe as long as its copier lives; the call ends once nobody holds the pipes;
- log files: a run never writes to, or destroys, another run's log; opening ends;
- CLI: nothing happens after a failed step; the exit code is that of the last
  command; no container starts before its image is there; volumes change only
  for those who asked; `image` leaves the Zig of the pins;
- cleanup: one unsafe path stops everything; nothing outside the list is removed,
  whatever others put there meanwhile;
- display dependencies: a success means that the packages are there, and the check
  agrees with it;
- shaderc: no leak and no bad free on any path; no words from a shader whose
  includes were not had.

## 2. Modules

| Module | Models | Composes |
|---|---|---|
| `LoggedRun` | abstract promise of one command run | |
| `CommandRun` | the runner: main thread, two copying threads, lock, child, pipes, Ctrl-C | refines `LoggedRun` |
| `CommandRun_proofs` | proofs | `CommandRun`, TLAPS |
| `CommandRun_refinement` | proof that `CommandRun` implements `LoggedRun` | `CommandRun_proofs` |
| `PrivateLogs` | abstract promise: a log of one's own for each run | |
| `RunLogFile` | racing runs on the shared log directory | refines `PrivateLogs` |
| `RunLogFile_proofs` | proofs | `RunLogFile`, TLAPS |
| `FailFast` | abstract promise of a CLI process: commands in turn, stop at a failure, report the last code | |
| `Devops` | CLI processes over shared runtimes, volumes, directories, pins | refines `FailFast`; a `CommandRun` is one step, `ZigCleanup`'s verdict is `unsafe` |
| `Devops_proofs` | proofs | `Devops`, TLAPS |
| `ZigCleanup` | selecting and removing cache paths while others change them | |
| `ZigCleanup_proofs` | proofs | `ZigCleanup`, TLAPS |
| `DisplayDeps` | the display installer's calls on one machine | |
| `DisplayDeps_proofs` | proofs | `DisplayDeps`, TLAPS |
| `Shaderc` | one `compile` call and its include callbacks | |
| `Shaderc_proofs` | proofs | `Shaderc`, TLAPS |
| `Volk` | threads that load the Vulkan loader | |
| `VulkanStack` | an application's threads, VMA objects and surfaces | extends `Volk` |
| `VulkanStack_proofs` | proofs | `VulkanStack`, TLAPS |
| `MC*` | model values and bounds for TLC | the module named |

### CommandRun

`pc` is the main thread's place in `run_command_with_timestamped_output`;
`writer[w]` is where the main thread and each copying thread stand inside or
outside `write_line` (`waiting` for the lock, before the write to the `terminal`,
before the write to the `log`). A line is identified by its stream and number; its
bytes do not matter to the properties. `copied` and `written` count lines on each
side of a pipe, so their difference is what the pipe holds.

- `Acquire`, `WriteTerminal`, `WriteLog` are the three steps of `write_line`.
  Between any two of them, other threads move. A write to a sink that fails (either stream of
  the terminal, or the log: `broken`), or to a log that unwinding has closed, is
  `Raise`: the lock is released; a copying thread is gone, and its pipe is drained no
  more; the main thread unwinds to `cli.main`, whose `with` closes the log. `out` lines go to
  stdout, all others to stderr, the lines of the main thread among them.
- `Spawn` has the three outcomes of `Popen`: a child; `FileNotFoundError`, answered
  by 127; another `OSError`, which leaves the function.
- `Interrupt` is Ctrl-C. Python delivers it to the main thread. It is caught only
  inside `process.wait()`; anywhere else it unwinds to `cli.main`, whose `with`
  closes the log. `Popen.wait` gives the child a moment before it re-raises the
  first one: that is `brief`, external code that the source relies on.
- `Exit`, `Write`, `Background`, `Break` are the environment. A sink that fails keeps failing. `Background`
  is a descendant of the child that inherits both pipes and outlives it.

Whether the child itself dies of the same Ctrl-C is its own choice (`Exit`).

### RunLogFile

A name is `<<stem, n>>`; the stem stands for the start millisecond and the
subcommand, so runs with the same stem collide. The exclusive create of the file
system is the one atomic step. `End` is enabled everywhere: returning, being
killed and crashing look alike, for nobody cleans a log up.

### Devops

`pc[p]` names the next call of process `p`. The module has three layers, as the
code has:

- the command lines (`BuildArguments`, `ContainerArguments`, `ChownArguments`, ...): of
  each, the parts that a runtime acts upon, namely the verb, the user, whether the
  cache volume is mounted, what runs inside, and the Zig version of a build;
- the runtimes (`MaySucceed`, `Affects`), external: any command may fail; some
  must, for instance everything while the daemon is down, a container without its image,
  or the removal of a volume in use. A failed container may have created its volume;
- the subcommands (`Start` to `RemoveVolume`). A command that goes through the runner
  is one action that yields any of `ReturnCodes`; the container of `build`, `zig`,
  `ci`, `tdd` and `shell` is two, since others may move while it runs.

`build`, `test`, `tdd` and `zig` differ in the arguments they put after the flag only,
so `zig` stands for the four of them. `Start` has the ways in which `main`
ends before there is a log: usage, an unknown subcommand, no repository root.
`pins` is what `.zig-version` and the Dockerfile name; `Edit` changes it between runs
of the CLI. `unsafe` chooses whether the cleanup would refuse, which `ZigCleanup`
decides in detail. `codes[p]` are the exit codes of the commands so far, in order.

`ImplementsFailFast` is the sentence of `cli.py:3-4` as a refinement. The
code of the shell, which does not go through the runner, is compared after the
conversion that the others' codes have had.

### ZigCleanup

Paths are sequences of `Names` from the root of the file system. `tree` and `link` are
a small file system; `Resolve` is `Path.resolve` on it, one `Follow` per name.
`resolvedRoot` is taken once, as in the code. `Examine` is one turn of
the selection loop, `RemoveTree` and `RemoveFails` one turn of the removal loop (the
measuring of sizes only prints). `Others` is a build or a user who makes, removes or
relinks a cache directory between any two turns, but not a directory that a candidate's
path leads through. `rmtree` refuses a symlink, so a path
that has become one after its check stops the removal; `removed` records what the
call has taken. `WorldAssumption` says what a file system is like: a directory's parents
exist, and a symlink's final target has no symlink on its way.

### DisplayDeps

The script's calls follow one another on one machine (`host`), whose `installed`
packages outlive them. `Update`, `Install` and `InstallFails`, `Verify`, `Macos` and
`Check` are the steps of `main` and what it calls; an uncaught `FileNotFoundError` ends
a call with 1 as Python does. `apt-get install` is external: it installs all it was given, or
fails with any part of it done. `Purge` is somebody who removes a package between
two calls. `promised` holds the packages that a Linux install which ended with 0 stands for;
a purge takes from it, the calls only add.

### Shaderc

`handles` are library objects, `deferred` those whose `defer` the call has passed: `Take` is
a handle and the line after it, `Return` runs what has been registered by then and nothing else.
`live` are the blocks of the caller's allocator, each tagged with the include it belongs to.
`IncludeResolve` goes through `Allocations` in order; the first `n` succeed, `FailedAt` is the
next, and `FreedOnReturn` lists the frees of the path that is taken then. A
release of what is not alive sets `badFree`. libshaderc is external: it resolves
includes nested, releases the innermost first, and all of them before it returns; it
may go on to further includes after one that could not be had.
`Static` is `oom_result`. Options that are handed through do not appear.

### Volk and VulkanStack

`Volk` is the search of `loadBase`: each thread tests `gipa`, opens the candidate
names in order, closes a library that lacks the symbol, keeps the first that has it
and then sets `gipa`. Each of these is a step of its own, since nothing locks
them. The pointer is one machine word, so a racing read sees the old or the new
value; `lib` and `module`, which are only ever written, are left out. `installed` may
change while a search runs. `windows` picks the backend: one name, and no close.

`VulkanStack` is an application on top of it. `getInstanceProcAddr` panics without
a loader; so do `createAllocator` and the surface creators, which call it. A call through the
bridge has three layers: how VMA ends (`Endings`: a result or an exception) and what it has `Made`
by then; what the bridge returns (`ResultOf`) and writes to the out-parameters (`Written`); and
what the wrapper makes of both (`IsOk`, `UnwrapsNull`, `Got`): an error, a panic or the handles.
`live` and `maps` are VMA's and the driver's side, `held` and `pointers` the
application's, handle by handle; a buffer's or image's two handles cross the bridge
separately, and only the allocation is unwrapped. `unknown` stands for every other `VkResult`. `flushAllocation`, `invalidateAllocation`, `loadInstance` and
`loadDevice` change nothing and are left out. The application is assumed to
follow the documented order of calls: the library does not check it.

## 3. Runs

| Run | Question | Instance |
|---|---|---|
| `command_run` | does a run keep its promise under all interleavings? | 2 lines per stream, pipes of 1 line, 2 Ctrl-C, codes 0 and -2, stdout, stderr and the log may each begin to fail |
| `command_run_second_interrupt` | does a second Ctrl-C kill the child? (no) | as `command_run`, no sink fails |
| `run_log_file` | are logs private under any race? | 3 runs, 2 stems, up to 2 earlier files per stem, 2 lines |
| `devops` | failures, exit codes, image and volume with two processes | 13 invocations (every subcommand, good and bad arguments), good and bad pins, 1 outage, 1 Ctrl-C |
| `devops_serial` | what a successful `clean`, `image` and successful set-ups guarantee | 3 processes in turn, 2 directories, 1 edit of the pins, 1 Ctrl-C |
| `devops_volume_owner` | is a kept volume always the host user's? (no) | 2 processes in turn |
| `devops_log_end` | does every log end with its exit code, if nobody presses Ctrl-C? (no) | `clean` beside a build |
| `zig_cleanup` | does the selection refuse exactly the unsafe lists? | all lists of up to 2 of 16 paths, 2 roots, 8 trees and link sets, 2 changes by others |
| `shaderc` | who owns what after `compile`? | 4 includes, nested up to 3 |
| `vulkan_stack` | does the loader survive races, and does nothing leak or unwrap null? | 2 threads, 2 objects, 2 names, 1 change of the libraries, 2 nested maps |
| `vulkan_stack_mapped_data` | is `mapped_data` set for `Flags.mapped` only? (no) | as `vulkan_stack` |
| `display_deps` | does a success of the installer mean what it says? | 3 calls, 1 package removed by others, Linux with 20 kinds of machine per architecture, 9 others |

Why the bounds are enough. A pipe of capacity 1 with two lines is full, drained and
refilled on each stream, so that writer and reader each wait for the other. Two
presses of Ctrl-C reach the kill; the second may come at any place after the first. Two
lines per stream are the fewest that can be reordered. Three runs on two stems
give a collision of three, a collision of two beside a stranger, and none; two earlier
files force a suffix above 2. Two CLI processes suffice for a race over a shared
volume or image; three in turn suffice for "made, spoiled, used", and one edit of the
pins between them for an image that has become stale. Two candidate
paths let an unsafe path stand before and after a safe one; two changes by others turn a
directory into a link and back, or two of them. Three calls of the installer are a
half-done one, one that mends it, and a check; the package that is removed may be one
that either has put there. Nesting of three
lets an allocation fail with open includes above and below it. Two threads are
what a test and set without a lock takes; with two names a library without the
symbol stands before one that has it, or after nothing; one change of the libraries makes a
later search end otherwise than an earlier one. Two objects let one outlive the other.

In `command_run` a sink may fail at any step, also between the two writes of one line. A
failing stderr or log reaches the main thread at its own next line at the latest, so such
a call unwinds and reports nothing. Only a failing stdout leaves a run that reports a code and
has lost lines (`Lost`): for the refinement it counts as one that has not reported.
`FullPipeIsDrained` exempts a stream whose own sinks fail (its terminal stream, or the log),
because there the code gives no guarantee: the copying thread is gone, a child that writes on
blocks on the full pipe, and `process.wait` with it. The other stream is drained still.
`RunEndsAfterChild` covers all of it: once nobody holds the pipes, the call ends. A code of 0
lies where the conversion of codes begins, and -2 is a child that Ctrl-C ended;
other codes differ from these in nothing that a step looks at.

`devops` and the other runs of that module take permutations of the processes as
symmetry, and `vulkan_stack` those of the threads and of the objects; none of their properties is a liveness property, and no definition
distinguishes one of them from another.

Fairness. `CommandRun` assumes weak fairness of the main thread and of each of
the two copying threads: the operating system schedules runnable threads. Nothing
is assumed of the child, of its descendants or of the user. `WF` on the copying
thread suffices for the lock, as no thread keeps it for ever and each writes a
bounded number of lines. `RunEndsAfterChild` is therefore stated from the moment
nobody holds the pipes: the code indeed waits as long as somebody does.
`RunLogFile` assumes weak fairness of the opening loop of each run. `Devops`,
`ZigCleanup`, `DisplayDeps`, `Shaderc` and `VulkanStack` are checked for safety only.

Each property of each passing run has a mutant in `PROJECT.json`: a definition
changed as a plausible bug would change it, under which TLC finds the property
violated.

## 4. Where code and documents disagree

The runs that end in a violation each check a sentence of the repository:

1. "A second Ctrl-C kills the child" (`run_log.py:128`): if it arrives within
   the moment `Popen.wait` gives the child after the first, the two are counted as
   one and the child goes on.
2. "Hand it to the host user once, as root, so zig can write"
   (`container.py:210`): the volume is reused whenever it exists. After a chown that failed,
   or a set-up that was interrupted, or a run with `CONTAINER_AS_ROOT`, it stays
   root-owned until `clean`.
3. "The log ends with the command line, exit code, and duration"
   (`tools/devops/README.md:62`): `clean` measures a directory outside its `try`; a
   file that vanishes under it raises through `main`.
4. "`mapped_data` is non-null only when the allocation was created with
   `Flags.mapped`" (`vma.zig:99`, also `docs/api.md:155`): VMA reports the
   mapping there is, so an allocation under `mapMemory` has one too, until `unmapMemory`.

Seen in the same models, without a run of their own:

- `run_log.py`: a second Ctrl-C inside the handler of the first leaves the call with
  the child running; a Ctrl-C after the wait closes the log under a copying thread, whose
  next line reaches the terminal only; after stdout breaks, the rest of that
  stream is in neither place though the run reports the child's code; after any sink of a stream
  breaks, nobody drains its pipe, and a child that goes on writing hangs, and the wait with it.
- `cli.py`: the shell returns a raw negative code, where `tools/devops/README.md:62` says
  "A child killed by signal N exits with 128 + N"; `clean` looks for the volume only
  at the runtime that answers at that moment, so a volume made at the other one
  survives; `clean` also removes `zig-pkg/`, which its texts (`cli.py:281`, `cli.py:336`)
  do not name; an image that exists is used by `build`, `test`, `zig`, `ci`, `tdd` and
  `shell` whatever the pins say by then, and the pins' agreement is not looked at either.
- `container.py:195`: a check for the volume that fails counts as "no volume". If the
  daemon goes down after `clean` has found it and is back for the prune, the volume stays
  and `clean` exits with 0. `CleanLeavesNoCache` therefore allows one outage, after which the
  prune fails; `devops_serial` runs without outages, and the proof covers this one.
- `zig_cleanup.py`: a candidate above a protected directory, such as `cache`, is not
  refused, and `cache/logs/` would go with it. The only caller passes three names
  that hold no protected directory; `ProtectedStay` says exactly that much.
- `shaderc.zig:87` says of `OutOfMemory` "Allocation of the result (or an internal
  buffer) failed"; in an include callback it comes back as `ShaderCompilationFailed`.
- `install_display_deps.py`: its docstring gives 1 for a failed install (line 14), but a
  failed `brew install` and an unknown platform end with 0 and "ok: display-deps"; after
  `--vulkan-only`, nothing is verified, and the ICD never is; without `vulkaninfo` the check
  for "at least one Vulkan ICD" accepts a loader that has none.

## 5. Proofs

TLAPS checks, for every value of the constants that the named assumptions allow:

- `CommandRun_proofs`: `TypeCorrect`, `ScreenAndLogAgree` (`[]ScreenMatchesLog`),
  `ExitCodeIsHonest`, `KillsAreAskedFor` and `LogsAreFramed`.
  `ScreenMatchesLog` speaks only of moments when the lock is free, and is not
  inductive. The strengthening `IInv` says what holds inside: the lock's owner, and
  nobody else, is between acquiring and releasing; and while the log is open the
  screen is the log, or the log with the owner's line appended if the owner has written
  to the terminal and not yet to the log. It needs that the line a thread is
  writing does not change while it writes it. It also covers a main thread that
  a Ctrl-C or a failing sink throws out of `write_line`: from then on the log is closed. It
  says nothing of a log that fails: the screen then keeps a line that the log lacks.
  `KillsAreAskedFor` assumes that the child does not exit with SIGKILL of its own
  (`Sigkill \notin ReturnCodes`), or a kill could not be told from an exit.
  `LogsAreFramed` says that a log begins with the command's line and that nothing follows an
  exit line. It rests on where the main thread is: it writes the exit line only
  after both copying threads are gone, and nobody writes after it.
- `CommandRun_refinement`: `Refinement` (`ImplementsLoggedRun`), for any number of
  lines, pipes of any capacity and Ctrl-C at any time. `OrderInv` says that the n-th line of
  a stream in the log is the stream's line n; `CopyInv` that a copying thread has
  logged what it has read, but for the line it is at, and that one which is gone has seen the end
  of its pipe or a sink that failed; `CodeInv` that a code is set only when nobody can
  write any more and all of it is in the log. `OrderInv` alone is not inductive: that
  the next line has the next number comes from `CopyInv`. Logging a line is then `Record`, the
  last holder of the pipes letting go is `End`, the join or a program that was not found is
  `Report`, and everything else a stutter; a sink that fails after the
  report has lost nothing.
- `RunLogFile_proofs`: `TypeCorrect`, `LogsAreOwned` (`[]OneLogPerRun`),
  `SuffixesHaveNoGaps` (`[]NoSuffixGaps`), `LinesAreNotMixed` (`[]NoMixedLines`), `NothingIsLost`
  (`LinesAreKept`) and `Refinement` (`ImplementsPrivateLogs`), for any number of
  runs, stems and earlier files. The invariant adds to the checked ones that a run has
  tried every smaller suffix and found it taken, and that a run which is opening
  owns no file; without the first a gap could appear, without the second the
  refinement mapping would jump.
- `VulkanStack_proofs`: `TypeCorrect`, `PointerStaysBacked` (`[]PointerIsBacked`),
  `NothingLeaks` (`[]NoLibraryLeaks`), `PanicsAreJustified` (`[]PanicsAreTheCallers`) and
  `OwnershipStays` (`[]OwnershipAgrees`), for any number of threads, names and objects.
  That some thread has the pointer's library open is not inductive, since the thread might
  be about to close it. The invariant says that one which has left `loadBase` has it
  open, and that nobody who has left enters the search again once the pointer is set; that a
  searching thread has the library it is at open; and that every open library
  is the one its thread is at. The panics need the loader's part: who has seen success
  finds the pointer set. Ownership rests on `CallsAgree`: whatever a call of VMA ends
  in, the wrapper hands out what VMA has made, and finds no null in what it unwraps.
- `Devops_proofs`: `TypeCorrect`, `Refinement`
  (`ImplementsFailFast`), `ImageComesFirst` (`[]ImageIsReadyBeforeUse`), `VolumesAreAskedFor`
  (`VolumeChangesAreAskedFor`) and `ImageIsUpToDate` (`ImageFollowsThePins`), for any
  number of processes and any invocations; `OwnedAfterSetups` (`[]OwnedWhenSetupsComplete`) and
  `CleanIsClean` (`CleanLeavesNoCache`), for any number of processes in turn: both
  assume `Serial`, and another process beside this one can break them.
  `StepsAreMoves` first reduces the thirty actions to six
  kinds of move; the arguments after it are about those. `FailInv` says
  that a process which has not returned has had no failure, and that one which has
  returned after a command holds the last code. `WorldInv` says who can be at a step
  that needs the image or changes the volume, and that no step takes an image away. `PinsInv`
  says that an `image` process past its build has left the Zig of both pins there; it
  survives other processes, because the pins are only edited while none runs, and each build
  takes its version from them. `TypeInv` adds what is selected, and that codes other than the
  shell's are converted. `OwnInv`: as long as nothing has failed, a volume is root's only
  while its process stands before the chown. That is where the property is not inductive: the
  container alone does not say how the volume it finds came to be. `EmptyInv` says of
  each step of `clean` what is gone by then; during the removal, that all that is left is
  still on the list, which comes from `SelectedAreThere`; and after a check that an outage has
  misled, that the runtime stays down, so that the prune cannot succeed.
- `ZigCleanup_proofs`: `UnsafeAreRefused` (`[]RefusesExactlyTheUnsafe`),
  `OnlyCandidatesAreRemoved` (`[]RemovesOnlyCandidates`), `EveryCandidateGoes`
  (`[]DoneRemovesAll`) and `ProtectedAreKept` (`[]ProtectedStay`), for lists of any length,
  paths of any depth, any trees and links that `WorldAssumption` allows, and any number of
  changes by others. The code decides on a path whose parent is resolved; the docstring speaks
  of where the candidate leads. `RefusalIsRight` shows that the two agree, from `ResolveReal`:
  a resolved path has no symlink on it, so a last name that is kept changes it only if it is a
  symlink itself. `CleanInv` says that the candidates before `next` were safe, or the
  selection has been refused (`SafeSoFar`, while nobody interferes); that whatever is
  selected or removed has passed the checks, which hold of the path and not of what is there
  (`SelectedPassed`, `RemovedPassed`): so they survive `Others`; and that each examined candidate
  is selected still, or was not there, or is gone, alone or with a candidate above it
  (`AllAccounted`).
- `DisplayDeps_proofs`: `TypeCorrect`, `SuccessIsHonest` (`[]SuccessMeansInstalled`) and
  `CheckAgrees` (`[]CheckAgreesWithInstall`), for any set of machines. An install between
  its last command and its verification already has what it wanted; and the check asks
  only for what the full list brings, whichever of its two ways it takes.
- `Shaderc_proofs`: `NothingLeaks` (`[]NoLeak`), `HandlesComeBack` (`[]HandlesReleased`), `FreesAreGood`
  (`[]NoBadFree`), `IncludesStayAlive` (`[]OpenIncludesAreAlive`) and `WordsAreWhole`
  (`[]WordsNeedAllIncludes`), for any number of includes nested to any depth. The
  properties speak of the return; `BlocksInv` says in between that the stack owns
  the blocks: each include is on it once, has its parts, and nothing alive belongs to one
  that is not there. So an empty stack, which `shaderc_compile_into_spv` returns with,
  means that nothing is alive. `ResolveOutcome` goes through the places where an allocation
  of an include can fail: what succeeded before is freed, and nothing else. `DefersInv` says that the handles taken are
  those whose release is registered. `StatusInv` says that a failure in a callback is known to
  libshaderc, which then reports no success.

Each is proved as `Init => IInv`, `IInv /\ [Next]_vars => IInv'`, and a consequence;
the step has one case per action. Assumptions used: `BoundsAssumption`,
`CodesAssumption` (return codes in -64..255), `RunsAssumption`, `LoaderAssumption` (there is
a name to try), `DirectoriesAssumption`, and of `ZigCleanup` `InputsAssumption`,
`WorldAssumption` and `NamesAssumption`. TLC evaluates them in every run of those modules.

Two definitions compute by recursion over their input: `Resolve`, name by name, and
`Selected`, directory by directory. Both are recursive functions, and what holds of all their
values is shown by an induction in set form. `LeastNumber` (from the library's `WFMin`) and
`SetInduction` take the set of the numbers up to which a claim holds, where the library's
own rule takes the claim as a predicate.
`WalkExists` and `LoopExists` show that the recursion defines a function at all.

Only model-checked: liveness (`FullPipeIsDrained`, `RunEndsAfterChild`, `OpenEnds`), which is
out of the prover's reach as it needs ENABLED. Every other property of a passing run is
proved.

## 6. Not modelled

- Bytes: decoding, timestamps, the splitting of a text into lines, usage texts. The
  clock is read before the lock is taken, so stamps in a log need not be sorted;
  no document says that they are.
- Changes by others to anything but the cache directories during a `clean`: the
  parents of the candidates stay as they are. The CLI's own three candidates have the
  repository root as parent.
- Edits of the pins while the CLI runs.
- libshaderc, VMA, drivers and container runtimes beyond what the code relies on. A VMA
  call that fails or throws is taken to have made nothing, and VMA's destroy,
  unmap and query functions not to throw: the bridge has no `try` around them.
- A sink that recovers, a write of which a part gets through, and a log whose `close` fails.
- An application that breaks the documented order of calls.
- The instance and swapchain helpers, which are not implemented, and the
  declarative parts (build graph, Dockerfile, workflow).
- The effect of `PATH`, of `IMAGE` and of other environment variables that change while a
  program runs.

## 7. Plan

Done, in this order: `CommandRun` with `LoggedRun` (the core: threads, signals,
pipes); `RunLogFile` with `PrivateLogs`; their proofs; `Devops`; `ZigCleanup`; `Shaderc`;
`Volk` and `VulkanStack`, with their proofs; `DisplayDeps` with its proofs; `Devops` with
command lines, pins and `FailFast`, with its proofs; others' changes in `ZigCleanup`;
the proofs about `Shaderc` and the rest of `CommandRun`'s invariants, and that `CommandRun`
implements `LoggedRun`; the proofs about `ZigCleanup`, and those about `Devops` that need
processes in turn.

Next, to extend the model:

1. `Devops` with `ZigCleanup`'s selection composed in place of `unsafe`.
2. `VulkanStack` with `Shaderc` beside it, and an abstract owner table that it refines.

Next, to prove more: that `VulkanStack` refines an owner table, and what the compositions
above would add.
