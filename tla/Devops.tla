------------------------------- MODULE Devops -------------------------------
(***************************************************************************)
(* The subcommands of the devops CLI (cli.py, container.py): processes     *)
(* that share the container runtimes' images and cache volumes and the     *)
(* repository's cache directories and Zig pins.  A command that the CLI    *)
(* runs is one step here (CommandRun has its inside); the container it     *)
(* leads up to is two, since others may move while it runs.  Pc names the  *)
(* call a process makes next.                                              *)
(***************************************************************************)
EXTENDS Integers, Sequences

CONSTANTS
  Processes,      \* CLI processes
  Invocations,    \* [sub, args, asRoot]: subcommand, arguments, CONTAINER_AS_ROOT
  Pins,           \* <<.zig-version, Dockerfile's first ARG ZIG_VERSION>>; "none": no such file
  Directories,    \* the cache directories, in the order clean goes through them
  ReturnCodes,    \* what a command may report; 0 is success, -N a signal
  Serial,         \* one process at a time, or any interleaving
  MaxEdits,       \* bound: edits of the pins
  MaxOutages,     \* bound: times a runtime's daemon goes down or comes up
  MaxInterrupts   \* bound: Ctrl-C that no command waits through

Keep == "--keep-cache"
Gates == {"check", "clang-format", "shaderc", "device-tests"}
Runtimes == {"docker", "podman"}

ASSUME InvocationsAssumption ==
  \A call \in Invocations : /\ call.sub \in STRING
                            /\ call.args \in Seq(STRING) /\ call.asRoot \in BOOLEAN
ASSUME DirectoriesAssumption == Directories \in Seq(STRING)
ASSUME BoundsAssumption == /\ {MaxEdits, MaxOutages, MaxInterrupts} \subseteq Nat
                           /\ Serial \in BOOLEAN /\ 0 \in ReturnCodes
                           /\ ReturnCodes \subseteq -64..255

VARIABLES
  pc, call,          \* per process: next step; its Invocation
  binary, selected,  \* per process: the runtime it uses; directories left to remove
  codes, exitCode,   \* per process: exit codes of its commands; its own
  image, volume,     \* per runtime: Zig of the image, or "none"; "absent", or the volume's owner
  directories,       \* the cache directories that exist
  unsafe,            \* clean's selection would refuse a path (see ZigCleanup)
  pins,              \* the two pins
  up,                \* runtimes whose daemon answers
  edits, outages, interrupts

perProcess == <<pc, binary, selected, codes, exitCode>>
world == <<image, volume, directories>>
env == <<unsafe, pins, up, edits, outages, interrupts>>
vars == <<perProcess, call, world, env>>

NoCode == -100
SetupError == 1
UsageError == 2
Subcommands == {"image", "zig", "ci", "shell", "prune", "clean"}
Idle == {"idle", "done", "crashed"}

Init == /\ pc = [p \in Processes |-> "idle"]
        /\ call \in [Processes -> Invocations]
        /\ binary = [p \in Processes |-> "docker"]
        /\ selected = [p \in Processes |-> <<>>]
        /\ codes = [p \in Processes |-> <<>>]
        /\ exitCode = [p \in Processes |-> NoCode]
        /\ image = [b \in Runtimes |-> "none"]
        /\ volume = [b \in Runtimes |-> "absent"]
        /\ directories = {}
        /\ unsafe \in BOOLEAN /\ pins \in Pins
        /\ up \in SUBSET Runtimes
        /\ edits = 0 /\ outages = 0 /\ interrupts = 0

-----------------------------------------------------------------------------
(* Arguments *)

\* split_keep_zig_cache_flag: leading flags only.
KeepsCache(c) == c.args # <<>> /\ Head(c.args) = Keep

\* The arguments after the leading flags.
Rest(c) == LET first == CHOOSE i \in 1..Len(c.args) + 1 :
                          /\ \A j \in 1..i - 1 : c.args[j] = Keep
                          /\ i = Len(c.args) + 1 \/ c.args[i] # Keep
           IN SubSeq(c.args, first, Len(c.args))

TakesNothing(c) == c.sub \in {"image", "prune", "clean"} /\ c.args = <<>>
ShellArgumentsOk(c) == c.sub = "shell" /\ Rest(c) = <<>>
CiArgumentsOk(c) == c.sub = "ci" /\ (Rest(c) = <<>> \/ \E g \in Gates : Rest(c) = <<g>>)
ZigArgumentsOk(c) == c.sub = "zig"

ArgumentsOk(c) == \/ TakesNothing(c) \/ ShellArgumentsOk(c)
                  \/ CiArgumentsOk(c) \/ ZigArgumentsOk(c)

\* Only run_command_in_container and the shell look at the flag.
Keeps(p) == call[p].sub \in {"zig", "ci", "shell"} /\ KeepsCache(call[p])

-----------------------------------------------------------------------------
(* The command lines, with what the runtimes and the properties look at *)

Run(user, mounts, program) ==
  [verb |-> "run", user |-> user, mounts |-> mounts, program |-> program]

\* The run settings: the container's user, and whether it keeps the cache.
Settings(p) == [user |-> IF call[p].asRoot THEN "root" ELSE "user", keep |-> Keeps(p)]

BuildArguments == [verb |-> "build", version |-> pins[1]]
ContainerArgumentsMounting(p) == Run(Settings(p).user, TRUE, "command")
ContainerArguments(p) == Run(Settings(p).user, Settings(p).keep, "command")
VolumeCreateArguments == [verb |-> "volume create"]
VolumeRemoveArguments == [verb |-> "volume rm"]
ChownArguments == Run("root", TRUE, "chown")
SizeArguments == Run("root", TRUE, "du")
PruneImagesArguments == [verb |-> "image prune"]
PruneBuilderArguments == [verb |-> "builder prune"]
SummaryArguments == [verb |-> "image inspect"]

-----------------------------------------------------------------------------
(* The container runtimes, which the code relies on *)

\* A container that mounts an absent volume creates it, root-owned, as `volume
\* create` does.
Mounted(b) == IF volume[b] = "absent" THEN [volume EXCEPT ![b] = "root"] ELSE volume

UsesVolume(p) == pc[p] = "running" /\ ContainerArguments(p).mounts
InUse(b) == \E p \in Processes : binary[p] = b /\ UsesVolume(p)

\* Any command may fail, these must: what the daemon or the image is missing for,
\* removing a volume that is absent or in use, chown by anybody but root.
MaySucceed(b, line) ==
  /\ b \in up
  /\ line.verb = "run" => image[b] # "none" /\ (line.program = "chown" => line.user = "root")
  /\ line.verb = "volume rm" => volume[b] # "absent" /\ ~InUse(b)

\* A container that fails may have mounted its volume.
Affects(b, line, rc) ==
  /\ image' = IF line.verb = "build" /\ rc = 0 THEN [image EXCEPT ![b] = line.version] ELSE image
  /\ volume' \in
       CASE line.verb = "volume create" /\ rc = 0 -> {Mounted(b)}
         [] line.verb = "volume rm" /\ rc = 0 -> {[volume EXCEPT ![b] = "absent"]}
         [] line.verb = "run" /\ line.mounts /\ b \in up ->
              IF rc # 0 THEN {volume, Mounted(b)}
              ELSE {IF line.program = "chown" THEN [volume EXCEPT ![b] = "user"] ELSE Mounted(b)}
         [] OTHER -> {volume}
  /\ UNCHANGED directories

-----------------------------------------------------------------------------
(* Control *)

ExitCodeUnconverted(rc) == rc
ExitCodeOf(rc) == IF rc < 0 THEN 128 - rc ELSE rc

Goto(p, step) == pc' = [pc EXCEPT ![p] = step] /\ UNCHANGED exitCode

ReturnLosingCode(p, code) == /\ pc' = [pc EXCEPT ![p] = "return"]
                             /\ exitCode' = [exitCode EXCEPT ![p] = 0]

\* The subcommand returns `code` to main.
Return(p, code) == /\ pc' = [pc EXCEPT ![p] = "return"]
                   /\ exitCode' = [exitCode EXCEPT ![p] = code]

GoesOnAlways(code) == TRUE
GoesOn(code) == code = 0

\* One command through run_command_with_timestamped_output: its exit code is
\* logged; the next step is taken only if it is 0, else the code is returned.
Command(p, at, line, step) ==
  /\ pc[p] = at
  /\ \E rc \in ReturnCodes :
       /\ rc = 0 => MaySucceed(binary[p], line)
       /\ codes' = [codes EXCEPT ![p] = Append(@, ExitCodeOf(rc))]
       /\ IF GoesOn(ExitCodeOf(rc)) THEN Goto(p, step) ELSE Return(p, ExitCodeOf(rc))
       /\ Affects(binary[p], line, rc)
  /\ UNCHANGED <<binary, selected, call, env>>

\* A step of the Python code itself.
Step(p, at, step) == /\ pc[p] = at /\ Goto(p, step)
                     /\ UNCHANGED <<binary, selected, codes, call, world, env>>

Returns(p, at, code) == /\ pc[p] = at /\ Return(p, code)
                        /\ UNCHANGED <<binary, selected, codes, call, world, env>>

\* find_repository_root: both files with the pins are there.
HasRoot == "none" \notin {pins[1], pins[2]}

\* main before the log is open: usage and a missing root end it at once.
EarlyCode(p) == CASE call[p].sub \in {"-h", "--help"} -> 0
                  [] call[p].sub \notin Subcommands -> UsageError
                  [] OTHER -> SetupError

Start(p) ==
  /\ pc[p] = "idle"
  /\ Serial => \A q \in Processes : pc[q] \in Idle
  /\ IF call[p].sub \in Subcommands /\ HasRoot
     THEN Goto(p, "arguments")
     ELSE /\ pc' = [pc EXCEPT ![p] = "done"]
          /\ exitCode' = [exitCode EXCEPT ![p] = EarlyCode(p)]
  /\ UNCHANGED <<binary, selected, codes, call, world, env>>

CheckArguments(p) ==
  IF ArgumentsOk(call[p])
  THEN Step(p, "arguments", IF call[p].sub = "clean" THEN "select" ELSE "detect")
  ELSE Returns(p, "arguments", UsageError)

AfterDetectOthers(p) == CASE call[p].sub = "prune" -> "prune_images"
                             [] call[p].sub = "clean" -> "volume_check"
                             [] OTHER -> "image_check"
AfterDetect(p) == IF call[p].sub = "image" THEN "build" ELSE AfterDetectOthers(p)

\* Docker if its daemon answers, else podman, else ContainerSetupError.
Detect(p) ==
  /\ pc[p] = "detect"
  /\ IF up = {} THEN Return(p, SetupError) /\ UNCHANGED binary
     ELSE /\ binary' = [binary EXCEPT ![p] = IF "docker" \in up THEN "docker" ELSE "podman"]
          /\ Goto(p, AfterDetect(p))
  /\ UNCHANGED <<selected, codes, call, world, env>>

\* main: the closing lines, and the return.
Finish(p) == Step(p, "return", "done")

-----------------------------------------------------------------------------
(* The image *)

AfterImage(p) == IF call[p].sub = "image" THEN "prune_images"
                 ELSE IF Keeps(p) THEN "volume_ready" ELSE "run"

CheckImage(p) ==
  Step(p, "image_check", IF binary[p] \in up /\ image[binary[p]] # "none" THEN AfterImage(p) ELSE "build")

PinsDiffer(p) == pins[1] # pins[2] /\ Returns(p, "build", SetupError)

Build(p) == pins[1] = pins[2] /\ Command(p, "build", BuildArguments, AfterImage(p))

-----------------------------------------------------------------------------
(* The cache volume *)

VolumeIsPresent(p) == binary[p] \in up /\ volume[binary[p]] # "absent"

ReadyVolume(p) == Step(p, "volume_ready", IF VolumeIsPresent(p) THEN "run" ELSE "volume_create")

AfterCreateUnowned(p) == "run"
AfterCreate(p) == IF Settings(p).user = "root" THEN "run" ELSE "chown"

CreateVolume(p) == Command(p, "volume_create", VolumeCreateArguments, AfterCreate(p))

ChownVolume(p) == Command(p, "chown", ChownArguments, "run")

-----------------------------------------------------------------------------
(* The container of build, test, zig, ci, tdd and shell *)

StartContainer(p) ==
  /\ pc[p] = "run" /\ binary[p] \in up /\ image[binary[p]] # "none"
  /\ volume' = IF ContainerArguments(p).mounts THEN Mounted(binary[p]) ELSE volume
  /\ Goto(p, "running")
  /\ UNCHANGED <<binary, selected, codes, call, image, directories, env>>

\* The shell's return code is handed on as it is; the others' is converted.
EndContainer(p) ==
  /\ pc[p] \in {"run", "running"}
  /\ \E rc \in IF pc[p] = "run" THEN ReturnCodes \ {0} ELSE ReturnCodes :
       /\ codes' = [codes EXCEPT ![p] = Append(@, ExitCodeOf(rc))]
       /\ Return(p, IF call[p].sub = "shell" THEN rc ELSE ExitCodeOf(rc))
  /\ UNCHANGED <<binary, selected, call, world, env>>

WriteDirectory(p) == /\ pc[p] = "running"
                     /\ \E i \in DOMAIN Directories :
                          directories' = directories \cup {Directories[i]}
                     /\ UNCHANGED <<perProcess, call, image, volume, env>>

-----------------------------------------------------------------------------
(* prune, and the end of image *)

PruneImages(p) == Command(p, "prune_images", PruneImagesArguments, "prune_builder")

AfterPrune(p) == IF call[p].sub = "image" THEN "summary" ELSE "pruned"

PruneBuilder(p) == Command(p, "prune_builder", PruneBuilderArguments, AfterPrune(p))

Pruned(p) == Returns(p, "pruned", 0)

Summary(p) == Command(p, "summary", SummaryArguments, "pruned")

-----------------------------------------------------------------------------
(* clean *)

SelectedOnlyFirst == IF Directories[1] \in directories THEN <<Directories[1]>> ELSE <<>>
Selected ==
  LET upTo[n \in 0..Len(Directories)] ==
        IF n = 0 THEN <<>>
        ELSE IF Directories[n] \in directories THEN Append(upTo[n - 1], Directories[n])
        ELSE upTo[n - 1]
  IN upTo[Len(Directories)]

Select(p) ==
  /\ pc[p] = "select"
  /\ IF unsafe THEN Return(p, SetupError) /\ UNCHANGED selected
     ELSE selected' = [selected EXCEPT ![p] = Selected] /\ Goto(p, "remove")
  /\ UNCHANGED <<binary, codes, call, world, env>>

\* Somebody else is writing to the directories, or removing them.
Disturbed(p) == \E q \in Processes \ {p} : pc[q] \in {"running", "remove"}

RemoveDirectory(p) ==
  /\ pc[p] = "remove" /\ selected[p] # <<>> /\ Head(selected[p]) \in directories
  /\ directories' = directories \ {Head(selected[p])}
  /\ selected' = [selected EXCEPT ![p] = Tail(@)]
  /\ Goto(p, "remove")
  /\ UNCHANGED <<binary, codes, call, image, volume, env>>

\* rmtree raises OSError: gone, written to, or not ours to remove.
RemoveFails(p) == selected[p] # <<>> /\ Returns(p, "remove", SetupError)

\* The walk that adds up the sizes is outside the try: a file that vanishes
\* under it raises FileNotFoundError through main.
MeasureFails(p) == selected[p] # <<>> /\ Disturbed(p) /\ Step(p, "remove", "crashed")

Removed(p) == selected[p] = <<>> /\ Step(p, "remove", "detect")

CheckVolume(p) == Step(p, "volume_check", IF VolumeIsPresent(p) THEN "measure" ELSE "prune_images")

\* du in a container: its result is only printed, but it mounts the volume.
MeasureVolume(p) ==
  /\ pc[p] = "measure"
  /\ \E rc \in {0, 1} : /\ rc = 0 => MaySucceed(binary[p], SizeArguments)
                       /\ Affects(binary[p], SizeArguments, rc)
  /\ Goto(p, "volume_remove")
  /\ UNCHANGED <<binary, selected, codes, call, env>>

RemoveVolume(p) == Command(p, "volume_remove", VolumeRemoveArguments, "prune_images")

-----------------------------------------------------------------------------
(* The environment *)

\* KeyboardInterrupt outside process.wait: main has no handler for it.
Interrupt(p) == /\ pc[p] \notin Idle /\ interrupts < MaxInterrupts
                /\ interrupts' = interrupts + 1
                /\ Goto(p, "crashed")
                /\ UNCHANGED <<binary, selected, codes, call, world, unsafe, pins, up, edits, outages>>

\* The user edits the pins, between runs of the CLI.
Edit == /\ \A p \in Processes : pc[p] \in Idle
        /\ edits < MaxEdits /\ edits' = edits + 1
        /\ pins' \in Pins
        /\ UNCHANGED <<perProcess, call, world, unsafe, up, outages, interrupts>>

\* A runtime's daemon goes down, or comes up.
Outage(b) == /\ outages < MaxOutages /\ outages' = outages + 1
             /\ up' = IF b \in up THEN up \ {b} ELSE up \cup {b}
             /\ UNCHANGED <<perProcess, call, world, unsafe, pins, edits, interrupts>>

Done == (\A p \in Processes : pc[p] \in Idle \ {"idle"}) /\ UNCHANGED vars

Process(p) ==
  \/ Start(p) \/ CheckArguments(p) \/ Detect(p) \/ Finish(p)
  \/ CheckImage(p) \/ PinsDiffer(p) \/ Build(p)
  \/ ReadyVolume(p) \/ CreateVolume(p) \/ ChownVolume(p)
  \/ StartContainer(p) \/ EndContainer(p) \/ WriteDirectory(p)
  \/ PruneImages(p) \/ PruneBuilder(p) \/ Pruned(p) \/ Summary(p)
  \/ Select(p) \/ RemoveDirectory(p) \/ RemoveFails(p) \/ MeasureFails(p) \/ Removed(p)
  \/ CheckVolume(p) \/ MeasureVolume(p) \/ RemoveVolume(p)

Next == (\E p \in Processes : Process(p) \/ Interrupt(p)) \/ (\E b \in Runtimes : Outage(b))
        \/ Edit \/ Done

Spec == Init /\ [][Next]_vars
-----------------------------------------------------------------------------
(* Properties *)

TypeOK ==
  /\ pc \in [Processes -> Idle \cup
       {"arguments", "detect", "image_check", "build", "volume_ready", "volume_create", "chown",
        "run", "running", "prune_images", "prune_builder", "pruned", "summary", "select",
        "remove", "volume_check", "measure", "volume_remove", "return"}]
  /\ call \in [Processes -> Invocations] /\ binary \in [Processes -> Runtimes]
  /\ \A p \in Processes : /\ \A i \in DOMAIN selected[p] : \E j \in DOMAIN Directories :
                               selected[p][i] = Directories[j]
                          /\ \A i \in DOMAIN codes[p] : codes[p][i] \in 0..255
                          /\ exitCode[p] \in {NoCode} \cup -64..255
                          /\ call[p].sub # "shell" => exitCode[p] \in {NoCode} \cup 0..255
  /\ image \in [Runtimes -> {"none"} \cup {pair[1] : pair \in Pins}]
  /\ pins \in Pins /\ volume \in [Runtimes -> {"absent", "root", "user"}]
  /\ \A d \in directories : \E j \in DOMAIN Directories : d = Directories[j]
  /\ unsafe \in BOOLEAN /\ up \subseteq Runtimes /\ {edits, outages, interrupts} \subseteq Nat

\* "The CLI exits with the exit code of the last container command it ran", over
\* all paths of all subcommands: Devops implements FailFast.  Of the shell, whose
\* code is handed on raw, this holds once its code is converted like the others'.
Promise == INSTANCE FailFast WITH
             Codes <- {0, SetupError, UsageError} \cup {ExitCodeOf(rc) : rc \in ReturnCodes},
             NoReport <- NoCode,
             report <- [p \in Processes |->
                          IF pc[p] # "done" THEN NoCode
                          ELSE IF call[p].sub = "shell" THEN ExitCodeOf(exitCode[p]) ELSE exitCode[p]]
ImplementsFailFast == Promise!Spec

\* A cache volume changes only at the hands of a process that was told to keep
\* the cache, or of clean; the host user's ownership ends only with the volume,
\* and never under a container that uses it.
VolumeChangesAreAskedFor ==
  [][\A b \in Runtimes : volume'[b] # volume[b] =>
       /\ \E p \in Processes : /\ binary[p] = b /\ pc'[p] # pc[p]
                               /\ call[p].sub = "clean" \/ Keeps(p)
       /\ volume[b] = "user" => volume'[b] = "absent" /\ ~InUse(b)]_vars

\* With no process beside it, a clean that exits with 0 has left no cache directory,
\* and no volume at the runtime it used.  A daemon that goes down on the way makes it
\* fail; one that is also back before the prune would not, since a check for the
\* volume that fails counts as: there is none.
CleanLeavesNoCache ==
  [][\A p \in Processes :
       pc[p] = "return" /\ pc'[p] = "done" /\ call[p].sub = "clean" /\ exitCode[p] = 0
       /\ outages <= 1
         => directories = {} /\ volume[binary[p]] = "absent"]_vars

\* No step after the image step is reached without the image: neither the runs
\* and chowns that mount the volume, nor the summary, would have to pull one.
ImageIsReadyBeforeUse ==
  \A p \in Processes : \/ pc[p] \in {"volume_ready", "volume_create", "chown", "run", "running"}
                       \/ call[p].sub = "image" /\ pc[p] \in {"prune_images", "summary"}
                         => image[binary[p]] # "none"

\* With no process beside it, a host user's container finds the volume its own
\* unless an earlier process ran as root, failed or was cut short.
OwnedWhenSetupsComplete ==
  \A p \in Processes :
    /\ UsesVolume(p)
    /\ \A q \in Processes : /\ ~call[q].asRoot /\ pc[q] # "crashed"
                            /\ \A i \in DOMAIN codes[q] : codes[q][i] = 0
    => volume[binary[p]] = "user"

\* `image` brings the toolchain up to date: one that exits with 0 leaves an image
\* with the Zig that both pins name, whatever image there was before, however the
\* pins were edited since, and whatever other processes do meanwhile.
ImageFollowsThePins ==
  [][\A p \in Processes :
       pc[p] = "return" /\ pc'[p] = "done" /\ call[p].sub = "image" /\ exitCode[p] = 0
         => pins[1] = pins[2] /\ image[binary[p]] = pins[1]]_vars

(* What the code and its docs say, and the code does not keep *)

\* "A new volume is root-owned; hand it to the host user once, as root, so zig can
\* write": a container that runs as the host user finds the volume it mounts its own.
HostUserOwnsCache ==
  \A p \in Processes : UsesVolume(p) /\ ~call[p].asRoot => volume[binary[p]] = "user"

\* "The log ends with the command line, exit code, and duration", which only Finish
\* writes: no process ends otherwise, unless a Ctrl-C stops it.
LogEndsWithExitCode == interrupts = 0 => \A p \in Processes : pc[p] # "crashed"
=============================================================================
