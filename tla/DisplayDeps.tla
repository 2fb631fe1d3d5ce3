----------------------------- MODULE DisplayDeps -----------------------------
(***************************************************************************)
(* scripts/install_display_deps.py on one machine: calls that follow one   *)
(* another, with and without --check-only and --vulkan-only, while apt-get *)
(* and brew may fail half way and others may remove packages in between.   *)
(***************************************************************************)
EXTENDS Naturals, FiniteSets

CONSTANTS
  Hosts,      \* [platform, root, tools, known, driver]: sys.platform; geteuid() = 0; what
              \* PATH has; the architecture is in LIBVULKAN_PATHS; a Vulkan driver of its own
  MaxCalls,   \* bound: calls of the script
  MaxPurges   \* bound: packages that others remove

ASSUME BoundsAssumption == MaxCalls \in Nat /\ MaxPurges \in Nat
ASSUME HostsAssumption ==
  \A h \in Hosts : /\ h.platform \in STRING
                   /\ h.tools \subseteq {"sudo", "apt-get", "brew", "vulkaninfo", "xvfb-run"}
                   /\ {h.root, h.known, h.driver} \subseteq BOOLEAN

CheckOnly == "--check-only"
VulkanOnly == "--vulkan-only"
DisplayPackages == {"xvfb", "mesa-utils", "libgl1-mesa-dri", "libglx-mesa0", "libvulkan1",
                    "mesa-vulkan-drivers"}
VulkanPackages == {"libvulkan1", "mesa-vulkan-drivers", "vulkan-tools"}
MoltenVk == "molten-vk"
Packages == DisplayPackages \cup VulkanPackages \cup {MoltenVk}

VARIABLES
  host, installed,     \* the machine; its packages
  pc, flags, exitCode, \* the call: its next step, its flags, what it ended with
  calls, purges,
  promised             \* packages an install that ended with 0 stands for

vars == <<host, installed, pc, flags, exitCode, calls, purges, promised>>

NoCode == 100

Init == /\ host \in Hosts /\ installed \in SUBSET {"xvfb", "libvulkan1", "vulkan-tools"}
        /\ pc = "idle" /\ flags = {} /\ exitCode = NoCode
        /\ calls = 0 /\ purges = 0 /\ promised = {}

-----------------------------------------------------------------------------
(* The machine *)

\* What a package puts in PATH.
Provides == [p \in Packages |-> CASE p = "xvfb" -> "xvfb-run" [] p = "vulkan-tools" -> "vulkaninfo"
                                  [] OTHER -> "none"]
InPath(tool) == tool \in host.tools \/ \E p \in installed : Provides[p] = tool

\* vulkaninfo finds a driver through the loader.
VulkaninfoSucceeds == /\ "libvulkan1" \in installed
                      /\ host.driver \/ "mesa-vulkan-drivers" \in installed

\* Others remove a package between two calls.
Purge(p) == /\ pc = "idle" /\ purges < MaxPurges /\ p \in installed
            /\ installed' = installed \ {p} /\ promised' = promised \ {p}
            /\ purges' = purges + 1
            /\ UNCHANGED <<host, pc, flags, exitCode, calls>>

-----------------------------------------------------------------------------
(* The checks *)

Platform == IF host.platform = "cygwin" THEN "win32" ELSE host.platform

CheckXvfb == InPath("xvfb-run")

CheckVulkanIcdByTool == InPath("vulkaninfo") /\ VulkaninfoSucceeds

\* Without vulkaninfo the loader's file counts, whether there is a driver or not.
\* (shutil.which never finds libvulkan.so.1: a library is no program in PATH.)
CheckVulkanIcd == IF InPath("vulkaninfo") THEN VulkaninfoSucceeds
                  ELSE host.platform = "linux" /\ host.known /\ "libvulkan1" \in installed

CheckCodeCounted == IF Platform = "linux"
                    THEN Cardinality({ok \in {<<1, CheckXvfb>>, <<2, CheckVulkanIcd>>} : ~ok[2]})
                    ELSE 0
CheckCode == IF Platform = "linux" /\ ~(CheckXvfb /\ CheckVulkanIcd) THEN 1 ELSE 0

-----------------------------------------------------------------------------
(* One call *)

End(code, promise) == /\ pc' = "idle" /\ exitCode' = code
                      /\ promised' = promised \cup promise
                      /\ UNCHANGED <<host, flags, calls, purges>>

Goto(step) == pc' = step /\ UNCHANGED <<host, installed, flags, exitCode, calls, purges, promised>>

Call == /\ pc = "idle" /\ calls < MaxCalls
        /\ flags' \in SUBSET {CheckOnly, VulkanOnly}
        /\ calls' = calls + 1 /\ exitCode' = NoCode
        /\ pc' = IF CheckOnly \in flags' THEN "check"
                 ELSE CASE Platform = "linux" -> "update" [] Platform = "darwin" -> "macos"
                        [] OTHER -> "nothing"
        /\ UNCHANGED <<host, installed, purges, promised>>

Check == pc = "check" /\ End(CheckCode, {}) /\ UNCHANGED installed

\* Windows, and platforms the script does not know.
InstallNothing == pc = "nothing" /\ End(0, {}) /\ UNCHANGED installed

Wanted == IF VulkanOnly \in flags THEN VulkanPackages ELSE DisplayPackages

\* subprocess.run raises FileNotFoundError for a first word that PATH has not.
Runs == IF host.root THEN "apt-get" \in host.tools ELSE "sudo" \in host.tools

\* A failing `apt-get update` is only warned of.
Update == /\ pc = "update"
          /\ IF Runs THEN Goto("install") ELSE End(1, {}) /\ UNCHANGED installed

\* apt-get install puts all of the packages there, or fails with some of them.
Installs == /\ "apt-get" \in host.tools
            /\ installed' = installed \cup Wanted
InstallsPartly == \E some \in SUBSET Wanted : installed' = installed \cup some

GoesOn == pc' = "verify" /\ UNCHANGED <<host, flags, exitCode, calls, purges, promised>>
Aborts == End(1, {})

Install == pc = "install" /\ Installs /\ GoesOn
InstallFails == pc = "install" /\ InstallsPartly /\ Aborts

\* Only xvfb-run is looked for after an install, and not with --vulkan-only.
Verify == /\ pc = "verify"
          /\ IF VulkanOnly \in flags \/ CheckXvfb THEN End(0, Wanted) ELSE End(1, {})
          /\ UNCHANGED installed

\* Whatever brew reports, the call ends with 0.
Macos == /\ pc = "macos"
         /\ \/ UNCHANGED installed
            \/ /\ ~InPath("vulkaninfo") /\ InPath("brew")
               /\ installed' = installed \cup {MoltenVk}
         /\ End(0, {})

Done == pc = "idle" /\ calls = MaxCalls /\ UNCHANGED vars

Next == \/ Call \/ Check \/ InstallNothing \/ Update \/ Install \/ InstallFails \/ Verify \/ Macos
        \/ (\E p \in Packages : Purge(p)) \/ Done

Spec == Init /\ [][Next]_vars
-----------------------------------------------------------------------------
(* Properties *)

TypeOK == /\ host \in Hosts /\ installed \subseteq Packages /\ promised \subseteq Packages
          /\ pc \in {"idle", "check", "nothing", "update", "install", "verify", "macos"}
          /\ flags \subseteq {CheckOnly, VulkanOnly} /\ exitCode \in {0, 1, NoCode}
          /\ calls \in 0..MaxCalls /\ purges \in 0..MaxPurges

\* "0: deps available": what an install on Linux has reported as there is there,
\* after failed and half-done attempts too; --vulkan-only promises its own list.
SuccessMeansInstalled == promised \subseteq installed

\* "install + verify", then "verify only": on an architecture the script knows,
\* --check-only never fails a machine on which a full install ended with 0,
\* whatever --vulkan-only has added to it since or before.
CheckAgreesWithInstall ==
  pc = "idle" /\ CheckOnly \in flags /\ host.known /\ DisplayPackages \subseteq promised
    => exitCode = 0
=============================================================================
