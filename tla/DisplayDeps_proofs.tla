-------------------------- MODULE DisplayDeps_proofs --------------------------
(***************************************************************************)
(* What a successful installation promises, for any machines and any       *)
(* number of calls, failed and half-done ones among them.                  *)
(***************************************************************************)
EXTENDS DisplayDeps, TLAPS

\* Once apt-get has installed all it was asked for, and until the call ends, all of
\* it is there: purges happen between calls.
IInv == /\ TypeOK /\ promised \subseteq installed
        /\ pc = "verify" => Wanted \subseteq installed

LEMMA WantedArePackages == Wanted \subseteq Packages
  BY DEF Wanted, Packages

LEMMA InitIInv == Init => IInv
  BY BoundsAssumption DEF Init, IInv, TypeOK, Packages, DisplayPackages, VulkanPackages

LEMMA NextIInv == IInv /\ [Next]_vars => IInv'
  <1> SUFFICES ASSUME IInv, [Next]_vars PROVE IInv'
    OBVIOUS
  <1> USE BoundsAssumption DEF IInv, TypeOK
  <1>1. CASE Call
    BY <1>1 DEF Call
  <1>2. CASE Check
    BY <1>2 DEF Check, End, CheckCode
  <1>3. CASE InstallNothing
    BY <1>3 DEF InstallNothing, End
  <1>4. CASE Update
    BY <1>4 DEF Update, Goto, End
  <1>5. CASE Install
    <2>1. /\ installed' = installed \cup Wanted /\ pc' = "verify"
          /\ UNCHANGED <<host, flags, exitCode, calls, purges, promised>>
      BY <1>5 DEF Install, Installs, GoesOn
    <2> QED BY <2>1, WantedArePackages DEF Wanted
  <1>6. CASE InstallFails
    <2>1. PICK some \in SUBSET Wanted : installed' = installed \cup some
      BY <1>6 DEF InstallFails, InstallsPartly
    <2> QED BY <1>6, <2>1, WantedArePackages DEF InstallFails, Aborts, End
  <1>7. CASE Verify
    BY <1>7, WantedArePackages DEF Verify, End
  <1>8. CASE Macos
    BY <1>8 DEF Macos, End, Packages
  <1>9. ASSUME NEW p \in Packages, Purge(p) PROVE IInv'
    BY <1>9 DEF Purge
  <1>10. CASE UNCHANGED vars
    BY <1>10 DEF vars, Wanted
  <1> QED BY <1>1, <1>2, <1>3, <1>4, <1>5, <1>6, <1>7, <1>8, <1>9, <1>10 DEF Next, Done

LEMMA Invariant == Spec => []IInv
  BY InitIInv, NextIInv, PTL DEF Spec

\* The installer's variables keep their types, for any machines and bounds.
THEOREM TypeCorrect == Spec => []TypeOK
  BY Invariant, PTL DEF IInv

\* What a call that installed on Linux has reported as there is there, whatever
\* calls failed half way before or after it.
THEOREM SuccessIsHonest == Spec => []SuccessMeansInstalled
  <1>1. IInv => SuccessMeansInstalled
    BY DEF IInv, SuccessMeansInstalled
  <1> QED BY <1>1, Invariant, PTL

-----------------------------------------------------------------------------
(* The check and the install *)

\* An install's steps belong to a call without --check-only.
AgreeInv == /\ pc \in {"nothing", "update", "install", "verify", "macos"} => CheckOnly \notin flags
            /\ CheckAgreesWithInstall

\* Where the display packages are, the check finds all it looks for.
LEMMA CheckFinds ==
  ASSUME IInv, host.known, DisplayPackages \subseteq promised
  PROVE  CheckCode = 0
  <1>1. {"xvfb", "libvulkan1", "mesa-vulkan-drivers"} \subseteq installed
    BY DEF IInv, DisplayPackages
  <1>2. Provides["xvfb"] = "xvfb-run"
    BY DEF Provides, Packages, DisplayPackages
  <1>3. CheckXvfb
    BY <1>1, <1>2 DEF CheckXvfb, InPath
  <1>4. Platform = "linux" => CheckVulkanIcd
    BY <1>1 DEF Platform, CheckVulkanIcd, VulkaninfoSucceeds
  <1> QED BY <1>3, <1>4 DEF CheckCode

LEMMA NextAgrees == IInv /\ AgreeInv /\ [Next]_vars => AgreeInv'
  <1> SUFFICES ASSUME IInv, AgreeInv, [Next]_vars PROVE AgreeInv'
    OBVIOUS
  <1> USE DEF AgreeInv, CheckAgreesWithInstall
  <1>1. CASE Call
    BY <1>1 DEF Call
  <1>2. CASE Check
    BY <1>2, CheckFinds DEF Check, End
  <1>3. CASE InstallNothing
    BY <1>3 DEF InstallNothing, End
  <1>4. CASE Update
    BY <1>4 DEF Update, Goto, End
  <1>5. CASE Install
    BY <1>5 DEF Install, GoesOn
  <1>6. CASE InstallFails
    BY <1>6 DEF InstallFails, Aborts, End
  <1>7. CASE Verify
    BY <1>7 DEF Verify, End
  <1>8. CASE Macos
    BY <1>8 DEF Macos, End
  <1>9. ASSUME NEW p \in Packages, Purge(p) PROVE AgreeInv'
    BY <1>9 DEF Purge
  <1>10. CASE UNCHANGED vars
    BY <1>10 DEF vars
  <1> QED BY <1>1, <1>2, <1>3, <1>4, <1>5, <1>6, <1>7, <1>8, <1>9, <1>10 DEF Next, Done

\* --check-only agrees with a full install that ended with 0, on any machine of an
\* architecture the script knows.
THEOREM CheckAgrees == Spec => []CheckAgreesWithInstall
  <1>1. Init => AgreeInv
    BY DEF Init, AgreeInv, CheckAgreesWithInstall
  <1>2. AgreeInv => CheckAgreesWithInstall
    BY DEF AgreeInv
  <1> QED BY <1>1, <1>2, NextAgrees, Invariant, PTL DEF Spec
=============================================================================
