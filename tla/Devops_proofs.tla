---------------------------- MODULE Devops_proofs ----------------------------
(***************************************************************************)
(* The types and the rules on failures, exit codes, image, volumes and     *)
(* cache directories, for any number of processes, any invocations, pins   *)
(* and directories.  What a step does to a process's control, its codes    *)
(* and its exit code is one of the few moves below: StepsAreMoves shows it *)
(* once, and the invariant of the failures and the refinement of FailFast  *)
(* rest on the moves alone.  What clean selects is computed by recursion;  *)
(* LeastNumber and SetInduction give the induction for it.  The last two   *)
(* theorems are about processes in turn (Serial).                          *)
(***************************************************************************)
EXTENDS Devops, WellFoundedInduction, TLAPS

Ended == {"return", "done", "crashed"}

\* No command has run yet.
Fresh == {"idle", "arguments", "detect", "select", "remove", "image_check", "build",
          "volume_check"}
Working == Fresh \cup {"volume_ready", "volume_create", "chown", "run", "running", "prune_images",
                       "prune_builder", "pruned", "summary", "measure", "volume_remove"}

Codes == {0, SetupError, UsageError} \cup {ExitCodeOf(rc) : rc \in ReturnCodes}

flow == <<pc, codes, exitCode, call>>

\* The exit code as the abstract specification sees it.
Converted(p, code) == IF call[p].sub = "shell" THEN ExitCodeOf(code) ELSE code

Goes(p) ==
  \E step \in Working : /\ pc[p] \in Working /\ (step \in Fresh => pc[p] \in Fresh)
                        /\ pc' = [pc EXCEPT ![p] = step]
                        /\ UNCHANGED <<codes, exitCode, call>>

ReturnsOwn(p) ==
  \E code \in {0, SetupError, UsageError} :
    /\ pc[p] \in Working /\ (pc[p] \in Fresh \/ code = 0)
    /\ Return(p, code)
    /\ UNCHANGED <<codes, call>>

RunsOne(p) ==
  \E rc \in ReturnCodes :
    /\ pc[p] \in Working
    /\ codes' = [codes EXCEPT ![p] = Append(@, ExitCodeOf(rc))]
    /\ \/ /\ ExitCodeOf(rc) = 0 /\ UNCHANGED exitCode
          /\ \E step \in Working \ Fresh : pc' = [pc EXCEPT ![p] = step]
       \/ \E code \in ReturnCodes \cup Codes :
            /\ Converted(p, code) = ExitCodeOf(rc) /\ Return(p, code)
    /\ UNCHANGED call

EndsEarly(p) ==
  \E code \in {0, SetupError, UsageError} :
    /\ pc[p] = "idle" /\ pc' = [pc EXCEPT ![p] = "done"]
    /\ exitCode' = [exitCode EXCEPT ![p] = code]
    /\ UNCHANGED <<codes, call>>

Finishes(p) == /\ pc[p] = "return" /\ pc' = [pc EXCEPT ![p] = "done"]
               /\ UNCHANGED <<codes, exitCode, call>>

Crashes(p) == /\ pc[p] \in Working \cup {"return"} /\ pc' = [pc EXCEPT ![p] = "crashed"]
              /\ UNCHANGED <<codes, exitCode, call>>

Move(p) == \/ Goes(p) \/ ReturnsOwn(p) \/ RunsOne(p) \/ EndsEarly(p) \/ Finishes(p)
           \/ Crashes(p)

-----------------------------------------------------------------------------
(* Codes *)

LEMMA CodesAreInts ==
  \A rc \in ReturnCodes : rc \in Int /\ rc \in -64..255 /\ ExitCodeOf(rc) \in 0..255
  BY BoundsAssumption DEF ExitCodeOf

LEMMA CodesAreConverted ==
  ASSUME NEW code \in Codes
  PROVE  code \in 0..255 /\ ExitCodeOf(code) = code
  BY CodesAreInts, SMTT(30) DEF Codes, SetupError, UsageError, ExitCodeOf

-----------------------------------------------------------------------------
(* Every step is a move *)

FlowShape == /\ pc \in [Processes -> Working \cup Ended]
             /\ codes \in [Processes -> Seq(0..255)]
             /\ exitCode \in [Processes -> {NoCode} \cup -64..255]
             /\ call \in [Processes -> Invocations]

LEMMA CommandMoves ==
  ASSUME FlowShape, NEW p \in Processes, NEW at \in Working, NEW line,
         NEW step \in Working \ Fresh, Command(p, at, line, step)
  PROVE  RunsOne(p)
  <1>1. PICK rc \in ReturnCodes :
          /\ codes' = [codes EXCEPT ![p] = Append(@, ExitCodeOf(rc))]
          /\ IF GoesOn(ExitCodeOf(rc)) THEN Goto(p, step) ELSE Return(p, ExitCodeOf(rc))
    BY DEF Command
  <1>2. pc[p] \in Working /\ UNCHANGED call
    BY DEF Command
  <1>3. CASE ExitCodeOf(rc) = 0
    BY <1>1, <1>2, <1>3 DEF RunsOne, GoesOn, Goto
  <1>4. CASE ExitCodeOf(rc) # 0
    <2>1. Return(p, ExitCodeOf(rc))
      BY <1>1, <1>4 DEF GoesOn
    <2>2. ExitCodeOf(rc) \in Codes
      BY DEF Codes
    <2>3. Converted(p, ExitCodeOf(rc)) = ExitCodeOf(rc)
      BY <2>2, CodesAreConverted DEF Converted
    <2> QED BY <1>1, <1>2, <2>1, <2>2, <2>3 DEF RunsOne
  <1> QED BY <1>3, <1>4

LEMMA StepMoves ==
  ASSUME FlowShape, NEW p \in Processes, NEW at \in Working, NEW step \in Working,
         step \in Fresh => at \in Fresh, Step(p, at, step)
  PROVE  Goes(p)
  BY DEF Step, Goto, Goes

LEMMA ReturnMoves ==
  ASSUME FlowShape, NEW p \in Processes, NEW at \in Working, NEW code \in {0, SetupError, UsageError},
         at \in Fresh \/ code = 0, Returns(p, at, code)
  PROVE  ReturnsOwn(p)
  BY DEF Returns, ReturnsOwn

LEMMA EndContainerMoves ==
  ASSUME FlowShape, NEW p \in Processes, EndContainer(p)
  PROVE  RunsOne(p)
  <1>1. PICK rc \in ReturnCodes :
          /\ codes' = [codes EXCEPT ![p] = Append(@, ExitCodeOf(rc))]
          /\ Return(p, IF call[p].sub = "shell" THEN rc ELSE ExitCodeOf(rc))
    BY DEF EndContainer
  <1>2. pc[p] \in Working /\ UNCHANGED call
    BY DEF EndContainer, Working
  <1>3. CASE call[p].sub = "shell"
    <2>1. Converted(p, rc) = ExitCodeOf(rc) /\ Return(p, rc)
      BY <1>1, <1>3 DEF Converted
    <2> QED BY <1>1, <1>2, <2>1 DEF RunsOne
  <1>4. CASE call[p].sub # "shell"
    <2>1. Return(p, ExitCodeOf(rc)) /\ Converted(p, ExitCodeOf(rc)) = ExitCodeOf(rc)
      BY <1>1, <1>4 DEF Converted
    <2>2. ExitCodeOf(rc) \in Codes
      BY DEF Codes
    <2> QED BY <1>1, <1>2, <2>1, <2>2 DEF RunsOne
  <1> QED BY <1>3, <1>4

\* Whatever a process does, it makes one of the moves or leaves all of this alone.
LEMMA ProcessMoves ==
  ASSUME FlowShape, NEW p \in Processes, Process(p)
  PROVE  Move(p) \/ UNCHANGED flow
  <1> USE DEF Working, Fresh
  <1>1. CASE Start(p)
    <2>1. CASE call[p].sub \in Subcommands /\ HasRoot
      BY <1>1, <2>1 DEF Start, Goto, Goes, Move
    <2>2. CASE ~(call[p].sub \in Subcommands /\ HasRoot)
      <3>1. EarlyCode(p) \in {0, SetupError, UsageError}
        BY DEF EarlyCode
      <3> QED BY <1>1, <2>2, <3>1 DEF Start, EndsEarly, Move
    <2> QED BY <2>1, <2>2
  <1>2. CASE CheckArguments(p)
    <2>1. CASE ArgumentsOk(call[p])
      BY <1>2, <2>1, StepMoves DEF CheckArguments, Move
    <2>2. CASE ~ArgumentsOk(call[p])
      BY <1>2, <2>2, ReturnMoves DEF CheckArguments, Move
    <2> QED BY <2>1, <2>2
  <1>3. CASE Detect(p)
    <2>1. CASE up = {}
      BY <1>3, <2>1 DEF Detect, ReturnsOwn, Move
    <2>2. CASE up # {}
      <3>1. AfterDetect(p) \in Working
        BY DEF AfterDetect, AfterDetectOthers
      <3> QED BY <1>3, <2>2, <3>1 DEF Detect, Goto, Goes, Move
    <2> QED BY <2>1, <2>2
  <1>4. CASE Finish(p)
    BY <1>4 DEF Finish, Step, Goto, Finishes, Move
  <1>5. AfterImage(p) \in Working \ Fresh /\ AfterPrune(p) \in Working \ Fresh
        /\ AfterCreate(p) \in Working \ Fresh
    BY DEF AfterImage, AfterPrune, AfterCreate
  <1>6. CASE CheckImage(p)
    BY <1>6, <1>5, StepMoves DEF CheckImage, Move
  <1>7. CASE PinsDiffer(p)
    BY <1>7, ReturnMoves DEF PinsDiffer, Move
  <1>8. CASE Build(p)
    BY <1>8, <1>5, CommandMoves DEF Build, Move
  <1>9. CASE ReadyVolume(p)
    BY <1>9, StepMoves DEF ReadyVolume, Move
  <1>10. CASE CreateVolume(p)
    BY <1>10, <1>5, CommandMoves DEF CreateVolume, Move
  <1>11. CASE ChownVolume(p)
    BY <1>11, CommandMoves DEF ChownVolume, Move
  <1>12. CASE StartContainer(p)
    BY <1>12 DEF StartContainer, Goto, Goes, Move
  <1>13. CASE EndContainer(p)
    BY <1>13, EndContainerMoves DEF Move
  <1>14. CASE WriteDirectory(p)
    BY <1>14 DEF WriteDirectory, perProcess, flow
  <1>15. CASE PruneImages(p)
    BY <1>15, CommandMoves DEF PruneImages, Move
  <1>16. CASE PruneBuilder(p)
    BY <1>16, <1>5, CommandMoves DEF PruneBuilder, Move
  <1>17. CASE Pruned(p)
    BY <1>17, ReturnMoves DEF Pruned, Move
  <1>18. CASE Summary(p)
    BY <1>18, CommandMoves DEF Summary, Move
  <1>19. CASE Select(p)
    BY <1>19 DEF Select, Goto, Goes, ReturnsOwn, Move
  <1>20. CASE RemoveDirectory(p)
    BY <1>20 DEF RemoveDirectory, Goto, Goes, Move
  <1>21. CASE RemoveFails(p)
    BY <1>21, ReturnMoves DEF RemoveFails, Move
  <1>22. CASE MeasureFails(p)
    BY <1>22 DEF MeasureFails, Step, Goto, Crashes, Move
  <1>23. CASE Removed(p)
    BY <1>23, StepMoves DEF Removed, Move
  <1>24. CASE CheckVolume(p)
    BY <1>24, StepMoves DEF CheckVolume, Move
  <1>25. CASE MeasureVolume(p)
    BY <1>25 DEF MeasureVolume, Goto, Goes, Move
  <1>26. CASE RemoveVolume(p)
    BY <1>26, CommandMoves DEF RemoveVolume, Move
  <1> QED
    BY <1>1, <1>2, <1>3, <1>4, <1>6, <1>7, <1>8, <1>9, <1>10, <1>11, <1>12, <1>13, <1>14, <1>15,
       <1>16, <1>17, <1>18, <1>19, <1>20, <1>21, <1>22, <1>23, <1>24, <1>25, <1>26 DEF Process

LEMMA StepsAreMoves ==
  ASSUME FlowShape, [Next]_vars
  PROVE  (\E p \in Processes : Move(p)) \/ UNCHANGED flow
  <1>1. ASSUME NEW p \in Processes, Process(p) PROVE Move(p) \/ UNCHANGED flow
    BY <1>1, ProcessMoves
  <1>2. ASSUME NEW p \in Processes, Interrupt(p) PROVE Move(p)
    BY <1>2 DEF Interrupt, Goto, Crashes, Move, FlowShape, Idle, Ended
  <1>3. ASSUME NEW b \in Runtimes, Outage(b) PROVE UNCHANGED flow
    BY <1>3 DEF Outage, perProcess, flow
  <1>4. CASE Edit
    BY <1>4 DEF Edit, perProcess, flow
  <1>5. CASE UNCHANGED vars
    BY <1>5 DEF vars, perProcess, flow
  <1> QED BY <1>1, <1>2, <1>3, <1>4, <1>5 DEF Next, Done

-----------------------------------------------------------------------------
(* Failures and exit codes *)

Succeeded(p) == \A i \in DOMAIN codes[p] : codes[p][i] = 0

\* Where a process stands tells what its commands have ended with; once it has
\* returned, its exit code is one of the abstract codes, the last if there is one.
FailInv ==
  \A p \in Processes :
    /\ pc[p] \in Fresh => codes[p] = <<>>
    /\ pc[p] \in Working => Succeeded(p)
    /\ \A i \in 1..Len(codes[p]) - 1 : codes[p][i] = 0
    /\ pc[p] \in {"return", "done"} =>
         /\ Converted(p, exitCode[p]) \in Codes
         /\ codes[p] # <<>> => Converted(p, exitCode[p]) = codes[p][Len(codes[p])]

LEMMA InitFail == Init => FlowShape /\ FailInv
  BY DEF Init, FlowShape, FailInv, Succeeded, Working, Fresh, Ended

LEMMA OneMore ==
  ASSUME NEW s \in Seq(0..255), NEW code \in 0..255, \A i \in DOMAIN s : s[i] = 0
  PROVE  /\ Append(s, code) # <<>> /\ Len(Append(s, code)) = Len(s) + 1
         /\ Append(s, code)[Len(Append(s, code))] = code
         /\ \A i \in 1..Len(Append(s, code)) - 1 : Append(s, code)[i] = 0
  OBVIOUS

LEMMA OwnCodes ==
  ASSUME NEW p, NEW code \in {0, SetupError, UsageError}
  PROVE  code \in Codes /\ Converted(p, code) = code /\ code \in -64..255
  <1>1. code \in Codes
    BY DEF Codes
  <1> QED BY <1>1, CodesAreConverted DEF Converted

LEMMA MoveKeepsFlow ==
  ASSUME FlowShape, FailInv, NEW p \in Processes, Move(p)
  PROVE  FlowShape' /\ FailInv'
  <1> USE DEF FlowShape
  <1>1. UNCHANGED call
    BY DEF Move, Goes, ReturnsOwn, RunsOne, EndsEarly, Finishes, Crashes
  <1>3. CASE Goes(p)
    <2>1. FlowShape'
      BY <1>3 DEF Goes
    <2>2. FailInv'
      BY <1>3 DEF Goes, FailInv, Succeeded, Converted, Working, Fresh
    <2> QED BY <2>1, <2>2
  <1>4. CASE ReturnsOwn(p)
    <2>1. PICK code \in {0, SetupError, UsageError} :
            /\ pc[p] \in Working /\ (pc[p] \in Fresh \/ code = 0)
            /\ Return(p, code) /\ UNCHANGED <<codes, call>>
      BY <1>4 DEF ReturnsOwn
    <2>2. code \in Codes /\ Converted(p, code) = code /\ code \in -64..255
      BY OwnCodes
    <2>3. FlowShape'
      BY <2>1, <2>2 DEF Return, Ended
    <2>4. codes[p] # <<>> => code = codes[p][Len(codes[p])]
      BY <2>1 DEF FailInv, Succeeded
    <2>5. FailInv'
      BY <2>1, <2>2, <2>4 DEF FailInv, Succeeded, Converted, Return, Working, Fresh
    <2> QED BY <2>3, <2>5
  <1>5. CASE RunsOne(p)
    <2>1. PICK rc \in ReturnCodes :
            /\ pc[p] \in Working
            /\ codes' = [codes EXCEPT ![p] = Append(@, ExitCodeOf(rc))]
            /\ \/ /\ ExitCodeOf(rc) = 0 /\ UNCHANGED exitCode
                  /\ \E step \in Working \ Fresh : pc' = [pc EXCEPT ![p] = step]
               \/ \E code \in ReturnCodes \cup Codes :
                    Converted(p, code) = ExitCodeOf(rc) /\ Return(p, code)
            /\ UNCHANGED call
      BY <1>5 DEF RunsOne
    <2>2. ExitCodeOf(rc) \in 0..255 /\ ExitCodeOf(rc) \in Codes
      BY CodesAreInts DEF Codes
    <2>3. \A q \in Processes : codes[q] \in Seq(0..255)
      OBVIOUS
    <2>4. /\ codes' \in [Processes -> Seq(0..255)]
          /\ \A q \in Processes \ {p} : codes'[q] = codes[q]
          /\ codes'[p] = Append(codes[p], ExitCodeOf(rc))
      BY <2>1, <2>2
    <2>5. /\ codes'[p] # <<>> /\ Len(codes'[p]) = Len(codes[p]) + 1
          /\ codes'[p][Len(codes'[p])] = ExitCodeOf(rc)
          /\ \A i \in 1..Len(codes'[p]) - 1 : codes'[p][i] = 0
      <3>1. \A i \in DOMAIN codes[p] : codes[p][i] = 0
        BY <2>1 DEF FailInv, Succeeded
      <3>2. codes[p] \in Seq(0..255)
        BY <2>3
      <3> HIDE DEF FlowShape
      <3> DEFINE longer == Append(codes[p], ExitCodeOf(rc))
      <3>3. /\ longer # <<>> /\ Len(longer) = Len(codes[p]) + 1
            /\ longer[Len(longer)] = ExitCodeOf(rc)
            /\ \A i \in 1..Len(longer) - 1 : longer[i] = 0
        BY <2>2, <3>1, <3>2, OneMore
      <3>4. codes'[p] = longer
        BY <2>4
      <3> HIDE DEF longer
      <3> QED BY <3>3, <3>4
    <2>6. CASE ExitCodeOf(rc) = 0 /\ UNCHANGED exitCode
               /\ \E step \in Working \ Fresh : pc' = [pc EXCEPT ![p] = step]
      <3>1. FlowShape'
        BY <2>1, <2>4, <2>6
      <3>2. \A i \in DOMAIN codes'[p] : codes'[p][i] = 0
        BY <2>3, <2>4, <2>5, <2>6
      <3>3. FailInv'
        BY <2>1, <2>4, <2>5, <2>6, <3>2 DEF FailInv, Succeeded, Converted, Working, Fresh
      <3> QED BY <3>1, <3>3
    <2>7. ASSUME NEW code \in ReturnCodes \cup Codes,
                 Converted(p, code) = ExitCodeOf(rc), Return(p, code)
          PROVE  FlowShape' /\ FailInv'
      <3>1. code \in -64..255
        <4>1. code \in ReturnCodes => code \in -64..255
          BY CodesAreInts
        <4>2. code \in Codes => code \in 0..255
          BY CodesAreConverted
        <4> QED BY <4>1, <4>2
      <3>2. FlowShape'
        BY <2>1, <2>4, <2>7, <3>1 DEF Return, Ended
      <3>3. FailInv'
        BY <2>1, <2>2, <2>4, <2>5, <2>7 DEF FailInv, Succeeded, Converted, Return, Working, Fresh
      <3> QED BY <3>2, <3>3
    <2> QED BY <2>1, <2>6, <2>7
  <1>6. CASE EndsEarly(p)
    <2>1. PICK code \in {0, SetupError, UsageError} :
            /\ pc[p] = "idle" /\ pc' = [pc EXCEPT ![p] = "done"]
            /\ exitCode' = [exitCode EXCEPT ![p] = code] /\ UNCHANGED <<codes, call>>
      BY <1>6 DEF EndsEarly
    <2>2. code \in Codes /\ Converted(p, code) = code /\ code \in -64..255
      BY OwnCodes
    <2>3. FlowShape'
      BY <2>1, <2>2 DEF Ended
    <2>4. FailInv'
      BY <2>1, <2>2 DEF FailInv, Succeeded, Converted, Working, Fresh
    <2> QED BY <2>3, <2>4
  <1>7. CASE Finishes(p)
    BY <1>7 DEF Finishes, FailInv, Succeeded, Converted, Working, Fresh, Ended
  <1>8. CASE Crashes(p)
    BY <1>8 DEF Crashes, FailInv, Succeeded, Converted, Working, Fresh, Ended
  <1> QED BY <1>3, <1>4, <1>5, <1>6, <1>7, <1>8 DEF Move

LEMMA StutterKeepsFlow ==
  ASSUME FlowShape, FailInv, UNCHANGED flow
  PROVE  FlowShape' /\ FailInv'
  BY DEF flow, FlowShape, FailInv, Succeeded, Converted

-----------------------------------------------------------------------------
(* Theorems: failures and exit codes *)

LEMMA FlowInvariant == Spec => [](FlowShape /\ FailInv)
  <1>1. Init => FlowShape /\ FailInv
    BY InitFail
  <1>2. FlowShape /\ FailInv /\ [Next]_vars => FlowShape' /\ FailInv'
    BY StepsAreMoves, MoveKeepsFlow, StutterKeepsFlow
  <1> QED BY <1>1, <1>2, PTL DEF Spec

report == [p \in Processes |->
             IF pc[p] # "done" THEN NoCode
             ELSE IF call[p].sub = "shell" THEN ExitCodeOf(exitCode[p]) ELSE exitCode[p]]

LEMMA Reports ==
  /\ \A p \in Processes : report[p] = IF pc[p] = "done" THEN Converted(p, exitCode[p]) ELSE NoCode
  /\ UNCHANGED <<pc, exitCode, call>> => UNCHANGED report
  BY DEF report, Converted

\* A step of the CLI runs a command, reports, or is not seen by the promise.
LEMMA MoveKeepsPromise ==
  ASSUME FlowShape, FailInv, NEW p \in Processes, Move(p)
  PROVE  [Promise!Next]_<<codes, report>>
  <1> USE DEF FlowShape
  <1>1. CASE Goes(p)
    <2>1. UNCHANGED codes
      BY <1>1 DEF Goes
    <2>2. report' = report
      BY <1>1 DEF Goes, report, Working, Fresh
    <2> QED BY <2>1, <2>2
  <1>2. CASE ReturnsOwn(p)
    <2>1. UNCHANGED codes
      BY <1>2 DEF ReturnsOwn
    <2>2. report' = report
      BY <1>2 DEF ReturnsOwn, Return, report, Working, Fresh
    <2> QED BY <2>1, <2>2
  <1>3. CASE RunsOne(p)
    <2>1. PICK rc \in ReturnCodes : codes' = [codes EXCEPT ![p] = Append(@, ExitCodeOf(rc))]
      BY <1>3 DEF RunsOne
    <2>2. ExitCodeOf(rc) \in Codes
      BY DEF Codes
    <2>3. report' = report
      BY <1>3 DEF RunsOne, Return, report, Working, Fresh
    <2>4. report[p] = NoCode /\ Succeeded(p)
      BY <1>3 DEF RunsOne, report, FailInv, Working, Fresh
    <2>5. Promise!RunCommand(p)
      BY <2>1, <2>2, <2>3, <2>4 DEF Promise!RunCommand, Promise!AllSucceeded, Succeeded, report, Codes
    <2> QED BY <2>5 DEF Promise!Next
  <1>4. CASE EndsEarly(p)
    <2>1. PICK code \in {0, SetupError, UsageError} :
            /\ pc[p] = "idle" /\ pc' = [pc EXCEPT ![p] = "done"]
            /\ exitCode' = [exitCode EXCEPT ![p] = code] /\ UNCHANGED <<codes, call>>
      BY <1>4 DEF EndsEarly
    <2>2. code \in Codes /\ Converted(p, code) = code /\ codes[p] = <<>>
      BY <2>1, OwnCodes DEF FailInv, Fresh
    <2>3. report' = [report EXCEPT ![p] = code] /\ report[p] = NoCode
      BY <2>1, <2>2 DEF report, Converted
    <2>4. Promise!Report(p)
      BY <2>1, <2>2, <2>3 DEF Promise!Report, report, Codes
    <2> QED BY <2>4 DEF Promise!Next
  <1>5. CASE Finishes(p)
    <2>1. /\ Converted(p, exitCode[p]) \in Codes
          /\ codes[p] # <<>> => Converted(p, exitCode[p]) = codes[p][Len(codes[p])]
      BY <1>5 DEF Finishes, FailInv
    <2>2. report' = [report EXCEPT ![p] = Converted(p, exitCode[p])] /\ report[p] = NoCode
      BY <1>5 DEF Finishes, report, Converted
    <2>3. Promise!Report(p)
      BY <1>5, <2>1, <2>2 DEF Finishes, Promise!Report, report, Codes
    <2> QED BY <2>3 DEF Promise!Next
  <1>6. CASE Crashes(p)
    <2>1. UNCHANGED codes
      BY <1>6 DEF Crashes
    <2>2. report' = report
      BY <1>6 DEF Crashes, report, Working, Fresh
    <2> QED BY <2>1, <2>2
  <1> QED BY <1>1, <1>2, <1>3, <1>4, <1>5, <1>6 DEF Move

\* Every subcommand keeps the promise of the module's docstring: what a process
\* reports is the code of the last command it ran, and that is the first failure.
THEOREM Refinement == Spec => ImplementsFailFast
  <1>1. Init => Promise!Init
    BY DEF Init, Promise!Init
  <1>2. FlowShape /\ FailInv /\ [Next]_vars => [Promise!Next]_(Promise!vars)
    <2> SUFFICES ASSUME FlowShape, FailInv, [Next]_vars
                 PROVE  [Promise!Next]_<<codes, report>>
      BY DEF Promise!vars, report
    <2>1. ASSUME NEW p \in Processes, Move(p) PROVE [Promise!Next]_<<codes, report>>
      BY <2>1, MoveKeepsPromise
    <2>2. CASE UNCHANGED flow
      BY <2>2, Reports DEF flow
    <2> QED BY <2>1, <2>2, StepsAreMoves
  <1> QED BY <1>1, <1>2, FlowInvariant, PTL DEF Spec, ImplementsFailFast, Promise!Spec

-----------------------------------------------------------------------------
(* The image and the volumes *)

WorldShape == /\ binary \in [Processes -> Runtimes]
              /\ image \in [Runtimes -> {"none"} \cup {pair[1] : pair \in Pins}]
              /\ volume \in [Runtimes -> {"absent", "root", "user"}]
              /\ pins \in Pins

\* The steps that come only after the image's.
NeedsImage(p) == \/ pc[p] \in {"volume_ready", "volume_create", "chown", "run", "running"}
                 \/ /\ call[p].sub = "image"
                    /\ pc[p] \in {"prune_images", "prune_builder", "summary"}

\* Which processes get to the volume; the pins have been read by all that are under
\* way, so a build cannot leave an image without a Zig; an image once there stays.
WorldInv ==
  \A p \in Processes :
    /\ pc[p] \in {"volume_ready", "volume_create", "chown"} => Keeps(p)
    /\ pc[p] \in {"volume_check", "measure", "volume_remove"} => call[p].sub = "clean"
    /\ pc[p] \notin Idle => HasRoot
    /\ NeedsImage(p) => image[binary[p]] # "none"

IInv == FlowShape /\ FailInv /\ WorldShape /\ WorldInv

LEMMA InitWorld == Init => WorldShape /\ WorldInv
  BY DEF Init, WorldShape, WorldInv, NeedsImage, Idle, Runtimes

LEMMA AffectsKeepsShape ==
  ASSUME WorldShape, NEW b \in Runtimes, NEW line, NEW rc,
         line.verb = "build" => line.version = pins[1], Affects(b, line, rc)
  PROVE  /\ image' \in [Runtimes -> {"none"} \cup {pair[1] : pair \in Pins}]
         /\ volume' \in [Runtimes -> {"absent", "root", "user"}]
         /\ HasRoot => \A c \in Runtimes : image[c] # "none" => image'[c] # "none"
         /\ line.verb = "build" /\ rc = 0 /\ HasRoot => image'[b] # "none"
  <1>1. Mounted(b) \in [Runtimes -> {"absent", "root", "user"}]
    BY DEF WorldShape, Mounted
  <1>2. image' = IF line.verb = "build" /\ rc = 0
                 THEN [image EXCEPT ![b] = line.version] ELSE image
    BY DEF Affects
  <1>3. volume' \in {volume, Mounted(b), [volume EXCEPT ![b] = "absent"],
                     [volume EXCEPT ![b] = "user"]}
    BY DEF Affects
  <1> QED BY <1>1, <1>2, <1>3 DEF WorldShape, HasRoot

\* What any process's step leaves alone or only adds to.
Leaves(p) ==
  /\ WorldShape'
  /\ UNCHANGED <<call, pins>>
  /\ \A q \in Processes \ {p} : pc'[q] = pc[q] /\ binary'[q] = binary[q]
  /\ \A b \in Runtimes : image[b] # "none" => image'[b] # "none"

LEMMA CommandLeaves ==
  ASSUME FlowShape, WorldShape, WorldInv, NEW p \in Processes, NEW at \in Working, at # "idle",
         NEW line, NEW step \in Working, line.verb = "build" => line.version = pins[1],
         Command(p, at, line, step)
  PROVE  /\ Leaves(p) /\ UNCHANGED binary
         /\ pc'[p] \in {step, "return"}
         /\ line.verb = "build" /\ pc'[p] # "return" => image'[binary[p]] # "none"
  <1>1. PICK rc \in ReturnCodes :
          /\ IF GoesOn(ExitCodeOf(rc)) THEN Goto(p, step) ELSE Return(p, ExitCodeOf(rc))
          /\ Affects(binary[p], line, rc)
    BY DEF Command
  <1>2. pc[p] = at /\ UNCHANGED <<binary, call, pins>>
    BY DEF Command, env
  <1>3. HasRoot
    BY <1>2 DEF WorldInv, Working, Fresh, Idle
  <1>4. binary[p] \in Runtimes
    BY DEF WorldShape
  <1>5. /\ image' \in [Runtimes -> {"none"} \cup {pair[1] : pair \in Pins}]
        /\ volume' \in [Runtimes -> {"absent", "root", "user"}]
        /\ \A c \in Runtimes : image[c] # "none" => image'[c] # "none"
        /\ line.verb = "build" /\ rc = 0 => image'[binary[p]] # "none"
    BY <1>1, <1>3, <1>4, AffectsKeepsShape
  <1>6. GoesOn(ExitCodeOf(rc)) => rc = 0
    BY CodesAreInts DEF GoesOn, ExitCodeOf
  <1>7. /\ pc'[p] \in {step, "return"} /\ (pc'[p] # "return" => rc = 0)
        /\ \A q \in Processes \ {p} : pc'[q] = pc[q]
    BY <1>1, <1>6 DEF Goto, Return, FlowShape
  <1>8. WorldShape'
    BY <1>2, <1>5 DEF WorldShape
  <1> QED BY <1>2, <1>5, <1>7, <1>8 DEF Leaves

\* Once a step leaves the rest alone, only the process that took it matters.
LEMMA LeavesKeepsWorld ==
  ASSUME WorldShape, WorldInv, NEW p \in Processes, Leaves(p),
         pc'[p] \in {"volume_ready", "volume_create", "chown"} => Keeps(p),
         pc'[p] \in {"volume_check", "measure", "volume_remove"} => call[p].sub = "clean",
         pc'[p] \notin Idle => HasRoot,
         NeedsImage(p)' => image'[binary'[p]] # "none"
  PROVE  WorldShape' /\ WorldInv'
  <1>1. ASSUME NEW q \in Processes \ {p}
        PROVE  /\ pc'[q] \in {"volume_ready", "volume_create", "chown"} => Keeps(q)'
               /\ pc'[q] \in {"volume_check", "measure", "volume_remove"} => call'[q].sub = "clean"
               /\ pc'[q] \notin Idle => HasRoot'
               /\ NeedsImage(q)' => image'[binary'[q]] # "none"
    BY <1>1 DEF Leaves, WorldInv, WorldShape, NeedsImage, Keeps, HasRoot
  <1>2. /\ pc'[p] \in {"volume_ready", "volume_create", "chown"} => Keeps(p)'
        /\ pc'[p] \in {"volume_check", "measure", "volume_remove"} => call'[p].sub = "clean"
        /\ pc'[p] \notin Idle => HasRoot'
    BY DEF Leaves, Keeps, HasRoot
  <1>3. WorldInv'
    BY <1>1, <1>2 DEF WorldInv
  <1> QED BY <1>3 DEF Leaves

\* Where the image must be there: NeedsImage of a process that stands at `step`.
NeedsImageAt(p, step) == \/ step \in {"volume_ready", "volume_create", "chown", "run", "running"}
                         \/ /\ call[p].sub = "image"
                            /\ step \in {"prune_images", "prune_builder", "summary"}

LEMMA QuietKeepsWorld ==
  ASSUME FlowShape, WorldShape, WorldInv, NEW p \in Processes, NEW step,
         pc' = [pc EXCEPT ![p] = step], UNCHANGED <<binary, call, image, pins>>,
         volume' \in [Runtimes -> {"absent", "root", "user"}],
         step \in {"volume_ready", "volume_create", "chown"} => Keeps(p),
         step \in {"volume_check", "measure", "volume_remove"} => call[p].sub = "clean",
         step \notin Idle => HasRoot,
         NeedsImageAt(p, step) => image[binary[p]] # "none"
  PROVE  WorldShape' /\ WorldInv'
  <1>1. pc'[p] = step /\ \A q \in Processes \ {p} : pc'[q] = pc[q]
    BY DEF FlowShape
  <1>2. Leaves(p)
    BY <1>1 DEF Leaves, WorldShape
  <1>3. NeedsImage(p)' => image'[binary'[p]] # "none"
    BY <1>1 DEF NeedsImage, NeedsImageAt
  <1> QED BY <1>1, <1>2, <1>3, LeavesKeepsWorld

LEMMA StepKeepsWorld ==
  ASSUME FlowShape, WorldShape, WorldInv, NEW p \in Processes, NEW at, NEW step, at \notin Idle,
         Step(p, at, step),
         step \in {"volume_ready", "volume_create", "chown"} => Keeps(p),
         step \in {"volume_check", "measure", "volume_remove"} => call[p].sub = "clean",
         NeedsImageAt(p, step) => image[binary[p]] # "none"
  PROVE  WorldShape' /\ WorldInv'
  <1>1. /\ pc' = [pc EXCEPT ![p] = step] /\ UNCHANGED <<binary, call, image, pins, volume>>
        /\ pc[p] \notin Idle
    BY DEF Step, Goto, world, env
  <1>2. HasRoot /\ volume' \in [Runtimes -> {"absent", "root", "user"}]
    BY <1>1 DEF WorldInv, WorldShape
  <1> QED BY <1>1, <1>2, QuietKeepsWorld

\* Ends of a process, whatever it came to.
LEMMA EndKeepsWorld ==
  ASSUME FlowShape, WorldShape, WorldInv, NEW p \in Processes,
         NEW step \in {"return", "done", "crashed"}, pc[p] \notin Idle \/ step \in Idle,
         pc' = [pc EXCEPT ![p] = step], UNCHANGED <<binary, call, image, pins, volume>>
  PROVE  WorldShape' /\ WorldInv'
  <1>1. step \notin Idle => HasRoot
    BY DEF WorldInv
  <1>2. volume' \in [Runtimes -> {"absent", "root", "user"}]
    BY DEF WorldShape
  <1>3. ~NeedsImageAt(p, step)
    BY DEF NeedsImageAt
  <1> QED BY <1>1, <1>2, <1>3, QuietKeepsWorld

LEMMA ReturnKeepsWorld ==
  ASSUME FlowShape, WorldShape, WorldInv, NEW p \in Processes, NEW at, NEW code, at \notin Idle,
         Returns(p, at, code)
  PROVE  WorldShape' /\ WorldInv'
  BY EndKeepsWorld DEF Returns, Return, world, env

LEMMA CommandKeepsWorld ==
  ASSUME FlowShape, WorldShape, WorldInv, NEW p \in Processes, NEW at \in Working, at # "idle",
         NEW line, NEW step \in Working, line.verb = "build" => line.version = pins[1],
         Command(p, at, line, step),
         step \in {"volume_ready", "volume_create", "chown"} => Keeps(p),
         step \in {"volume_check", "measure", "volume_remove"} => call[p].sub = "clean",
         NeedsImageAt(p, step) => line.verb = "build" \/ image[binary[p]] # "none"
  PROVE  WorldShape' /\ WorldInv'
  <1>1. /\ Leaves(p) /\ UNCHANGED binary
        /\ pc'[p] \in {step, "return"}
        /\ line.verb = "build" /\ pc'[p] # "return" => image'[binary[p]] # "none"
    BY CommandLeaves
  <1>2. HasRoot
    BY DEF Command, WorldInv, Working, Fresh, Idle
  <1>3. NeedsImage(p)' => pc'[p] = step /\ NeedsImageAt(p, step)
    BY <1>1 DEF NeedsImage, NeedsImageAt, Leaves
  <1>4. NeedsImage(p)' => image'[binary'[p]] # "none"
    BY <1>1, <1>3 DEF Leaves, WorldShape, NeedsImageAt
  <1> QED BY <1>1, <1>2, <1>4, LeavesKeepsWorld

LEMMA ProcessKeepsWorld ==
  ASSUME FlowShape, WorldShape, WorldInv, NEW p \in Processes, Process(p)
  PROVE  WorldShape' /\ WorldInv'
  <1> USE DEF Idle, NeedsImageAt
  <1>0. /\ {"arguments", "detect", "select", "remove", "image_check", "build", "volume_ready",
            "volume_create", "chown", "run", "prune_images", "prune_builder", "summary", "pruned",
            "volume_remove"} \subseteq Working
        /\ AfterPrune(p) = IF call[p].sub = "image" THEN "summary" ELSE "pruned"
        /\ AfterImage(p) = IF call[p].sub = "image" THEN "prune_images"
                           ELSE IF Keeps(p) THEN "volume_ready" ELSE "run"
        /\ AfterCreate(p) \in {"run", "chown"}
    BY DEF Working, Fresh, AfterPrune, AfterImage, AfterCreate
  <1>1. CASE Start(p)
    <2>1. CASE call[p].sub \in Subcommands /\ HasRoot
      BY <1>1, <2>1, QuietKeepsWorld DEF Start, Goto, world, env, WorldShape
    <2>2. CASE ~(call[p].sub \in Subcommands /\ HasRoot)
      BY <1>1, <2>2, EndKeepsWorld DEF Start, world, env
    <2> QED BY <2>1, <2>2
  <1>2. CASE CheckArguments(p)
    BY <1>2, StepKeepsWorld, ReturnKeepsWorld DEF CheckArguments
  <1>3. CASE Detect(p)
    <2>1. CASE up = {}
      BY <1>3, <2>1, EndKeepsWorld DEF Detect, Return, world, env
    <2>2. CASE up # {}
      <3>1. /\ pc' = [pc EXCEPT ![p] = AfterDetect(p)] /\ UNCHANGED <<call, pins, image, volume>>
            /\ binary' = [binary EXCEPT ![p] = IF "docker" \in up THEN "docker" ELSE "podman"]
            /\ pc[p] = "detect"
        BY <1>3, <2>2 DEF Detect, Goto, world, env
      <3>2. Leaves(p)
        BY <3>1 DEF Leaves, FlowShape, WorldShape, Runtimes
      <3>3. /\ pc'[p] \in {"build", "prune_images", "volume_check", "image_check"}
            /\ pc'[p] = "prune_images" => call[p].sub = "prune"
            /\ pc'[p] = "volume_check" => call[p].sub = "clean"
        BY <3>1 DEF FlowShape, AfterDetect, AfterDetectOthers
      <3>4. HasRoot
        BY <3>1 DEF WorldInv
      <3>5. ~NeedsImage(p)'
        BY <3>1, <3>3 DEF NeedsImage
      <3> QED BY <3>2, <3>3, <3>4, <3>5, LeavesKeepsWorld
    <2> QED BY <2>1, <2>2
  <1>4. CASE Finish(p)
    BY <1>4, StepKeepsWorld DEF Finish
  <1>5. CASE CheckImage(p)
    BY <1>0, <1>5, StepKeepsWorld DEF CheckImage
  <1>6. CASE PinsDiffer(p)
    BY <1>6, ReturnKeepsWorld DEF PinsDiffer
  <1>7. CASE Build(p)
    BY <1>0, <1>7, CommandKeepsWorld DEF Build, BuildArguments
  <1>8. CASE ReadyVolume(p)
    <2>1. Keeps(p) /\ image[binary[p]] # "none"
      BY <1>8 DEF ReadyVolume, Step, WorldInv, NeedsImage
    <2> QED BY <1>8, <2>1, StepKeepsWorld DEF ReadyVolume
  <1>9. CASE CreateVolume(p)
    <2>1. Keeps(p) /\ image[binary[p]] # "none"
      BY <1>9 DEF CreateVolume, Command, WorldInv, NeedsImage
    <2> QED BY <1>0, <1>9, <2>1, CommandKeepsWorld DEF CreateVolume, VolumeCreateArguments
  <1>10. CASE ChownVolume(p)
    <2>1. image[binary[p]] # "none"
      BY <1>10 DEF ChownVolume, Command, WorldInv, NeedsImage
    <2> QED BY <1>0, <1>10, <2>1, CommandKeepsWorld DEF ChownVolume, ChownArguments, Run
  <1>11. CASE StartContainer(p)
    <2>1. /\ pc' = [pc EXCEPT ![p] = "running"] /\ UNCHANGED <<binary, call, image, pins>>
          /\ pc[p] = "run" /\ volume' \in {volume, Mounted(binary[p])}
      BY <1>11 DEF StartContainer, Goto, env
    <2>2. volume' \in [Runtimes -> {"absent", "root", "user"}]
      BY <2>1 DEF WorldShape, Mounted
    <2>3. HasRoot /\ image[binary[p]] # "none"
      BY <2>1 DEF WorldInv, NeedsImage
    <2> QED BY <2>1, <2>2, <2>3, QuietKeepsWorld
  <1>12. CASE EndContainer(p)
    BY <1>12, EndKeepsWorld DEF EndContainer, Return, world, env
  <1>13. CASE WriteDirectory(p)
    BY <1>13 DEF WriteDirectory, perProcess, env, WorldShape, WorldInv, NeedsImage, Keeps, HasRoot
  <1>14. CASE PruneImages(p)
    <2>1. call[p].sub = "image" => image[binary[p]] # "none"
      BY <1>14 DEF PruneImages, Command, WorldInv, NeedsImage
    <2> QED BY <1>0, <1>14, <2>1, CommandKeepsWorld DEF PruneImages, PruneImagesArguments
  <1>15. CASE PruneBuilder(p)
    <2>1. call[p].sub = "image" => image[binary[p]] # "none"
      BY <1>15 DEF PruneBuilder, Command, WorldInv, NeedsImage
    <2> QED BY <1>0, <1>15, <2>1, CommandKeepsWorld DEF PruneBuilder, PruneBuilderArguments
  <1>16. CASE Pruned(p)
    BY <1>16, ReturnKeepsWorld DEF Pruned
  <1>17. CASE Summary(p)
    BY <1>0, <1>17, CommandKeepsWorld DEF Summary, SummaryArguments
  <1>18. CASE Select(p)
    <2>1. CASE unsafe
      BY <1>18, <2>1, EndKeepsWorld DEF Select, Return, world, env
    <2>2. CASE ~unsafe
      <3>1. /\ pc' = [pc EXCEPT ![p] = "remove"]
            /\ UNCHANGED <<binary, call, image, pins, volume>> /\ pc[p] = "select"
        BY <1>18, <2>2 DEF Select, Goto, world, env
      <3> QED BY <3>1, QuietKeepsWorld DEF WorldInv, WorldShape
    <2> QED BY <2>1, <2>2
  <1>19. CASE RemoveDirectory(p)
    <2>1. /\ pc' = [pc EXCEPT ![p] = "remove"] /\ pc[p] = "remove"
          /\ UNCHANGED <<binary, call, image, pins, volume>>
      BY <1>19 DEF RemoveDirectory, Goto, env
    <2> QED BY <2>1, QuietKeepsWorld DEF WorldInv, WorldShape
  <1>20. CASE RemoveFails(p)
    BY <1>20, ReturnKeepsWorld DEF RemoveFails
  <1>21. CASE MeasureFails(p)
    BY <1>21, StepKeepsWorld DEF MeasureFails
  <1>22. CASE Removed(p)
    BY <1>22, StepKeepsWorld DEF Removed
  <1>23. CASE CheckVolume(p)
    <2>1. call[p].sub = "clean"
      BY <1>23 DEF CheckVolume, Step, WorldInv
    <2> QED BY <1>23, <2>1, StepKeepsWorld DEF CheckVolume
  <1>24. CASE MeasureVolume(p)
    <2>1. PICK rc \in {0, 1} : Affects(binary[p], SizeArguments, rc)
      BY <1>24 DEF MeasureVolume
    <2>2. /\ pc' = [pc EXCEPT ![p] = "volume_remove"] /\ pc[p] = "measure"
          /\ UNCHANGED <<binary, call, pins>>
      BY <1>24 DEF MeasureVolume, Goto, env
    <2>3. image' = image
      BY <2>1 DEF Affects, SizeArguments, Run
    <2>4. volume' \in [Runtimes -> {"absent", "root", "user"}]
      BY <2>1, AffectsKeepsShape DEF WorldShape, SizeArguments, Run
    <2>5. HasRoot /\ call[p].sub = "clean"
      BY <2>2 DEF WorldInv
    <2> QED BY <2>2, <2>3, <2>4, <2>5, QuietKeepsWorld
  <1>25. CASE RemoveVolume(p)
    <2>1. call[p].sub = "clean"
      BY <1>25 DEF RemoveVolume, Command, WorldInv
    <2> QED BY <1>0, <1>25, <2>1, CommandKeepsWorld DEF RemoveVolume, VolumeRemoveArguments
  <1> QED
    BY <1>1, <1>2, <1>3, <1>4, <1>5, <1>6, <1>7, <1>8, <1>9, <1>10, <1>11, <1>12, <1>13, <1>14,
       <1>15, <1>16, <1>17, <1>18, <1>19, <1>20, <1>21, <1>22, <1>23, <1>24, <1>25 DEF Process

LEMMA NextKeepsWorld ==
  ASSUME FlowShape, WorldShape, WorldInv, [Next]_vars
  PROVE  WorldShape' /\ WorldInv'
  <1>1. ASSUME NEW p \in Processes, Process(p) PROVE WorldShape' /\ WorldInv'
    BY <1>1, ProcessKeepsWorld
  <1>2. ASSUME NEW p \in Processes, Interrupt(p) PROVE WorldShape' /\ WorldInv'
    BY <1>2, EndKeepsWorld DEF Interrupt, Goto, world
  <1>3. ASSUME NEW b \in Runtimes, Outage(b) PROVE WorldShape' /\ WorldInv'
    BY <1>3 DEF Outage, perProcess, world, WorldShape, WorldInv, NeedsImage, Keeps, HasRoot
  <1>4. CASE Edit
    <2>1. /\ \A p \in Processes : pc[p] \in Idle
          /\ UNCHANGED <<pc, binary, call, image, volume>> /\ pins' \in Pins
      BY <1>4 DEF Edit, perProcess, world
    <2> QED BY <2>1 DEF WorldShape, WorldInv, NeedsImage, Keeps, Idle
  <1>5. CASE UNCHANGED vars
    BY <1>5 DEF vars, perProcess, world, env, WorldShape, WorldInv, NeedsImage, Keeps, HasRoot
  <1> QED BY <1>1, <1>2, <1>3, <1>4, <1>5 DEF Next, Done

LEMMA Invariant == Spec => []IInv
  <1>1. Init => IInv
    BY InitFail, InitWorld DEF IInv
  <1>2. IInv /\ [Next]_vars => IInv'
    BY StepsAreMoves, MoveKeepsFlow, StutterKeepsFlow, NextKeepsWorld DEF IInv
  <1> QED BY <1>1, <1>2, PTL DEF Spec

-----------------------------------------------------------------------------
(* Theorems: the image and the volumes *)

\* However many processes build, edit pins or lose their daemon, no step that uses
\* the image comes before it is there (build_container_image_if_missing).
THEOREM ImageComesFirst == Spec => []ImageIsReadyBeforeUse
  <1>1. IInv => ImageIsReadyBeforeUse
    BY DEF IInv, WorldInv, NeedsImage, ImageIsReadyBeforeUse
  <1> QED BY <1>1, Invariant, PTL

AskedFor ==
  \A b \in Runtimes : volume'[b] # volume[b] =>
    /\ \E p \in Processes : /\ binary[p] = b /\ pc'[p] # pc[p]
                            /\ call[p].sub = "clean" \/ Keeps(p)
    /\ volume[b] = "user" => volume'[b] = "absent" /\ ~InUse(b)

\* The volume changes that a process with the right to them may make.
LEMMA ChangeIsAskedFor ==
  ASSUME IInv, NEW p \in Processes, call[p].sub = "clean" \/ Keeps(p), pc'[p] # pc[p],
         \/ volume' \in {volume, Mounted(binary[p])}
         \/ volume' = [Mounted(binary[p]) EXCEPT ![binary[p]] = "user"]
         \/ volume' = [volume EXCEPT ![binary[p]] = "absent"] /\ ~InUse(binary[p])
  PROVE  AskedFor
  <1> USE DEF IInv, WorldShape
  <1>1. ASSUME NEW b \in Runtimes, volume'[b] # volume[b]
        PROVE  b = binary[p] /\ (volume[b] = "user" => volume'[b] = "absent" /\ ~InUse(b))
    <2>1. CASE volume' \in {volume, Mounted(binary[p])}
      BY <1>1, <2>1 DEF Mounted
    <2>2. CASE volume' = [Mounted(binary[p]) EXCEPT ![binary[p]] = "user"]
      BY <1>1, <2>2 DEF Mounted
    <2>3. CASE volume' = [volume EXCEPT ![binary[p]] = "absent"] /\ ~InUse(binary[p])
      BY <1>1, <2>3
    <2> QED BY <2>1, <2>2, <2>3
  <1> QED BY <1>1 DEF AskedFor

LEMMA CommandMovesOn ==
  ASSUME IInv, NEW p \in Processes, NEW at, NEW line, NEW step, step # at, at # "return",
         Command(p, at, line, step)
  PROVE  /\ pc[p] = at /\ pc'[p] # pc[p]
         /\ \E rc \in ReturnCodes : /\ rc = 0 => MaySucceed(binary[p], line)
                                    /\ Affects(binary[p], line, rc)
  BY DEF Command, Goto, Return, IInv, FlowShape

LEMMA CommandWithoutVolume ==
  ASSUME IInv, NEW p \in Processes, NEW at, NEW line, NEW step, Command(p, at, line, step),
         line.verb \notin {"run", "volume create", "volume rm"}
  PROVE  UNCHANGED volume
  BY DEF Command, Affects

LEMMA ProcessAsks ==
  ASSUME IInv, NEW p \in Processes, Process(p)
  PROVE  AskedFor
  <1>1. UNCHANGED volume => AskedFor
    BY DEF AskedFor
  <1>2. CASE CreateVolume(p)
    <2>1. AfterCreate(p) \in {"run", "chown"}
      BY DEF AfterCreate
    <2>2. Command(p, "volume_create", VolumeCreateArguments, AfterCreate(p))
      BY <1>2 DEF CreateVolume
    <2>3. /\ pc[p] = "volume_create" /\ pc'[p] # pc[p]
          /\ \E rc \in ReturnCodes : Affects(binary[p], VolumeCreateArguments, rc)
      BY <2>1, <2>2, CommandMovesOn
    <2>4. Keeps(p)
      BY <2>3 DEF IInv, WorldInv
    <2>5. volume' \in {volume, Mounted(binary[p])}
      BY <2>3 DEF Affects, VolumeCreateArguments
    <2> QED BY <2>3, <2>4, <2>5, ChangeIsAskedFor
  <1>3. CASE ChownVolume(p)
    <2>1. Command(p, "chown", ChownArguments, "run")
      BY <1>3 DEF ChownVolume
    <2>2. /\ pc[p] = "chown" /\ pc'[p] # pc[p]
          /\ \E rc \in ReturnCodes : Affects(binary[p], ChownArguments, rc)
      BY <2>1, CommandMovesOn
    <2>3. Keeps(p)
      BY <2>2 DEF IInv, WorldInv
    <2>4. \/ volume' \in {volume, Mounted(binary[p])}
          \/ volume' = [Mounted(binary[p]) EXCEPT ![binary[p]] = "user"]
      BY <2>2 DEF Affects, ChownArguments, Run, Mounted, IInv, WorldShape
    <2> QED BY <2>2, <2>3, <2>4, ChangeIsAskedFor
  <1>4. CASE StartContainer(p)
    <2>1. /\ pc[p] = "run" /\ pc'[p] # pc[p]
          /\ volume' = IF Keeps(p) THEN Mounted(binary[p]) ELSE volume
      BY <1>4 DEF StartContainer, Goto, ContainerArguments, Run, Settings, IInv, FlowShape
    <2>2. CASE Keeps(p)
      BY <2>1, <2>2, ChangeIsAskedFor
    <2>3. CASE ~Keeps(p)
      BY <2>1, <2>3, <1>1
    <2> QED BY <2>2, <2>3
  <1>5. CASE MeasureVolume(p)
    <2>1. /\ pc[p] = "measure" /\ pc'[p] # pc[p]
          /\ \E rc \in {0, 1} : Affects(binary[p], SizeArguments, rc)
      BY <1>5 DEF MeasureVolume, Goto, IInv, FlowShape
    <2>2. call[p].sub = "clean"
      BY <2>1 DEF IInv, WorldInv
    <2>3. volume' \in {volume, Mounted(binary[p])}
      BY <2>1 DEF Affects, SizeArguments, Run
    <2> QED BY <2>1, <2>2, <2>3, ChangeIsAskedFor
  <1>6. CASE RemoveVolume(p)
    <2>1. Command(p, "volume_remove", VolumeRemoveArguments, "prune_images")
      BY <1>6 DEF RemoveVolume
    <2>2. /\ pc[p] = "volume_remove" /\ pc'[p] # pc[p]
          /\ \E rc \in ReturnCodes : /\ rc = 0 => MaySucceed(binary[p], VolumeRemoveArguments)
                                     /\ Affects(binary[p], VolumeRemoveArguments, rc)
      BY <2>1, CommandMovesOn
    <2>3. call[p].sub = "clean"
      BY <2>2 DEF IInv, WorldInv
    <2>4. \/ volume' = volume
          \/ volume' = [volume EXCEPT ![binary[p]] = "absent"] /\ ~InUse(binary[p])
      BY <2>2 DEF Affects, MaySucceed, VolumeRemoveArguments
    <2> QED BY <2>2, <2>3, <2>4, ChangeIsAskedFor
  <1>7. CASE Build(p) \/ PruneImages(p) \/ PruneBuilder(p) \/ Summary(p)
    BY <1>1, <1>7, CommandWithoutVolume
    DEF Build, PruneImages, PruneBuilder, Summary, BuildArguments, PruneImagesArguments,
        PruneBuilderArguments, SummaryArguments
  <1>8. CASE \/ Start(p) \/ CheckArguments(p) \/ Detect(p) \/ Finish(p) \/ CheckImage(p)
             \/ PinsDiffer(p) \/ ReadyVolume(p) \/ EndContainer(p) \/ WriteDirectory(p)
             \/ Pruned(p) \/ Select(p) \/ RemoveDirectory(p) \/ RemoveFails(p)
             \/ MeasureFails(p) \/ Removed(p) \/ CheckVolume(p)
    BY <1>1, <1>8
    DEF Start, CheckArguments, Detect, Finish, CheckImage, PinsDiffer, ReadyVolume, EndContainer,
        WriteDirectory, Pruned, Select, RemoveDirectory, RemoveFails, MeasureFails, Removed,
        CheckVolume, Step, Returns, world
  <1> QED BY <1>2, <1>3, <1>4, <1>5, <1>6, <1>7, <1>8 DEF Process

\* The kept cache is the user's: of any number of processes only one that was told
\* to keep the cache, or a clean, touches a volume, and what was handed to the host
\* user stays his until a clean removes it from under nobody.
THEOREM VolumesAreAskedFor == Spec => VolumeChangesAreAskedFor
  <1>1. ASSUME IInv, [Next]_vars PROVE AskedFor
    <2>1. ASSUME NEW p \in Processes, Process(p) PROVE AskedFor
      BY <1>1, <2>1, ProcessAsks
    <2>2. CASE UNCHANGED volume
      BY <2>2 DEF AskedFor
    <2>3. (\E p \in Processes : Process(p)) \/ UNCHANGED volume
      BY <1>1 DEF Next, Interrupt, Outage, Edit, Done, world, vars
    <2> QED BY <2>1, <2>2, <2>3
  <1>2. Spec => [][AskedFor]_vars
    BY <1>1, Invariant, PTL DEF Spec
  <1> QED BY <1>2 DEF VolumeChangesAreAskedFor, AskedFor

-----------------------------------------------------------------------------
(* The image and the pins *)

NotForImage == {"image_check", "volume_ready", "volume_create", "chown", "run", "running"}
AfterBuild == {"prune_images", "prune_builder", "summary", "pruned"}

\* `image` has built, and no command of it has failed since.
Built(p) == /\ call[p].sub = "image"
            /\ pc[p] \in AfterBuild \/ (pc[p] = "return" /\ exitCode[p] = 0)

\* While a process runs nobody edits the pins, and whoever builds builds what they say.
PinsInv == \A p \in Processes :
             /\ pc[p] \in NotForImage => call[p].sub # "image"
             /\ Built(p) => pins[1] = pins[2] /\ image[binary[p]] = pins[1]

\* What a step of p leaves to the others.
PinsStay(p) ==
  /\ UNCHANGED <<call, pins>>
  /\ \A q \in Processes \ {p} : /\ pc'[q] = pc[q] /\ binary'[q] = binary[q]
                                /\ exitCode'[q] = exitCode[q]
  /\ \A b \in Runtimes : image'[b] \in {image[b], pins[1]}

LEMMA StayKeepsPins ==
  ASSUME FlowShape, WorldShape, PinsInv, NEW p \in Processes, PinsStay(p),
         pc'[p] \in NotForImage => call[p].sub # "image",
         Built(p)' => pins[1] = pins[2] /\ image'[binary'[p]] = pins[1]
  PROVE  PinsInv'
  <1>1. ASSUME NEW q \in Processes \ {p}
        PROVE  /\ pc'[q] \in NotForImage => call'[q].sub # "image"
               /\ Built(q)' => pins'[1] = pins'[2] /\ image'[binary'[q]] = pins'[1]
    BY <1>1 DEF PinsStay, PinsInv, Built, WorldShape
  <1> QED BY <1>1 DEF PinsStay, PinsInv

\* A step that runs no command.
LEMMA QuietKeepsPins ==
  ASSUME FlowShape, WorldShape, PinsInv, NEW p \in Processes, NEW step,
         pc' = [pc EXCEPT ![p] = step], UNCHANGED <<call, pins, image, binary>>,
         \A q \in Processes \ {p} : exitCode'[q] = exitCode[q],
         step = "return" => exitCode'[p] # 0 \/ Built(p),
         step \in NotForImage => call[p].sub # "image",
         step \in AfterBuild => call[p].sub # "image" \/ Built(p)
  PROVE  PinsInv'
  <1>1. PinsStay(p)
    BY DEF PinsStay, FlowShape
  <1>2. pc'[p] = step
    BY DEF FlowShape
  <1>3. Built(p)' => Built(p)
    BY <1>2 DEF Built, FlowShape
  <1> QED BY <1>1, <1>2, <1>3, StayKeepsPins DEF PinsInv

LEMMA StepKeepsPins ==
  ASSUME FlowShape, WorldShape, PinsInv, NEW p \in Processes, NEW at, NEW step,
         step # "return", Step(p, at, step),
         step \in NotForImage => call[p].sub # "image",
         step \in AfterBuild => call[p].sub # "image" \/ Built(p)
  PROVE  PinsInv'
  BY QuietKeepsPins DEF Step, Goto, world, env, FlowShape

LEMMA ReturnKeepsPins ==
  ASSUME FlowShape, WorldShape, PinsInv, NEW p \in Processes, NEW at, NEW code,
         Returns(p, at, code), code # 0 \/ Built(p)
  PROVE  PinsInv'
  <1>1. /\ pc' = [pc EXCEPT ![p] = "return"] /\ exitCode' = [exitCode EXCEPT ![p] = code]
        /\ UNCHANGED <<call, pins, image, binary>>
    BY DEF Returns, Return, world, env
  <1>2. exitCode'[p] = code /\ \A q \in Processes \ {p} : exitCode'[q] = exitCode[q]
    BY <1>1 DEF FlowShape
  <1> QED BY <1>1, <1>2, QuietKeepsPins DEF NotForImage, AfterBuild

LEMMA CommandKeepsPins ==
  ASSUME FlowShape, WorldShape, PinsInv, NEW p \in Processes, NEW at, NEW line, NEW step,
         step # "return", Command(p, at, line, step),
         line.verb = "build" => line.version = pins[1] /\ pins[1] = pins[2],
         step \in NotForImage => call[p].sub # "image",
         step \in AfterBuild => call[p].sub # "image" \/ Built(p) \/ line.verb = "build"
  PROVE  PinsInv'
  <1>1. PICK rc \in ReturnCodes :
          /\ IF GoesOn(ExitCodeOf(rc)) THEN Goto(p, step) ELSE Return(p, ExitCodeOf(rc))
          /\ image' = IF line.verb = "build" /\ rc = 0
                      THEN [image EXCEPT ![binary[p]] = line.version] ELSE image
    BY DEF Command, Affects
  <1>2. UNCHANGED <<call, pins, binary>> /\ binary[p] \in Runtimes
    BY DEF Command, env, WorldShape
  <1>3. PinsStay(p)
    BY <1>1, <1>2 DEF PinsStay, Goto, Return, FlowShape, WorldShape
  <1>4. CASE ExitCodeOf(rc) = 0
    <2>1. rc = 0 /\ pc' = [pc EXCEPT ![p] = step]
      BY <1>1, <1>4, CodesAreInts DEF ExitCodeOf, GoesOn, Goto
    <2>2. pc'[p] = step
      BY <2>1 DEF FlowShape
    <2>3. ASSUME Built(p)' PROVE pins[1] = pins[2] /\ image'[binary'[p]] = pins[1]
      <3>1. Built(p) \/ line.verb = "build"
        BY <1>2, <2>2, <2>3 DEF Built
      <3> QED BY <1>1, <1>2, <2>1, <3>1 DEF PinsInv, WorldShape
    <2> QED BY <1>3, <2>2, <2>3, StayKeepsPins
  <1>5. CASE ExitCodeOf(rc) # 0
    <2>1. pc'[p] = "return" /\ exitCode'[p] # 0
      BY <1>1, <1>5 DEF GoesOn, Return, FlowShape
    <2>2. ~Built(p)'
      BY <2>1 DEF Built, AfterBuild
    <2> QED BY <1>3, <2>1, <2>2, StayKeepsPins DEF NotForImage
  <1> QED BY <1>4, <1>5

LEMMA ProcessKeepsPins ==
  ASSUME FlowShape, WorldShape, WorldInv, PinsInv, NEW p \in Processes, Process(p)
  PROVE  PinsInv'
  <1> USE DEF NotForImage, AfterBuild
  <1>1. CASE Start(p)
    <2>1. /\ pc[p] = "idle" /\ pc' \in {[pc EXCEPT ![p] = "arguments"], [pc EXCEPT ![p] = "done"]}
          /\ UNCHANGED <<call, pins, image, binary>>
          /\ \A q \in Processes \ {p} : exitCode'[q] = exitCode[q]
      BY <1>1 DEF Start, Goto, world, env, FlowShape
    <2> QED BY <2>1, QuietKeepsPins
  <1>2. CASE CheckArguments(p)
    BY <1>2, StepKeepsPins, ReturnKeepsPins DEF CheckArguments, UsageError
  <1>3. CASE Detect(p)
    <2>1. CASE up = {}
      <3>1. /\ pc' = [pc EXCEPT ![p] = "return"]
            /\ exitCode' = [exitCode EXCEPT ![p] = SetupError]
            /\ UNCHANGED <<call, pins, image, binary>>
        BY <1>3, <2>1 DEF Detect, Return, world, env
      <3>2. exitCode'[p] # 0 /\ \A q \in Processes \ {p} : exitCode'[q] = exitCode[q]
        BY <3>1 DEF FlowShape, SetupError
      <3> QED BY <3>1, <3>2, QuietKeepsPins
    <2>2. CASE up # {}
      <3>1. /\ pc' = [pc EXCEPT ![p] = AfterDetect(p)]
            /\ UNCHANGED <<call, pins, image, exitCode>>
            /\ binary' = [binary EXCEPT ![p] = IF "docker" \in up THEN "docker" ELSE "podman"]
        BY <1>3, <2>2 DEF Detect, Goto, world, env
      <3>2. PinsStay(p)
        BY <3>1 DEF PinsStay, FlowShape, WorldShape
      <3>3. /\ pc'[p] \in {"build", "prune_images", "volume_check", "image_check"}
            /\ pc'[p] \in {"prune_images", "image_check"} => call[p].sub # "image"
        BY <3>1 DEF FlowShape, AfterDetect, AfterDetectOthers
      <3>4. ~Built(p)'
        BY <3>1, <3>3 DEF Built
      <3> QED BY <3>2, <3>3, <3>4, StayKeepsPins
    <2> QED BY <2>1, <2>2
  <1>4. CASE Finish(p)
    BY <1>4, StepKeepsPins DEF Finish
  <1>5. CASE CheckImage(p)
    <2>1. call[p].sub # "image"
      BY <1>5 DEF CheckImage, Step, PinsInv
    <2>2. AfterImage(p) # "return"
      BY DEF AfterImage
    <2> QED BY <1>5, <2>1, <2>2, StepKeepsPins DEF CheckImage
  <1>6. CASE PinsDiffer(p)
    BY <1>6, ReturnKeepsPins DEF PinsDiffer, SetupError
  <1>7. CASE Build(p)
    <2>1. /\ AfterImage(p) # "return"
          /\ AfterImage(p) \in NotForImage => call[p].sub # "image"
      BY DEF AfterImage
    <2> QED BY <1>7, <2>1, CommandKeepsPins DEF Build, BuildArguments
  <1>8. CASE ReadyVolume(p)
    <2>1. call[p].sub # "image"
      BY <1>8 DEF ReadyVolume, Step, PinsInv
    <2> QED BY <1>8, <2>1, StepKeepsPins DEF ReadyVolume
  <1>9. CASE CreateVolume(p)
    <2>1. call[p].sub # "image" /\ AfterCreate(p) # "return"
      BY <1>9 DEF CreateVolume, Command, PinsInv, AfterCreate
    <2> QED BY <1>9, <2>1, CommandKeepsPins DEF CreateVolume, VolumeCreateArguments
  <1>10. CASE ChownVolume(p)
    <2>1. call[p].sub # "image"
      BY <1>10 DEF ChownVolume, Command, PinsInv
    <2> QED BY <1>10, <2>1, CommandKeepsPins DEF ChownVolume, ChownArguments, Run
  <1>11. CASE StartContainer(p)
    <2>1. /\ pc' = [pc EXCEPT ![p] = "running"]
          /\ UNCHANGED <<call, pins, image, binary, exitCode>> /\ call[p].sub # "image"
      BY <1>11 DEF StartContainer, Goto, env, PinsInv
    <2> QED BY <2>1, QuietKeepsPins
  <1>12. CASE EndContainer(p)
    <2>1. call[p].sub # "image"
      BY <1>12 DEF EndContainer, PinsInv
    <2>2. PinsStay(p) /\ pc'[p] = "return"
      BY <1>12 DEF EndContainer, Return, PinsStay, FlowShape, world, env
    <2> QED BY <2>1, <2>2, StayKeepsPins DEF Built, PinsStay
  <1>13. CASE WriteDirectory(p)
    BY <1>13 DEF WriteDirectory, perProcess, env, PinsInv, Built
  <1>14. CASE PruneImages(p)
    <2>1. call[p].sub # "image" \/ Built(p)
      BY <1>14 DEF PruneImages, Command, Built
    <2> QED BY <1>14, <2>1, CommandKeepsPins DEF PruneImages, PruneImagesArguments
  <1>15. CASE PruneBuilder(p)
    <2>1. call[p].sub # "image" \/ Built(p)
      BY <1>15 DEF PruneBuilder, Command, Built
    <2>2. AfterPrune(p) \in AfterBuild
      BY DEF AfterPrune
    <2> QED BY <1>15, <2>1, <2>2, CommandKeepsPins DEF PruneBuilder, PruneBuilderArguments
  <1>16. CASE Pruned(p)
    <2>1. CASE call[p].sub = "image"
      BY <1>16, <2>1, ReturnKeepsPins DEF Pruned, Returns, Built
    <2>2. CASE call[p].sub # "image"
      <3>1. PinsStay(p) /\ pc'[p] = "return"
        BY <1>16 DEF Pruned, Returns, Return, PinsStay, FlowShape, world, env
      <3> QED BY <2>2, <3>1, StayKeepsPins DEF Built, PinsStay
    <2> QED BY <2>1, <2>2
  <1>17. CASE Summary(p)
    <2>1. call[p].sub # "image" \/ Built(p)
      BY <1>17 DEF Summary, Command, Built
    <2> QED BY <1>17, <2>1, CommandKeepsPins DEF Summary, SummaryArguments
  <1>18. CASE Select(p)
    <2>1. /\ pc' = [pc EXCEPT ![p] = IF unsafe THEN "return" ELSE "remove"]
          /\ exitCode' = IF unsafe THEN [exitCode EXCEPT ![p] = SetupError] ELSE exitCode
          /\ UNCHANGED <<call, pins, image, binary>>
      BY <1>18 DEF Select, Return, Goto, world, env
    <2>2. /\ unsafe => exitCode'[p] # 0
          /\ \A q \in Processes \ {p} : exitCode'[q] = exitCode[q]
      BY <2>1 DEF FlowShape, SetupError
    <2> QED BY <2>1, <2>2, QuietKeepsPins
  <1>19. CASE RemoveDirectory(p)
    <2>1. /\ pc' = [pc EXCEPT ![p] = "remove"]
          /\ UNCHANGED <<call, pins, image, binary, exitCode>>
      BY <1>19 DEF RemoveDirectory, Goto, env
    <2> QED BY <2>1, QuietKeepsPins
  <1>20. CASE RemoveFails(p)
    BY <1>20, ReturnKeepsPins DEF RemoveFails, SetupError
  <1>21. CASE MeasureFails(p)
    BY <1>21, StepKeepsPins DEF MeasureFails
  <1>22. CASE Removed(p)
    BY <1>22, StepKeepsPins DEF Removed
  <1>23. CASE CheckVolume(p)
    <2>1. call[p].sub = "clean"
      BY <1>23 DEF CheckVolume, Step, WorldInv
    <2> QED BY <1>23, <2>1, StepKeepsPins DEF CheckVolume
  <1>24. CASE MeasureVolume(p)
    <2>1. /\ pc' = [pc EXCEPT ![p] = "volume_remove"]
          /\ UNCHANGED <<call, pins, image, binary, exitCode>>
      BY <1>24 DEF MeasureVolume, Goto, env, Affects, SizeArguments, Run
    <2> QED BY <2>1, QuietKeepsPins
  <1>25. CASE RemoveVolume(p)
    <2>1. call[p].sub = "clean"
      BY <1>25 DEF RemoveVolume, Command, WorldInv
    <2> QED BY <1>25, <2>1, CommandKeepsPins DEF RemoveVolume, VolumeRemoveArguments
  <1> QED
    BY <1>1, <1>2, <1>3, <1>4, <1>5, <1>6, <1>7, <1>8, <1>9, <1>10, <1>11, <1>12, <1>13, <1>14,
       <1>15, <1>16, <1>17, <1>18, <1>19, <1>20, <1>21, <1>22, <1>23, <1>24, <1>25 DEF Process

LEMMA NextKeepsPins ==
  ASSUME FlowShape, WorldShape, WorldInv, PinsInv, [Next]_vars
  PROVE  PinsInv'
  <1>1. ASSUME NEW p \in Processes, Process(p) PROVE PinsInv'
    BY <1>1, ProcessKeepsPins
  <1>2. ASSUME NEW p \in Processes, Interrupt(p) PROVE PinsInv'
    <2>1. /\ pc' = [pc EXCEPT ![p] = "crashed"]
          /\ UNCHANGED <<call, pins, image, binary, exitCode>>
      BY <1>2 DEF Interrupt, Goto, world
    <2> QED BY <2>1, QuietKeepsPins DEF NotForImage, AfterBuild
  <1>3. ASSUME NEW b \in Runtimes, Outage(b) PROVE PinsInv'
    BY <1>3 DEF Outage, perProcess, world, PinsInv, Built
  <1>4. CASE Edit
    <2>1. (\A p \in Processes : pc[p] \in Idle) /\ UNCHANGED <<pc, call>>
      BY <1>4 DEF Edit, perProcess
    <2> QED BY <2>1 DEF PinsInv, Built, Idle, NotForImage, AfterBuild
  <1>5. CASE UNCHANGED vars
    BY <1>5 DEF vars, perProcess, world, env, PinsInv, Built
  <1> QED BY <1>1, <1>2, <1>3, <1>4, <1>5 DEF Next, Done

\* `image` brings the toolchain to what the pins say, whatever other processes
\* build, prune or clean meanwhile.
THEOREM ImageIsUpToDate == Spec => ImageFollowsThePins
  <1>1. Init => PinsInv
    BY DEF Init, PinsInv, Built, NotForImage, AfterBuild
  <1>2. IInv /\ PinsInv /\ [Next]_vars => PinsInv'
    BY NextKeepsPins DEF IInv
  <1>3. Spec => []PinsInv
    BY <1>1, <1>2, Invariant, PTL DEF Spec
  <1>4. PinsInv => \A p \in Processes :
                     pc[p] = "return" /\ pc'[p] = "done" /\ call[p].sub = "image" /\ exitCode[p] = 0
                       => pins[1] = pins[2] /\ image[binary[p]] = pins[1]
    BY DEF PinsInv, Built
  <1> QED BY <1>3, <1>4, PTL DEF ImageFollowsThePins

-----------------------------------------------------------------------------
(* Induction over the natural numbers, for a set instead of a predicate *)

LEMMA LeastNumber == ASSUME NEW T, T \subseteq Nat, T # {}
                     PROVE  \E m \in T : \A k \in T : m <= k
  <1> DEFINE Less == {pair \in Nat \X Nat : pair[1] < pair[2]}
  <1>1. OpToRel(<, Nat) = Less
    BY DEF OpToRel
  <1>2. IsWellFoundedOn(Less, Nat)
    BY <1>1, NatLessThanWellFounded
  <1>3. \E x \in T : \A y \in T : ~(<<y, x>> \in Less)
    <2> HIDE DEF Less
    <2> QED BY <1>2, WFMin
  <1>4. ASSUME NEW x \in Nat, NEW y \in Nat, ~(<<y, x>> \in Less) PROVE x <= y
    BY <1>4
  <1> QED BY <1>3, <1>4

LEMMA SetInduction == ASSUME NEW T, 0 \in T, \A n \in Nat : n \in T => n + 1 \in T
                      PROVE  \A n \in Nat : n \in T
  <1> SUFFICES ASSUME NEW n \in Nat, n \notin T PROVE FALSE
    OBVIOUS
  <1> DEFINE U == {k \in Nat : k \notin T}
  <1>1. PICK m \in U : \A k \in U : m <= k
    <2>1. U \subseteq Nat /\ U # {}
      OBVIOUS
    <2> HIDE DEF U
    <2> QED BY <2>1, LeastNumber
  <1>2. m # 0 /\ m - 1 \in Nat /\ m - 1 \notin U
    BY <1>1
  <1> QED BY <1>1, <1>2

-----------------------------------------------------------------------------
(* What clean selects *)

DirectoryNames == {Directories[j] : j \in DOMAIN Directories}

\* One turn of the loop over the directories, and the whole of it.
Further(at, d) == IF d \in directories THEN Append(at, d) ELSE at
IsLoop(upTo) == upTo = [n \in 0..Len(Directories) |->
                          IF n = 0 THEN <<>> ELSE Further(upTo[n - 1], Directories[n])]
Loop == CHOOSE upTo : IsLoop(upTo)

LEMMA LoopExists == IsLoop(Loop)
  <1> DEFINE Turns(k, at) == at = [n \in 0..k |-> IF n = 0 THEN <<>>
                                                  ELSE Further(at[n - 1], Directories[n])]
             Reached == {k \in Nat : \E at : Turns(k, at)}
  <1>1. 0 \in Reached
    <2>1. Turns(0, [n \in 0..0 |-> <<>>])
      OBVIOUS
    <2> QED BY <2>1
  <1>2. ASSUME NEW k \in Nat, k \in Reached PROVE k + 1 \in Reached
    <2>1. PICK at : Turns(k, at)
      BY <1>2
    <2> DEFINE on == [n \in 0..k + 1 |-> IF n = k + 1 THEN Further(at[k], Directories[k + 1]) ELSE at[n]]
    <2>2. Turns(k + 1, on)
      BY <2>1
    <2>3. \E more : Turns(k + 1, more)
      BY <2>2
    <2> HIDE DEF Turns
    <2> QED BY <2>3
  <1>3. \A k \in Nat : k \in Reached
    <2> HIDE DEF Reached
    <2> QED BY <1>1, <1>2, SetInduction
  <1>4. Len(Directories) \in Nat
    BY DirectoriesAssumption
  <1>5. \E upTo : IsLoop(upTo)
    BY <1>3, <1>4 DEF IsLoop
  <1> QED BY <1>5 DEF Loop

LEMMA LoopSelects == Selected = Loop[Len(Directories)]
  BY Zenon DEF Selected, Loop, IsLoop, Further

\* Every directory that exists is selected, and no other name.
LEMMA SelectedAreThere ==
  /\ Selected \in Seq(DirectoryNames)
  /\ \A d \in directories \cap DirectoryNames : \E i \in DOMAIN Selected : Selected[i] = d
  <1>1. /\ Len(Directories) \in Nat /\ DOMAIN Directories = 1..Len(Directories)
        /\ \A n \in 1..Len(Directories) : Directories[n] \in DirectoryNames
    BY DirectoriesAssumption DEF DirectoryNames
  <1>2. Loop = [n \in 0..Len(Directories) |->
                  IF n = 0 THEN <<>> ELSE Further(Loop[n - 1], Directories[n])]
    BY LoopExists DEF IsLoop
  <1> DEFINE Has(list, d) == \E i \in DOMAIN list : list[i] = d
             Complete(n) == /\ Loop[n] \in Seq(DirectoryNames)
                            /\ \A m \in 1..n : Directories[m] \in directories => Has(Loop[n], Directories[m])
             Good == {n \in Nat : n <= Len(Directories) => Complete(n)}
  <1>3. 0 \in Good
    BY <1>1, <1>2
  <1>4. ASSUME NEW n \in Nat, n \in Good PROVE n + 1 \in Good
    <2> SUFFICES ASSUME n + 1 <= Len(Directories) PROVE Complete(n + 1)
      OBVIOUS
    <2>1. Complete(n) /\ n + 1 \in 1..Len(Directories)
      BY <1>1, <1>4
    <2>2. Loop[n + 1] = Further(Loop[n], Directories[n + 1])
      BY <1>1, <1>2, <2>1
    <2>3. Directories[n + 1] \in DirectoryNames
      BY <1>1, <2>1
    <2> DEFINE d == Directories[n + 1]
               list == Loop[n]
    <2>4. ASSUME d \in directories
          PROVE  /\ Append(list, d) \in Seq(DirectoryNames) /\ Has(Append(list, d), d)
                 /\ \A e : Has(list, e) => Has(Append(list, d), e)
      <3> HIDE DEF list, d
      <3>1. list \in Seq(DirectoryNames) /\ d \in DirectoryNames
        BY <2>1, <2>3 DEF list, d
      <3>2. /\ Append(list, d) \in Seq(DirectoryNames)
            /\ DOMAIN Append(list, d) = 1..Len(list) + 1 /\ DOMAIN list = 1..Len(list)
            /\ Len(list) \in Nat
            /\ Append(list, d)[Len(list) + 1] = d
            /\ \A i \in 1..Len(list) : Append(list, d)[i] = list[i]
        BY <3>1
      <3>3. Len(list) + 1 \in DOMAIN Append(list, d) /\ \A i \in DOMAIN list : i \in DOMAIN Append(list, d)
        BY <3>2
      <3> QED BY <3>2, <3>3
    <2> HIDE DEF Has
    <2>5. CASE d \in directories
      <3>1. Loop[n + 1] = Append(list, d)
        BY <2>2, <2>5 DEF Further
      <3>2. ASSUME NEW m \in 1..n + 1, Directories[m] \in directories
            PROVE  Has(Append(list, d), Directories[m])
        <4>1. m \in 1..n \/ m = n + 1
          OBVIOUS
        <4> QED BY <2>1, <2>4, <2>5, <3>2, <4>1
      <3> QED BY <2>4, <2>5, <3>1, <3>2
    <2>6. CASE d \notin directories
      <3>1. Loop[n + 1] = list
        BY <2>2, <2>6 DEF Further
      <3>2. \A m \in 1..n + 1 : Directories[m] \in directories => m \in 1..n
        BY <2>6
      <3> QED BY <2>1, <3>1, <3>2
    <2> QED BY <2>5, <2>6
  <1>5. Complete(Len(Directories))
    <2>1. \A n \in Nat : n \in Good
      <3> HIDE DEF Good
      <3> QED BY <1>3, <1>4, SetInduction
    <2>2. Len(Directories) \in Good
      BY <1>1, <2>1
    <2> HIDE DEF Complete
    <2> QED BY <1>1, <2>2
  <1> QED BY <1>1, <1>5, LoopSelects DEF DirectoryNames

-----------------------------------------------------------------------------
(* The types of the rest *)

\* The shell hands on a raw code; nobody else does.
ConvertedInv == \A p \in Processes : call[p].sub # "shell" => exitCode[p] \in {NoCode} \cup 0..255

EnvShape == /\ selected \in [Processes -> Seq(DirectoryNames)]
            /\ directories \subseteq DirectoryNames
            /\ unsafe \in BOOLEAN /\ up \subseteq Runtimes
            /\ edits \in Nat /\ outages \in Nat /\ interrupts \in Nat

LEMMA MoveKeepsConverted ==
  ASSUME FlowShape, ConvertedInv, NEW p \in Processes, Move(p)
  PROVE  ConvertedInv'
  <1>1. UNCHANGED call
    BY DEF Move, Goes, ReturnsOwn, RunsOne, EndsEarly, Finishes, Crashes
  <1>2. CASE UNCHANGED exitCode
    BY <1>1, <1>2 DEF ConvertedInv
  <1>3. ASSUME NEW code, exitCode' = [exitCode EXCEPT ![p] = code],
               call[p].sub # "shell" => code \in 0..255
        PROVE  ConvertedInv'
    BY <1>1, <1>3 DEF ConvertedInv, FlowShape
  <1>4. CASE RunsOne(p)
    <2>1. PICK rc \in ReturnCodes :
            \/ UNCHANGED exitCode
            \/ \E code \in ReturnCodes \cup Codes :
                 Converted(p, code) = ExitCodeOf(rc) /\ exitCode' = [exitCode EXCEPT ![p] = code]
      BY <1>4 DEF RunsOne, Return
    <2>2. ExitCodeOf(rc) \in 0..255
      BY CodesAreInts
    <2> QED BY <1>2, <1>3, <2>1, <2>2 DEF Converted
  <1>5. CASE ReturnsOwn(p) \/ EndsEarly(p)
    BY <1>3, <1>5 DEF ReturnsOwn, EndsEarly, Return, SetupError, UsageError
  <1> QED BY <1>2, <1>4, <1>5 DEF Move, Goes, Finishes, Crashes

LEMMA ProcessKeepsEnv ==
  ASSUME EnvShape, FlowShape, NEW p \in Processes, Process(p)
  PROVE  EnvShape'
  <1>1. CASE UNCHANGED <<selected, directories, env>>
    BY <1>1 DEF EnvShape, env
  <1>2. CASE WriteDirectory(p)
    BY <1>2 DEF WriteDirectory, EnvShape, env, perProcess, DirectoryNames
  <1>3. CASE Select(p)
    <2>1. selected' \in {selected, [selected EXCEPT ![p] = Selected]} /\ UNCHANGED <<directories, env>>
      BY <1>3 DEF Select, world
    <2> QED BY <2>1, SelectedAreThere DEF EnvShape, env
  <1>4. CASE RemoveDirectory(p)
    <2>1. /\ selected[p] # <<>> /\ selected' = [selected EXCEPT ![p] = Tail(selected[p])]
          /\ directories' \subseteq directories /\ UNCHANGED env
      BY <1>4 DEF RemoveDirectory
    <2>2. selected[p] \in Seq(DirectoryNames)
      BY DEF EnvShape
    <2>3. Tail(selected[p]) \in Seq(DirectoryNames)
      BY <2>1, <2>2
    <2> QED BY <2>1, <2>3 DEF EnvShape, env
  <1>5. CASE \/ Build(p) \/ CreateVolume(p) \/ ChownVolume(p) \/ PruneImages(p) \/ PruneBuilder(p)
             \/ Summary(p) \/ RemoveVolume(p) \/ MeasureVolume(p)
    <2>1. UNCHANGED <<selected, directories, env>>
      BY <1>5 DEF Build, CreateVolume, ChownVolume, PruneImages, PruneBuilder, Summary, RemoveVolume,
         MeasureVolume, Command, Affects
    <2> QED BY <1>1, <2>1
  <1>6. CASE \/ Start(p) \/ CheckArguments(p) \/ Detect(p) \/ Finish(p) \/ CheckImage(p)
             \/ PinsDiffer(p) \/ ReadyVolume(p) \/ StartContainer(p) \/ EndContainer(p)
             \/ Pruned(p) \/ RemoveFails(p) \/ MeasureFails(p) \/ Removed(p) \/ CheckVolume(p)
    <2>1. UNCHANGED <<selected, directories, env>>
      BY <1>6 DEF Start, CheckArguments, Detect, Finish, CheckImage, PinsDiffer, ReadyVolume,
         StartContainer, EndContainer, Pruned, RemoveFails, MeasureFails, Removed, CheckVolume,
         Step, Returns, world
    <2> QED BY <1>1, <2>1
  <1> QED BY <1>2, <1>3, <1>4, <1>5, <1>6 DEF Process

LEMMA NextKeepsEnv ==
  ASSUME EnvShape, FlowShape, [Next]_vars
  PROVE  EnvShape'
  <1>1. ASSUME NEW p \in Processes, Process(p) PROVE EnvShape'
    BY <1>1, ProcessKeepsEnv
  <1>2. ASSUME NEW p \in Processes, Interrupt(p) PROVE EnvShape'
    BY <1>2 DEF Interrupt, world, EnvShape
  <1>3. ASSUME NEW b \in Runtimes, Outage(b) PROVE EnvShape'
    BY <1>3 DEF Outage, perProcess, world, EnvShape
  <1>4. CASE Edit
    BY <1>4 DEF Edit, perProcess, world, EnvShape
  <1>5. CASE UNCHANGED vars
    BY <1>5 DEF vars, perProcess, world, env, EnvShape
  <1> QED BY <1>1, <1>2, <1>3, <1>4, <1>5 DEF Next, Done

TypeInv == IInv /\ ConvertedInv /\ EnvShape

LEMMA Types == Spec => []TypeInv
  <1>1. Init => ConvertedInv /\ EnvShape
    BY DEF Init, ConvertedInv, EnvShape, NoCode
  <1>2. IInv /\ ConvertedInv /\ EnvShape /\ [Next]_vars => ConvertedInv' /\ EnvShape'
    <2>1. ASSUME ConvertedInv, UNCHANGED flow PROVE ConvertedInv'
      BY <2>1 DEF ConvertedInv, flow
    <2> QED BY <2>1, StepsAreMoves, MoveKeepsConverted, NextKeepsEnv DEF IInv
  <1> QED BY <1>1, <1>2, Invariant, PTL DEF Spec, TypeInv

LEMMA Elements == \A S : \A list \in Seq(S) : \A i \in DOMAIN list : list[i] \in S
  OBVIOUS

\* All that the processes and the world hold is what the code can put there: of any
\* number of processes, and for any directories, pins and codes.
THEOREM TypeCorrect == Spec => []TypeOK
  <1>1. TypeInv => TypeOK
    <2> SUFFICES ASSUME TypeInv PROVE TypeOK
      OBVIOUS
    <2> USE DEF TypeInv, IInv
    <2>1. pc \in [Processes -> Idle \cup
            {"arguments", "detect", "image_check", "build", "volume_ready", "volume_create", "chown",
             "run", "running", "prune_images", "prune_builder", "pruned", "summary", "select",
             "remove", "volume_check", "measure", "volume_remove", "return"}]
      BY DEF FlowShape, Working, Fresh, Ended, Idle
    <2>2. ASSUME NEW p \in Processes
          PROVE  /\ \A i \in DOMAIN selected[p] : \E j \in DOMAIN Directories :
                      selected[p][i] = Directories[j]
                 /\ \A i \in DOMAIN codes[p] : codes[p][i] \in 0..255
                 /\ exitCode[p] \in {NoCode} \cup -64..255
                 /\ call[p].sub # "shell" => exitCode[p] \in {NoCode} \cup 0..255
      <3>1. selected[p] \in Seq(DirectoryNames) /\ codes[p] \in Seq(0..255)
        BY DEF EnvShape, FlowShape
      <3>2. \A i \in DOMAIN selected[p] : selected[p][i] \in DirectoryNames
        BY <3>1
      <3>3. \A i \in DOMAIN codes[p] : codes[p][i] \in 0..255
        BY <3>1, Elements
      <3>4. /\ exitCode[p] \in {NoCode} \cup -64..255
            /\ call[p].sub # "shell" => exitCode[p] \in {NoCode} \cup 0..255
        BY DEF FlowShape, ConvertedInv
      <3> HIDE DEF TypeInv, IInv
      <3> QED BY <3>2, <3>3, <3>4 DEF DirectoryNames
    <2>3. \A d \in directories : \E j \in DOMAIN Directories : d = Directories[j]
      BY DEF EnvShape, DirectoryNames
    <2> QED BY <2>1, <2>2, <2>3 DEF TypeOK, FlowShape, WorldShape, EnvShape
  <1> QED BY <1>1, Types, PTL

-----------------------------------------------------------------------------
(* One process at a time *)

OneAtATime == \A p, q \in Processes : pc[p] \notin Idle /\ pc[q] \notin Idle => p = q

\* A process moves alone: it alone is under way, and it alone changes its control.
LEMMA MovesAlone ==
  ASSUME Serial, FlowShape, OneAtATime, NEW p \in Processes, Process(p) \/ Interrupt(p)
  PROVE  /\ \A q \in Processes \ {p} : pc[q] \in Idle /\ pc'[q] = pc[q]
         /\ pc[p] = "idle" \/ pc[p] \notin Idle
         /\ UNCHANGED call
  <1>1. /\ UNCHANGED call
        /\ \A q \in Processes \ {p} : pc'[q] = pc[q]
        /\ Start(p) \/ pc[p] \notin Idle
    BY DEF Process, Interrupt, Start, CheckArguments, Detect, Finish, CheckImage, PinsDiffer, Build,
       ReadyVolume, CreateVolume, ChownVolume, StartContainer, EndContainer, WriteDirectory,
       PruneImages, PruneBuilder, Pruned, Summary, Select, RemoveDirectory, RemoveFails,
       MeasureFails, Removed, CheckVolume, MeasureVolume, RemoveVolume, Command, Step, Returns,
       Return, Goto, perProcess, FlowShape, Idle
  <1>2. Start(p) => pc[p] = "idle" /\ \A q \in Processes : pc[q] \in Idle
    BY DEF Start
  <1> QED BY <1>1, <1>2 DEF OneAtATime

LEMMA NextIsOneAtATime ==
  ASSUME Serial, FlowShape, OneAtATime, [Next]_vars
  PROVE  OneAtATime'
  <1>1. ASSUME NEW p \in Processes, Process(p) \/ Interrupt(p) PROVE OneAtATime'
    BY <1>1, MovesAlone DEF OneAtATime
  <1>2. UNCHANGED pc => OneAtATime'
    BY DEF OneAtATime
  <1>3. (\E p \in Processes : Process(p) \/ Interrupt(p)) \/ UNCHANGED pc
    BY DEF Next, Outage, Edit, Done, vars, perProcess
  <1> QED BY <1>1, <1>2, <1>3

-----------------------------------------------------------------------------
(* Whose the volume is *)

\* Every process so far has ended, or gets on, without a failed command, a crash or root.
SetupsComplete == \A q \in Processes : ~call[q].asRoot /\ pc[q] # "crashed" /\ Succeeded(q)

\* A volume is root's only until the chown that comes next; whoever mounts it comes after
\* that, and clean measures only a volume that is there.
OwnInv ==
  SetupsComplete =>
    /\ \A b \in Runtimes : volume[b] = "root" => \E p \in Processes : pc[p] = "chown" /\ binary[p] = b
    /\ \A p \in Processes : /\ pc[p] \in {"run", "running"} /\ Keeps(p) => volume[binary[p]] = "user"
                            /\ pc[p] = "measure" => volume[binary[p]] # "absent"

\* What has failed once has failed for good.
LEMMA SetupsWereComplete ==
  ASSUME FlowShape, [Next]_vars, SetupsComplete'
  PROVE  SetupsComplete
  <1>1. ASSUME NEW p \in Processes, Move(p) PROVE SetupsComplete
    <2>1. UNCHANGED call
      BY <1>1 DEF Move, Goes, ReturnsOwn, RunsOne, EndsEarly, Finishes, Crashes
    <2>2. ASSUME NEW q \in Processes PROVE pc[q] = "crashed" => pc'[q] = "crashed"
      BY <1>1 DEF Move, Goes, ReturnsOwn, RunsOne, EndsEarly, Finishes, Crashes, Return, FlowShape,
         Working, Fresh
    <2>3. ASSUME NEW q \in Processes PROVE Succeeded(q)
      <3>1. CASE codes'[q] = codes[q]
        BY <3>1 DEF SetupsComplete, Succeeded
      <3>2. ASSUME NEW code \in 0..255, codes'[q] = Append(codes[q], code) PROVE Succeeded(q)
        <4>1. codes[q] \in Seq(0..255)
          BY DEF FlowShape
        <4>2. \A i \in DOMAIN codes[q] : i \in DOMAIN codes'[q] /\ codes'[q][i] = codes[q][i]
          BY <3>2, <4>1
        <4> QED BY <4>2 DEF SetupsComplete, Succeeded
      <3>3. codes'[q] = codes[q] \/ \E code \in 0..255 : codes'[q] = Append(codes[q], code)
        BY <1>1, CodesAreInts DEF Move, Goes, ReturnsOwn, RunsOne, EndsEarly, Finishes, Crashes, FlowShape
      <3> QED BY <3>1, <3>2, <3>3
    <2> QED BY <2>1, <2>2, <2>3 DEF SetupsComplete
  <1>2. CASE UNCHANGED flow
    BY <1>2 DEF flow, SetupsComplete, Succeeded
  <1> QED BY <1>1, <1>2, StepsAreMoves

\* After a command that leaves all setups complete, its process goes on.
LEMMA CommandCompletes ==
  ASSUME FlowShape, SetupsComplete', NEW p \in Processes, NEW at, NEW line, NEW step,
         Command(p, at, line, step)
  PROVE  /\ pc[p] = at /\ pc'[p] = step /\ UNCHANGED <<binary, call>>
         /\ MaySucceed(binary[p], line) /\ Affects(binary[p], line, 0)
  <1>1. PICK rc \in ReturnCodes :
          /\ rc = 0 => MaySucceed(binary[p], line)
          /\ codes' = [codes EXCEPT ![p] = Append(codes[p], ExitCodeOf(rc))]
          /\ IF GoesOn(ExitCodeOf(rc)) THEN Goto(p, step) ELSE Return(p, ExitCodeOf(rc))
          /\ Affects(binary[p], line, rc)
    BY DEF Command
  <1>2. ExitCodeOf(rc) = 0
    <2>1. codes[p] \in Seq(0..255) /\ codes'[p] = Append(codes[p], ExitCodeOf(rc))
      BY <1>1 DEF FlowShape
    <2>2. Len(codes[p]) + 1 \in DOMAIN codes'[p] /\ codes'[p][Len(codes[p]) + 1] = ExitCodeOf(rc)
      BY <2>1, CodesAreInts
    <2> QED BY <2>2 DEF SetupsComplete, Succeeded
  <1>3. rc = 0
    BY <1>2, CodesAreInts DEF ExitCodeOf
  <1> QED BY <1>1, <1>2, <1>3 DEF Command, GoesOn, Goto, FlowShape

\* Nobody but p is under way.
Alone(p) == \A q \in Processes \ {p} : pc[q] \in Idle

LEMMA NoRootVolume ==
  ASSUME OwnInv, SetupsComplete, NEW p \in Processes, Alone(p), NEW b \in Runtimes, volume[b] = "root"
  PROVE  pc[p] = "chown" /\ binary[p] = b
  BY DEF OwnInv, Alone, Idle

LEMMA OwnAfter ==
  ASSUME NEW p \in Processes, Alone(p), \A q \in Processes \ {p} : pc'[q] = pc[q],
         \A b \in Runtimes : volume'[b] = "root" => pc'[p] = "chown" /\ binary'[p] = b,
         pc'[p] \in {"run", "running"} /\ Keeps(p)' => volume'[binary'[p]] = "user",
         pc'[p] = "measure" => volume'[binary'[p]] # "absent"
  PROVE  OwnInv'
  <1>1. ASSUME NEW q \in Processes \ {p} PROVE pc'[q] \notin {"run", "running", "measure"}
    BY <1>1 DEF Alone, Idle
  <1> QED BY <1>1 DEF OwnInv

\* A step that leaves the volumes and their owners alone.
LEMMA QuietKeepsOwn ==
  ASSUME OwnInv, SetupsComplete, NEW p \in Processes, Alone(p),
         \A q \in Processes \ {p} : pc'[q] = pc[q],
         UNCHANGED volume, pc[p] # "chown", pc'[p] \notin {"run", "running", "measure"}
  PROVE  OwnInv'
  BY NoRootVolume, OwnAfter

LEMMA CommandKeepsOwn ==
  ASSUME FlowShape, OwnInv, SetupsComplete, SetupsComplete', NEW p \in Processes, Alone(p),
         \A q \in Processes \ {p} : pc'[q] = pc[q],
         NEW at, NEW line, NEW step, at # "chown", step \notin {"run", "running", "measure"},
         line.verb \notin {"run", "volume create", "volume rm"}, Command(p, at, line, step)
  PROVE  OwnInv'
  <1>1. pc[p] = at /\ pc'[p] = step /\ Affects(binary[p], line, 0)
    BY CommandCompletes
  <1>2. UNCHANGED volume
    BY <1>1 DEF Affects
  <1> QED BY <1>1, <1>2, QuietKeepsOwn

LEMMA ProcessKeepsOwn ==
  ASSUME IInv, OwnInv, SetupsComplete, SetupsComplete', NEW p \in Processes, Alone(p),
         \A q \in Processes \ {p} : pc'[q] = pc[q], UNCHANGED call, Process(p)
  PROVE  OwnInv'
  <1> USE DEF IInv
  <1>1. binary[p] \in Runtimes /\ volume \in [Runtimes -> {"absent", "root", "user"}]
    BY DEF WorldShape
  <1>2. pc[p] # "chown" => \A b \in Runtimes : volume[b] # "root"
    BY NoRootVolume
  <1>3. Keeps(p)' = Keeps(p)
    BY DEF Keeps
  <1>4. CASE \/ Start(p) \/ CheckArguments(p) \/ Finish(p) \/ PinsDiffer(p) \/ EndContainer(p)
             \/ Pruned(p) \/ Select(p) \/ RemoveDirectory(p) \/ RemoveFails(p) \/ MeasureFails(p)
             \/ Removed(p) \/ Detect(p)
    <2>1. AfterDetect(p) \in {"build", "prune_images", "volume_check", "image_check"}
      BY DEF AfterDetect, AfterDetectOthers
    <2>2. /\ UNCHANGED volume /\ pc[p] # "chown"
          /\ pc'[p] \in {"arguments", "select", "detect", "return", "done", "remove", "crashed",
                         AfterDetect(p)}
      BY <1>4 DEF Start, CheckArguments, Finish, PinsDiffer, EndContainer, Pruned, Select,
         RemoveDirectory, RemoveFails, MeasureFails, Removed, Detect, Step, Returns, Return, Goto,
         world, FlowShape
    <2> QED BY <2>1, <2>2, QuietKeepsOwn
  <1>5. CASE WriteDirectory(p)
    <2>1. UNCHANGED <<pc, binary, call, volume, codes>>
      BY <1>5 DEF WriteDirectory, perProcess
    <2> QED BY <2>1 DEF OwnInv, SetupsComplete, Succeeded, Keeps
  <1>6. CASE PruneImages(p) \/ PruneBuilder(p) \/ Summary(p)
    <2>1. AfterPrune(p) \in {"summary", "pruned"}
      BY DEF AfterPrune
    <2>2. PICK at \in {"prune_images", "prune_builder", "summary"},
               line \in {PruneImagesArguments, PruneBuilderArguments, SummaryArguments},
               step \in {"prune_builder", "summary", "pruned"} : Command(p, at, line, step)
      BY <1>6, <2>1 DEF PruneImages, PruneBuilder, Summary
    <2>3. line.verb \in {"image prune", "builder prune", "image inspect"}
      <3>1. /\ PruneImagesArguments.verb = "image prune" /\ SummaryArguments.verb = "image inspect"
            /\ PruneBuilderArguments.verb = "builder prune"
        BY DEF PruneImagesArguments, PruneBuilderArguments, SummaryArguments
      <3> QED BY <3>1
    <2> QED BY <2>2, <2>3, CommandKeepsOwn
  <1>7. CASE CheckImage(p) \/ Build(p)
    <2>1. /\ UNCHANGED <<volume, binary>> /\ pc[p] # "chown" /\ pc'[p] \in {AfterImage(p), "build"}
      <3>1. CASE CheckImage(p)
        BY <3>1 DEF CheckImage, Step, Goto, world, FlowShape
      <3>2. CASE Build(p)
        <4>1. pc[p] = "build" /\ pc'[p] = AfterImage(p) /\ UNCHANGED binary
              /\ Affects(binary[p], BuildArguments, 0)
          BY <3>2, CommandCompletes DEF Build
        <4> QED BY <4>1 DEF Affects, BuildArguments
      <3> QED BY <1>7, <3>1, <3>2
    <2>2. AfterImage(p) \in {"run", "volume_ready", "prune_images"} /\ (AfterImage(p) = "run" => ~Keeps(p))
      BY DEF AfterImage
    <2> QED BY <1>2, <1>3, <2>1, <2>2, OwnAfter
  <1>8. CASE ReadyVolume(p) \/ CheckVolume(p)
    <2>1. /\ UNCHANGED <<volume, binary>> /\ pc[p] # "chown"
          /\ pc'[p] \in {"run", "measure"} => volume[binary[p]] # "absent"
          /\ pc'[p] \in {"run", "measure", "volume_create", "prune_images"}
      BY <1>8 DEF ReadyVolume, CheckVolume, Step, Goto, world, FlowShape, VolumeIsPresent
    <2>2. volume[binary[p]] # "absent" => volume[binary[p]] = "user"
      BY <1>1, <1>2, <2>1
    <2> QED BY <1>2, <2>1, <2>2, OwnAfter
  <1>9. CASE CreateVolume(p)
    <2>1. AfterCreate(p) = "chown"
      BY DEF AfterCreate, Settings, SetupsComplete
    <2>2. /\ pc[p] = "volume_create" /\ pc'[p] = "chown" /\ UNCHANGED binary
          /\ Affects(binary[p], VolumeCreateArguments, 0)
      BY <1>9, <2>1, CommandCompletes DEF CreateVolume
    <2>3. volume' = Mounted(binary[p])
      BY <2>2 DEF Affects, VolumeCreateArguments
    <2>4. \A b \in Runtimes : volume'[b] = "root" => b = binary[p]
      BY <1>1, <1>2, <2>2, <2>3 DEF Mounted
    <2> QED BY <2>2, <2>4, OwnAfter
  <1>10. CASE ChownVolume(p)
    <2>1. /\ pc[p] = "chown" /\ pc'[p] = "run" /\ UNCHANGED binary
          /\ MaySucceed(binary[p], ChownArguments) /\ Affects(binary[p], ChownArguments, 0)
      BY <1>10, CommandCompletes DEF ChownVolume
    <2>2. volume' = [volume EXCEPT ![binary[p]] = "user"]
      BY <2>1 DEF Affects, MaySucceed, ChownArguments, Run
    <2>3. \A b \in Runtimes : volume[b] = "root" => b = binary[p]
      BY NoRootVolume
    <2>4. volume'[binary[p]] = "user" /\ \A b \in Runtimes : volume'[b] # "root"
      BY <1>1, <2>2, <2>3
    <2> QED BY <2>1, <2>4, OwnAfter
  <1>11. CASE StartContainer(p)
    <2>1. /\ pc[p] = "run" /\ pc'[p] = "running" /\ UNCHANGED binary
          /\ volume' = IF Keeps(p) THEN Mounted(binary[p]) ELSE volume
      BY <1>11 DEF StartContainer, Goto, ContainerArguments, Run, Settings, FlowShape
    <2>2. Keeps(p) => volume[binary[p]] = "user"
      BY <2>1 DEF OwnInv
    <2>3. UNCHANGED volume
      BY <2>1, <2>2 DEF Mounted
    <2> QED BY <1>2, <1>3, <2>1, <2>2, <2>3, OwnAfter
  <1>12. CASE MeasureVolume(p)
    <2>1. /\ pc[p] = "measure" /\ pc'[p] = "volume_remove" /\ UNCHANGED binary
          /\ volume' \in {volume, Mounted(binary[p])}
      BY <1>12 DEF MeasureVolume, Goto, FlowShape, Affects, SizeArguments, Run
    <2>2. volume[binary[p]] # "absent"
      BY <2>1 DEF OwnInv
    <2>3. UNCHANGED volume
      BY <2>1, <2>2 DEF Mounted
    <2> QED BY <2>1, <2>3, QuietKeepsOwn
  <1>13. CASE RemoveVolume(p)
    <2>1. /\ pc[p] = "volume_remove" /\ pc'[p] = "prune_images" /\ UNCHANGED binary
          /\ Affects(binary[p], VolumeRemoveArguments, 0)
      BY <1>13, CommandCompletes DEF RemoveVolume
    <2>2. volume' = [volume EXCEPT ![binary[p]] = "absent"]
      BY <2>1 DEF Affects, VolumeRemoveArguments
    <2>3. \A b \in Runtimes : volume'[b] # "root"
      BY <1>1, <1>2, <2>1, <2>2
    <2> QED BY <2>1, <2>3, OwnAfter
  <1> QED BY <1>4, <1>5, <1>6, <1>7, <1>8, <1>9, <1>10, <1>11, <1>12, <1>13 DEF Process

LEMMA NextKeepsOwn ==
  ASSUME Serial, IInv, OneAtATime, OwnInv, [Next]_vars
  PROVE  OwnInv'
  <1> SUFFICES ASSUME SetupsComplete' PROVE OwnInv'
    BY DEF OwnInv
  <1>1. SetupsComplete
    BY SetupsWereComplete DEF IInv
  <1>2. ASSUME NEW p \in Processes, Process(p) PROVE OwnInv'
    <2>1. /\ Alone(p) /\ UNCHANGED call
          /\ \A q \in Processes \ {p} : pc'[q] = pc[q]
      BY <1>2, MovesAlone DEF Alone, IInv
    <2> QED BY <1>1, <1>2, <2>1, ProcessKeepsOwn
  <1>3. ASSUME NEW p \in Processes, Interrupt(p) PROVE FALSE
    BY <1>3 DEF Interrupt, Goto, SetupsComplete, IInv, FlowShape
  <1>4. CASE UNCHANGED <<pc, call, binary, codes, volume>>
    BY <1>4 DEF OwnInv, SetupsComplete, Succeeded, Keeps
  <1>5. (\E p \in Processes : Process(p) \/ Interrupt(p)) \/ UNCHANGED <<pc, call, binary, codes, volume>>
    BY DEF Next, Outage, Edit, Done, vars, perProcess, world
  <1> QED BY <1>2, <1>3, <1>4, <1>5

\* What the comment on the chown promises, for as long as one process runs at a time, and
\* none before it ran as root, failed, or was cut short: the volume that a container mounts
\* is the host user's, however many processes there were, whatever they did.
THEOREM OwnedAfterSetups == ASSUME Serial PROVE Spec => []OwnedWhenSetupsComplete
  <1>1. Init => OneAtATime /\ OwnInv
    BY DEF Init, OneAtATime, OwnInv, Idle
  <1>2. IInv /\ OneAtATime /\ OwnInv /\ [Next]_vars => OneAtATime' /\ OwnInv'
    BY NextIsOneAtATime, NextKeepsOwn DEF IInv
  <1>3. OwnInv => OwnedWhenSetupsComplete
    <2> SUFFICES ASSUME OwnInv, NEW p \in Processes, UsesVolume(p), SetupsComplete
                 PROVE  volume[binary[p]] = "user"
      BY DEF OwnedWhenSetupsComplete, SetupsComplete, Succeeded
    <2> QED BY DEF OwnInv, UsesVolume, ContainerArguments, Run, Settings
  <1> QED BY <1>1, <1>2, <1>3, Invariant, PTL DEF Spec

-----------------------------------------------------------------------------
(* What clean leaves *)

Emptied == {"detect", "volume_check", "measure", "volume_remove", "prune_images", "prune_builder",
            "pruned"}
VolumeGone == {"prune_builder", "pruned"}
CleanSteps == Idle \cup Emptied \cup {"arguments", "select", "remove", "return"}

\* How far clean has come at each of its steps.  A volume that it has not seen because its
\* runtime went down is there when it comes to the prune, which then fails: there is no
\* second outage that would bring the runtime back.
CleansSoFar(p) ==
  /\ pc[p] \in CleanSteps
  /\ pc[p] = "remove" => \A d \in directories : \E i \in DOMAIN selected[p] : selected[p][i] = d
  /\ pc[p] \in Emptied \/ (pc[p] = "return" /\ exitCode[p] = 0) => directories = {}
  /\ outages <= 1 =>
       /\ pc[p] = "volume_check" => binary[p] \in up \/ outages = 1
       /\ pc[p] = "prune_images" => volume[binary[p]] = "absent" \/ (binary[p] \notin up /\ outages = 1)
       /\ pc[p] \in VolumeGone \/ (pc[p] = "return" /\ exitCode[p] = 0) => volume[binary[p]] = "absent"

EmptyInv == \A p \in Processes : call[p].sub = "clean" => CleansSoFar(p)

LEMMA EmptyAfter ==
  ASSUME NEW p \in Processes, Alone(p), UNCHANGED call, \A q \in Processes \ {p} : pc'[q] = pc[q],
         call[p].sub = "clean" => CleansSoFar(p)'
  PROVE  EmptyInv'
  <1>1. ASSUME NEW q \in Processes \ {p} PROVE CleansSoFar(q)'
    BY <1>1 DEF Alone, Idle, CleansSoFar, CleanSteps, Emptied, VolumeGone
  <1> QED BY <1>1 DEF EmptyInv

LEMMA CommandOutcome ==
  ASSUME FlowShape, NEW p \in Processes, NEW at, NEW line, NEW step, Command(p, at, line, step)
  PROVE  /\ pc[p] = at /\ UNCHANGED <<binary, call, up, outages, directories>>
         /\ \/ pc'[p] = step /\ Affects(binary[p], line, 0) /\ MaySucceed(binary[p], line)
            \/ pc'[p] = "return" /\ exitCode'[p] # 0
  <1>1. PICK rc \in ReturnCodes :
          /\ rc = 0 => MaySucceed(binary[p], line)
          /\ IF GoesOn(ExitCodeOf(rc)) THEN Goto(p, step) ELSE Return(p, ExitCodeOf(rc))
          /\ Affects(binary[p], line, rc)
    BY DEF Command
  <1>2. pc[p] = at /\ UNCHANGED <<binary, call, up, outages, directories>>
    BY <1>1 DEF Command, env, Affects
  <1>3. CASE ExitCodeOf(rc) = 0
    BY <1>1, <1>2, <1>3, CodesAreInts DEF ExitCodeOf, GoesOn, Goto, FlowShape
  <1>4. CASE ExitCodeOf(rc) # 0
    BY <1>1, <1>2, <1>4 DEF GoesOn, Return, FlowShape
  <1> QED BY <1>3, <1>4

LEMMA TakenFromTheList ==
  ASSUME NEW list \in Seq(DirectoryNames), list # <<>>,
         NEW i \in DOMAIN list, list[i] # Head(list)
  PROVE  i - 1 \in DOMAIN Tail(list) /\ Tail(list)[i - 1] = list[i]
  OBVIOUS

LEMMA CleanGoesOn ==
  ASSUME TypeInv, NEW p \in Processes, call[p].sub = "clean", CleansSoFar(p), Process(p)
  PROVE  CleansSoFar(p)'
  <1> USE DEF TypeInv, IInv, CleanSteps, Emptied, VolumeGone, Idle
  <1>1. CASE Start(p) \/ CheckArguments(p) \/ RemoveFails(p) \/ MeasureFails(p) \/ Finish(p)
    <2>1. \/ pc'[p] \in {"arguments", "select", "done", "crashed"}
          \/ pc'[p] = "return" /\ exitCode'[p] # 0
      BY <1>1 DEF Start, CheckArguments, RemoveFails, MeasureFails, Finish, Step, Returns, Return,
         Goto, FlowShape, SetupError, UsageError
    <2> QED BY <2>1 DEF CleansSoFar
  <1>2. CASE Select(p)
    <2>1. CASE unsafe
      <3>1. pc'[p] = "return" /\ exitCode'[p] # 0
        BY <1>2, <2>1 DEF Select, Return, FlowShape, SetupError
      <3> QED BY <3>1 DEF CleansSoFar
    <2>2. CASE ~unsafe
      <3>1. pc'[p] = "remove" /\ selected'[p] = Selected /\ UNCHANGED directories
        BY <1>2, <2>2 DEF Select, Goto, FlowShape, EnvShape, world
      <3>2. \A d \in directories : \E i \in DOMAIN Selected : Selected[i] = d
        BY SelectedAreThere DEF EnvShape
      <3> QED BY <3>1, <3>2 DEF CleansSoFar
    <2> QED BY <2>1, <2>2
  <1>3. CASE RemoveDirectory(p)
    <2> DEFINE list == selected[p]
    <2>1. /\ pc[p] = "remove" /\ pc'[p] = "remove" /\ list # <<>> /\ list \in Seq(DirectoryNames)
          /\ selected'[p] = Tail(list) /\ directories' = directories \ {Head(list)}
      BY <1>3 DEF RemoveDirectory, Goto, FlowShape, EnvShape
    <2>2. ASSUME NEW d \in directories'
          PROVE  \E i \in DOMAIN selected'[p] : selected'[p][i] = d
      <3>1. PICK i \in DOMAIN list : list[i] = d
        BY <2>1 DEF CleansSoFar
      <3>2. i - 1 \in DOMAIN Tail(list) /\ Tail(list)[i - 1] = d
        BY <2>1, <3>1, TakenFromTheList
      <3> QED BY <2>1, <3>2
    <2> QED BY <2>1, <2>2 DEF CleansSoFar
  <1>4. CASE Removed(p)
    <2>1. /\ pc[p] = "remove" /\ selected[p] = <<>> /\ pc'[p] = "detect" /\ UNCHANGED directories
      BY <1>4 DEF Removed, Step, Goto, FlowShape, world
    <2>2. directories = {}
      BY <2>1 DEF CleansSoFar
    <2> QED BY <2>1, <2>2 DEF CleansSoFar
  <1>5. CASE Detect(p)
    <2>1. CASE up = {}
      <3>1. pc'[p] = "return" /\ exitCode'[p] # 0
        BY <1>5, <2>1 DEF Detect, Return, FlowShape, SetupError
      <3> QED BY <3>1 DEF CleansSoFar
    <2>2. CASE up # {}
      <3>1. /\ pc[p] = "detect" /\ pc'[p] = "volume_check" /\ UNCHANGED <<directories, up>>
            /\ binary'[p] = IF "docker" \in up THEN "docker" ELSE "podman"
        BY <1>5, <2>2 DEF Detect, Goto, FlowShape, WorldShape, AfterDetect, AfterDetectOthers, world, env
      <3>2. binary'[p] \in up
        BY <2>2, <3>1 DEF EnvShape, Runtimes
      <3> QED BY <3>1, <3>2 DEF CleansSoFar
    <2> QED BY <2>1, <2>2
  <1>6. CASE CheckVolume(p)
    <2>1. /\ pc[p] = "volume_check" /\ UNCHANGED <<directories, up, binary, volume, outages>>
          /\ pc'[p] = IF VolumeIsPresent(p) THEN "measure" ELSE "prune_images"
      BY <1>6 DEF CheckVolume, Step, Goto, FlowShape, world, env
    <2> QED BY <2>1 DEF CleansSoFar, VolumeIsPresent
  <1>7. CASE MeasureVolume(p)
    <2>1. /\ pc[p] = "measure" /\ pc'[p] = "volume_remove"
          /\ UNCHANGED <<directories, up, binary, outages>>
      BY <1>7 DEF MeasureVolume, Goto, FlowShape, Affects, env
    <2> QED BY <2>1 DEF CleansSoFar
  <1>8. CASE RemoveVolume(p)
    <2>1. /\ pc[p] = "volume_remove" /\ UNCHANGED <<binary, call, up, outages, directories>>
          /\ \/ pc'[p] = "prune_images" /\ Affects(binary[p], VolumeRemoveArguments, 0)
             \/ pc'[p] = "return" /\ exitCode'[p] # 0
      BY <1>8, CommandOutcome DEF RemoveVolume
    <2>2. Affects(binary[p], VolumeRemoveArguments, 0) => volume'[binary[p]] = "absent"
      BY DEF Affects, VolumeRemoveArguments, WorldShape
    <2> QED BY <2>1, <2>2 DEF CleansSoFar
  <1>9. CASE PruneImages(p) \/ PruneBuilder(p)
    <2>1. PICK line \in {PruneImagesArguments, PruneBuilderArguments},
               at \in {"prune_images", "prune_builder"}, step \in VolumeGone : Command(p, at, line, step)
      <3>1. call[p].sub # "image"
        OBVIOUS
      <3> QED BY <1>9, <3>1 DEF PruneImages, PruneBuilder, AfterPrune
    <2>2. /\ pc[p] = at /\ UNCHANGED <<binary, call, up, outages, directories>>
          /\ \/ pc'[p] = step /\ MaySucceed(binary[p], line)
             \/ pc'[p] = "return" /\ exitCode'[p] # 0
      BY <2>1, CommandOutcome
    <2>3. line.verb \in {"image prune", "builder prune"}
      <3>1. PruneImagesArguments.verb = "image prune" /\ PruneBuilderArguments.verb = "builder prune"
        BY DEF PruneImagesArguments, PruneBuilderArguments
      <3> QED BY <3>1
    <2>4. UNCHANGED volume
      BY <2>1, <2>3, CommandWithoutVolume
    <2>5. MaySucceed(binary[p], line) => binary[p] \in up
      BY DEF MaySucceed
    <2> QED BY <2>2, <2>4, <2>5 DEF CleansSoFar
  <1>10. CASE Pruned(p)
    <2>1. /\ pc[p] = "pruned" /\ pc'[p] = "return"
          /\ UNCHANGED <<binary, up, outages, directories, volume>>
      BY <1>10 DEF Pruned, Returns, Return, FlowShape, world, env
    <2> QED BY <2>1 DEF CleansSoFar
  <1>11. CASE \/ CheckImage(p) \/ PinsDiffer(p) \/ Build(p) \/ ReadyVolume(p) \/ CreateVolume(p)
              \/ ChownVolume(p) \/ StartContainer(p) \/ EndContainer(p) \/ WriteDirectory(p)
              \/ Summary(p)
    <2>1. pc[p] \in {"image_check", "build", "volume_ready", "volume_create", "chown", "run",
                     "running", "summary"}
      BY <1>11 DEF CheckImage, PinsDiffer, Build, ReadyVolume, CreateVolume, ChownVolume,
         StartContainer, EndContainer, WriteDirectory, Summary, Command, Step, Returns
    <2> QED BY <2>1 DEF CleansSoFar
  <1> QED BY <1>1, <1>2, <1>3, <1>4, <1>5, <1>6, <1>7, <1>8, <1>9, <1>10, <1>11 DEF Process

LEMMA NextKeepsEmpty ==
  ASSUME Serial, TypeInv, OneAtATime, EmptyInv, [Next]_vars
  PROVE  EmptyInv'
  <1> USE DEF TypeInv, IInv
  <1>1. ASSUME NEW p \in Processes, Process(p) PROVE EmptyInv'
    <2>1. /\ Alone(p) /\ UNCHANGED call
          /\ \A q \in Processes \ {p} : pc'[q] = pc[q]
      BY <1>1, MovesAlone DEF Alone
    <2>2. call[p].sub = "clean" => CleansSoFar(p)'
      BY <1>1, CleanGoesOn DEF EmptyInv
    <2> QED BY <2>1, <2>2, EmptyAfter
  <1>2. ASSUME NEW p \in Processes, Interrupt(p) PROVE EmptyInv'
    <2>1. /\ Alone(p) /\ UNCHANGED call
          /\ \A q \in Processes \ {p} : pc'[q] = pc[q]
      BY <1>2, MovesAlone DEF Alone
    <2>2. pc'[p] = "crashed"
      BY <1>2 DEF Interrupt, Goto, FlowShape
    <2>3. CleansSoFar(p)'
      BY <2>2 DEF CleansSoFar, CleanSteps, Emptied, VolumeGone, Idle
    <2> QED BY <2>1, <2>3, EmptyAfter
  <1>3. ASSUME NEW b \in Runtimes, Outage(b) PROVE EmptyInv'
    <2>1. /\ outages \in Nat /\ outages' = outages + 1
          /\ UNCHANGED <<pc, call, binary, selected, exitCode, directories, volume>>
      BY <1>3 DEF Outage, EnvShape, perProcess, world
    <2> QED BY <2>1 DEF EmptyInv, CleansSoFar
  <1>4. CASE UNCHANGED <<pc, call, binary, selected, exitCode, directories, volume, up, outages>>
    BY <1>4 DEF EmptyInv, CleansSoFar
  <1>5. CASE Edit \/ UNCHANGED vars
    BY <1>4, <1>5 DEF Edit, vars, perProcess, world, env
  <1> QED BY <1>1, <1>2, <1>3, <1>5 DEF Next, Done

\* A clean that reports success has done all it is there for, for any number of processes
\* before it and any directories they made: each step's failure would have been its code.
THEOREM CleanIsClean == ASSUME Serial PROVE Spec => CleanLeavesNoCache
  <1>1. Init => OneAtATime /\ EmptyInv
    BY DEF Init, OneAtATime, EmptyInv, CleansSoFar, CleanSteps, Emptied, VolumeGone, Idle
  <1>2. TypeInv /\ OneAtATime /\ EmptyInv /\ [Next]_vars => OneAtATime' /\ EmptyInv'
    BY NextIsOneAtATime, NextKeepsEmpty DEF TypeInv, IInv
  <1> DEFINE Cleaned == \A p \in Processes :
               pc[p] = "return" /\ pc'[p] = "done" /\ call[p].sub = "clean" /\ exitCode[p] = 0
               /\ outages <= 1
                 => directories = {} /\ volume[binary[p]] = "absent"
  <1>3. EmptyInv => Cleaned
    BY DEF EmptyInv, CleansSoFar
  <1>4. Spec => [][Cleaned]_vars
    BY <1>1, <1>2, <1>3, Types, PTL DEF Spec
  <1> QED BY <1>4 DEF CleanLeavesNoCache
=============================================================================
