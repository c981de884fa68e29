-------------------------- MODULE PlcRuntimeProofs --------------------------
(***************************************************************************)
(* PlcRuntime's safety properties, for every value of its constants: the   *)
(* type invariant, the failsafe guarantee outside Running, the ban on      *)
(* publishing a scan the fault overtook, and the forces' invariant.        *)
(*                                                                         *)
(* The argument: IInv is inductive. It says what each thread is in the     *)
(* middle of (LockInv, CauseInv), where a program is known (ProgramInv),   *)
(* that only a Running runtime or an overtaken scan publishes (PublishInv) *)
(* and, from that, which output dictionary every reader sees (FailsafeInv).*)
(* CoherentInv, on top of it, follows one publication, and from IInv       *)
(* follows that every step is one of FailsafeRuntime or stutters.          *)
(***************************************************************************)
EXTENDS PlcRuntime, TLAPS

\* The empty dictionaries of a runtime that was just built satisfy the invariant.
LEMMA InitIInv == Init => IInv
  <1> SUFFICES ASSUME Init PROVE IInv
    OBVIOUS
  <1> USE DEF Init, IInv, NoForces, NoScan, Live, NoArgument, NothingSeen, Failsafe,
              ConfigOrNone, InputImages
  <1>1. TypeOK
    <2>1. genChanged \in BOOLEAN /\ raced \in BOOLEAN /\ armed \in BOOLEAN
      OBVIOUS
    <2>2. lastOutputs \in OutputSnapshots
      BY DEF OutputSnapshots, FailsafeOutputs
    <2>3. store \in [state : RuntimeStates, program : ConfigOrNone, inputs : InputImages,
                     outputs : OutputSnapshots]
      BY <2>2 DEF RuntimeStates
    <2>4. queue \in Seq(Posted)
      OBVIOUS
    <2>5. QED
      BY <2>1, <2>2, <2>3, <2>4 DEF TypeOK, RuntimeStates, LoopStates, WatchdogStates
  <1>2. LockInv /\ CauseInv /\ ProgramInv /\ PublishInv /\ ForcesInv
    BY DEF LockInv, CauseInv, ProgramInv, PublishInv, Publishing, ForcesInv
  <1>3. FailsafeInv
    BY DEF FailsafeInv, FailsafeWhileNotRunning
  <1>4. QED
    BY <1>1, <1>2, <1>3

\* Whatever clients do from other threads keeps the invariant.
LEMMA ClientIInv == IInv /\ (Client \/ FinishInstall) => IInv'
  <1> SUFFICES ASSUME IInv, Client \/ FinishInstall
               PROVE  IInv'
    OBVIOUS
  <1> USE ConfigAssumption, OutputsAssumption, InputAssumption
  <1> USE DEF IInv, TypeOK, LockInv, CauseInv, ProgramInv, PublishInv, FailsafeInv,
              ForcesInv, FailsafeWhileNotRunning, Publishing, Quieting, Faulting,
              RuntimeStates, LoopStates, WatchdogStates, Starting, Safing, ConfigOrNone,
              InputImages, Goto, WdGoto, wdUnchanged, mode, guarded, aside, config, image,
              published, pulse, wdVars, webVars, loopVars
  <1>1. ASSUME NEW c \in Posted, Post(c) PROVE IInv'
    BY <1>1 DEF Post
  <1>2. ASSUME NEW v \in InputValues, SetInputs(v) PROVE IInv'
    BY <1>2 DEF SetInputs
  <1>3. ASSUME NEW c \in Configs, BeginInstall(c) PROVE IInv'
    BY <1>3 DEF BeginInstall, SwapDefinitions
  <1>4. CASE FinishInstall
    BY <1>4 DEF FinishInstall, SwapFailsafeAndClear, NoForces
  <1>5. QED
    BY <1>1, <1>2, <1>3, <1>4 DEF Client

\* A command the loop takes from the channel keeps it, whatever its type.
LEMMA CommandIInv == IInv /\ ProcessCommand => IInv'
  <1> SUFFICES ASSUME IInv, ProcessCommand
               PROVE  IInv'
    OBVIOUS
  <1> USE ConfigAssumption, OutputsAssumption, InputAssumption
  <1> USE DEF IInv, TypeOK, LockInv, CauseInv, ProgramInv, PublishInv, FailsafeInv,
              ForcesInv, FailsafeWhileNotRunning, Publishing, Quieting, Faulting,
              RuntimeStates, LoopStates, WatchdogStates, Starting, Safing, ConfigOrNone,
              InputImages, Goto, WdGoto, wdUnchanged, mode, guarded, aside, config, image,
              published, pulse, wdVars, webVars, loopVars
  <1> DEFINE h == Head(queue)
  <1> USE DEF ProcessCommand
  <1>1. h \in Commands /\ queue' \in Seq(Posted)
    BY PostedAssumption
  <1>2. h.type = "Activate" => h.program \in Configs
    BY <1>1 DEF Commands
  <1>3. h.type = "SetManualInput" => h.value \in InputValues
    BY <1>1 DEF Commands
  <1>4. h.type \in {"ForceOutput", "ClearForce"} => h.output \in Outputs
    BY <1>1 DEF Commands
  <1>5. h.type = "ForceOutput" => h.force \in {"timed", "permanent"}
    BY <1>1 DEF Commands
  <1> HIDE DEF h
  <1>6. CASE TakeTransition(h)
    BY <1>1, <1>6 DEF TakeTransition
  <1>7. CASE TakeIdleResume(h)
    BY <1>1, <1>7 DEF TakeIdleResume
  <1>8. CASE TakeActivate(h)
    BY <1>1, <1>2, <1>8 DEF TakeActivate
  <1>9. CASE TakeSetManualInput(h)
    BY <1>1, <1>3, <1>9 DEF TakeSetManualInput
  <1>10. CASE SetForce(h)
    BY <1>1, <1>4, <1>5, <1>10 DEF SetForce, DefinedOutputs
  <1>11. CASE ClearForce(h)
    BY <1>1, <1>4, <1>11 DEF ClearForce
  <1>12. QED
    BY <1>6, <1>7, <1>8, <1>9, <1>10, <1>11 DEF h

\* Every other step of the loop thread keeps it, the end of a scan and shutdown included.
LEMMA LoopIInv == IInv /\ (LoopStep \/ ScanEnds \/ Shutdown) => IInv'
  <1> SUFFICES ASSUME IInv, LoopStep \/ ScanEnds \/ Shutdown
               PROVE  IInv'
    OBVIOUS
  <1> USE ConfigAssumption, OutputsAssumption, InputAssumption
  <1> USE DEF IInv, TypeOK, LockInv, CauseInv, ProgramInv, PublishInv, FailsafeInv,
              ForcesInv, FailsafeWhileNotRunning, Publishing, Quieting, Faulting,
              RuntimeStates, LoopStates, WatchdogStates, Starting, Safing, ConfigOrNone,
              InputImages, Goto, WdGoto, wdUnchanged, mode, guarded, aside, config, image,
              published, pulse, wdVars, webVars, loopVars
  <1>1. CASE ActivateReadFailsafe
    BY <1>1 DEF ActivateReadFailsafe
  <1>2. CASE ActivateInstall
    BY <1>2 DEF ActivateInstall, SwapDefinitions
  <1>3. CASE ActivateInstalled
    BY <1>3 DEF ActivateInstalled, SwapFailsafeAndClear, NoForces, NoArgument
  <1>4. CASE TransitionState
    <2>1. raced' \in BOOLEAN
      BY <1>4 DEF TransitionState, TypeOK
    <2>2. QED
      BY <1>4, <2>1 DEF TransitionState, Target
  <1>5. CASE AdvanceGeneration
    BY <1>5 DEF AdvanceGeneration, AfterGeneration
  <1>6. CASE ShutdownDisarm
    <2>1. armed' \in BOOLEAN
      BY <1>6 DEF ShutdownDisarm, TypeOK
    <2>2. QED
      BY <1>6, <2>1 DEF ShutdownDisarm
  <1>7. CASE ClearForces
    BY <1>7 DEF ClearForces, NoForces
  <1>8. CASE ApplyFailsafeOutputs
    BY <1>8 DEF ApplyFailsafeOutputs, Failsafe, FailsafeOutputs, OutputSnapshots
  <1>9. CASE PublishFailsafe
    <2>1. store' = [state |-> state, program |-> store.program, inputs |-> store.inputs,
                  outputs |-> lastOutputs]
      BY <1>9 DEF PublishFailsafe, TypeOK
    <2>2. QED
      BY <1>9, <2>1 DEF PublishFailsafe, AfterFailsafe
  <1>10. CASE CheckRunning
    <2>1. CASE state = "Running"
      <3>1. armed' = armed /\ loop' = "arm" /\ UNCHANGED <<aside, guarded, mode, published,
                                                          heartbeat, cause, scan>>
        BY <1>10, <2>1 DEF CheckRunning
      <3>2. QED
        BY <3>1, <2>1, <1>10 DEF CheckRunning
    <2>2. CASE state # "Running"
      <3>1. armed' \in BOOLEAN
        BY <1>10, <2>2 DEF CheckRunning
      <3>2. QED
        BY <3>1, <2>2, <1>10 DEF CheckRunning
    <2>3. QED
      BY <2>1, <2>2
  <1>11. CASE Arm
    BY <1>11 DEF Arm
  <1>12. CASE StampArmed
    BY <1>12 DEF StampArmed
  <1>13. CASE CaptureGeneration
    <2>1. genChanged' \in BOOLEAN
      BY <1>13 DEF CaptureGeneration, TypeOK
    <2>2. QED
      BY <1>13, <2>1 DEF CaptureGeneration
  <1>14. CASE SnapshotScan
    BY <1>14 DEF SnapshotScan, ExpireForces, Live, LiveOutputs, DefinedOutputs
  <1>15. CASE DecideScan
    BY <1>15 DEF DecideScan, ScanIsCurrent
  <1>16. CASE PublishMemory
    BY <1>16 DEF PublishMemory, NoScan, Live, LiveOutputs
  <1>17. CASE PublishOutputs
    BY <1>17 DEF PublishOutputs, NoScan, Live, LiveOutputs, OutputSnapshots
  <1>18. CASE UpdateMetrics
    BY <1>18 DEF UpdateMetrics
  <1>19. CASE Heartbeat
    BY <1>19 DEF Heartbeat
  <1>20. CASE NextTick
    BY <1>20 DEF NextTick
  <1>21. CASE ScanReturns
    BY <1>21 DEF ScanReturns
  <1>22. CASE ScanThrows
    BY <1>22 DEF ScanThrows, NoScan
  <1>23. CASE Shutdown
    BY <1>23 DEF Shutdown
  <1>24. CASE ProcessCommand
    BY <1>24, CommandIInv
  <1>25. QED
    BY <1>1, <1>2, <1>3, <1>4, <1>5, <1>6, <1>7, <1>8, <1>9, <1>10, <1>11, <1>12, <1>13,
           <1>14, <1>15, <1>16, <1>17, <1>18, <1>19, <1>20, <1>21, <1>22, <1>23, <1>24
           DEF LoopStep, ScanEnds

\* The timer callback keeps it although it never takes the lock, and so does time.
LEMMA WatchdogIInv == IInv /\ (WatchdogStep \/ Age) => IInv'
  <1> SUFFICES ASSUME IInv, WatchdogStep \/ Age
               PROVE  IInv'
    OBVIOUS
  <1> USE ConfigAssumption, OutputsAssumption, InputAssumption
  <1> USE DEF IInv, TypeOK, LockInv, CauseInv, ProgramInv, PublishInv, FailsafeInv,
              ForcesInv, FailsafeWhileNotRunning, Publishing, Quieting, Faulting,
              RuntimeStates, LoopStates, WatchdogStates, Starting, Safing, ConfigOrNone,
              InputImages, Goto, WdGoto, wdUnchanged, mode, guarded, aside, config, image,
              published, pulse, wdVars, webVars, loopVars
  <1>1. CASE ReadArmed
    BY <1>1 DEF ReadArmed
  <1>2. CASE ReadIsAlive
    BY <1>2 DEF ReadIsAlive, IsAlive
  <1>3. CASE CheckTimeout
    BY <1>3 DEF CheckTimeout
  <1>4. CASE WatchdogFault
    <2> HIDE DEF Publishing
    <2>1. raced' = Publishing
      BY <1>4 DEF WatchdogFault
    <2>2. CASE Publishing
      <3>1. raced' = TRUE
        BY <2>1, <2>2
      <3>2. QED
        BY <1>4, <2>2, <3>1 DEF WatchdogFault, Publishing
    <2>3. CASE ~Publishing
      <3>1. raced' = FALSE
        BY <2>1, <2>3
      <3>2. raced' \in BOOLEAN
        BY <3>1
      <3>3. QED
        BY <1>4, <2>3, <3>2 DEF WatchdogFault, Publishing
    <2>4. QED
      BY <2>2, <2>3
  <1>5. CASE WatchdogAdvance
    BY <1>5 DEF WatchdogAdvance
  <1>6. CASE WatchdogDisarm
    <2>1. armed' \in BOOLEAN
      BY <1>6 DEF WatchdogDisarm, TypeOK
    <2>2. QED
      BY <1>6, <2>1 DEF WatchdogDisarm
  <1>7. CASE ReadDefinitions
    BY <1>7 DEF ReadDefinitions
  <1>8. CASE ReadFailsafe
    BY <1>8 DEF ReadFailsafe
  <1>9. CASE WatchdogOutputs
    BY <1>9 DEF WatchdogOutputs, Failsafe, FailsafeOutputs, OutputSnapshots, NothingSeen
  <1>10. CASE WatchdogPublish
    <2>1. store' = [state |-> state, program |-> store.program, inputs |-> store.inputs,
                  outputs |-> lastOutputs]
      BY <1>10 DEF WatchdogPublish, TypeOK
    <2>2. QED
      BY <1>10, <2>1 DEF WatchdogPublish
  <1>11. CASE Age
    BY <1>11 DEF Age
  <1>12. QED
    BY <1>1, <1>2, <1>3, <1>4, <1>5, <1>6, <1>7, <1>8, <1>9, <1>10, <1>11 DEF
           WatchdogStep

\* IInv holds in every reachable state.
THEOREM InductiveInvariant == Spec => []IInv
  <1>1. IInv /\ [Next]_vars => IInv'
    <2> SUFFICES ASSUME IInv, [Next]_vars PROVE IInv'
      OBVIOUS
    <2>1. CASE Client \/ FinishInstall
      BY <2>1, ClientIInv
    <2>2. CASE LoopStep \/ ScanEnds \/ Shutdown
      BY <2>2, LoopIInv
    <2>3. CASE WatchdogStep \/ Age
      BY <2>3, WatchdogIInv
    <2>4. CASE UNCHANGED vars
      BY <2>4 DEF vars, IInv, TypeOK, LockInv, CauseInv, ProgramInv, PublishInv,
         FailsafeInv, ForcesInv, FailsafeWhileNotRunning, Publishing, Quieting, Faulting,
         mode, config, image, published, pulse, wdVars, webVars, loopVars
    <2>5. QED
      BY <2>1, <2>2, <2>3, <2>4 DEF Next, TimelyNext
  <1>2. QED
    BY <1>1, InitIInv, PTL DEF Spec

\* Every field of the runtime, the watchdog and the store keeps its type.
THEOREM TypeCorrect == Spec => []TypeOK
  <1>1. IInv => TypeOK
    BY DEF IInv
  <1>2. QED
    BY <1>1, InductiveInvariant, PTL

\* A Running runtime has a program, so every armed scan can renew the heartbeat.
THEOREM RunningIsInstalled == Spec => []RunningHasProgram
  <1>1. IInv => RunningHasProgram
    BY DEF IInv, ProgramInv, RunningHasProgram
  <1>2. QED
    BY <1>1, InductiveInvariant, PTL

\* Outside Running, and but for an overtaken scan, everybody reads the failsafe outputs.
THEOREM FailsafeIsKept == Spec => []FailsafeWhileNotRunning
  <1>1. IInv => FailsafeWhileNotRunning
    BY DEF IInv, FailsafeInv
  <1>2. QED
    BY <1>1, InductiveInvariant, PTL

\* A force targets an output the installed configuration defines.
THEOREM ForcesStayDefined == Spec => []ForcesAreDefined
  <1>1. IInv => ForcesAreDefined
    BY DEF IInv, ForcesInv, LockInv, ForcesAreDefined
  <1>2. QED
    BY <1>1, InductiveInvariant, PTL

\* A scan that was before its decision point when the runtime left Running publishes
\* nothing, then or later.
THEOREM OvertakenScanIsDropped == Spec => LiveOnlyWhileRunning
  <1> DEFINE Kept == store'.outputs # store.outputs /\ store'.outputs.kind = "live" =>
                       state = "Running" \/ raced
  <1>1. IInv /\ [Next]_vars => [Kept]_store
    <2> SUFFICES ASSUME IInv, Next, store' # store PROVE Kept
      BY DEF vars, published
    <2> USE DEF IInv, TypeOK, Goto, WdGoto
    <2>1. CASE PublishFailsafe
      <3>1. store'.outputs = lastOutputs
        BY <2>1 DEF PublishFailsafe
      <3>2. QED
        BY <2>1, <3>1 DEF PublishFailsafe, FailsafeInv
    <2>2. CASE UpdateMetrics
      BY <2>2 DEF UpdateMetrics, FailsafeInv, PublishInv, Publishing
    <2>3. CASE WatchdogPublish
      <3>1. store'.outputs = lastOutputs
        BY <2>3 DEF WatchdogPublish
      <3>2. QED
        BY <2>3, <3>1 DEF WatchdogPublish, FailsafeInv, PublishInv, Publishing
    <2>4. QED
      BY <2>1, <2>2, <2>3 DEF Next, TimelyNext, Client, LoopStep, ScanEnds, WatchdogStep,
         Post, SetInputs, BeginInstall, FinishInstall, ProcessCommand, ActivateReadFailsafe,
         ActivateInstall, ActivateInstalled, TransitionState, AdvanceGeneration,
         ShutdownDisarm, ClearForces, ApplyFailsafeOutputs, CheckRunning, Arm, StampArmed,
         CaptureGeneration, SnapshotScan, ExpireForces, DecideScan, PublishMemory, PublishOutputs,
         Heartbeat, NextTick, ScanReturns, ScanThrows, Shutdown, ReadArmed, ReadIsAlive,
         CheckTimeout, WatchdogFault, WatchdogAdvance, WatchdogDisarm, ReadDefinitions,
         ReadFailsafe, WatchdogOutputs, Age, published, wdUnchanged
  <1>2. QED
    BY <1>1, InductiveInvariant, PTL DEF Spec, LiveOnlyWhileRunning

-----------------------------------------------------------------------------
(* The observable snapshot. The loop alone writes live outputs, and it      *)
(* writes the inputs they belong to first and the store last.               *)

Matches(outputs, shownInputs) == outputs.kind = "live" => outputs.inputs = shownInputs

CoherentInv ==
  /\ loop = "publishOutputs" => scan.inputs = lastInputs
  /\ loop = "publishStore" => Matches(lastOutputs, lastInputs)
  /\ loop # "publishStore" => Matches(lastOutputs, store.inputs) /\ Matches(store.outputs, store.inputs)
  /\ loop \in {"failsafeStore", "metrics"} => lastOutputs.kind = "failsafe"

\* Only the writes of the outputs, of the inputs and of the store matter, and the places
\* between them.
LEMMA CoherentStep ==
  ASSUME IInv, CoherentInv, [Next]_vars
  PROVE  CoherentInv'
  <1> USE DEF IInv, TypeOK, Goto, WdGoto, CoherentInv
  <1>1. ASSUME UNCHANGED <<published, scan>>,
               loop' \notin {"publishOutputs", "publishStore", "failsafeStore", "metrics"} \/ loop' = loop,
               loop = "publishStore" => loop' = loop
        PROVE  CoherentInv'
    BY <1>1 DEF published, Matches
  <1>2. ASSUME loop' \notin {"publishOutputs", "publishStore", "failsafeStore", "metrics"},
               loop # "publishStore", UNCHANGED published
        PROVE  CoherentInv'
    BY <1>2 DEF published, Matches
  <1>3. CASE ApplyFailsafeOutputs \/ WatchdogOutputs
    <2>1. /\ lastOutputs'.kind = "failsafe" /\ UNCHANGED <<lastInputs, store>>
          /\ loop' = loop \/ (loop = "failsafeOutputs" /\ loop' = "failsafeStore")
          /\ UNCHANGED scan
      BY <1>3 DEF ApplyFailsafeOutputs, WatchdogOutputs, Failsafe, wdUnchanged, loopVars
    <2>2. QED
      BY <2>1 DEF Matches
  <1>4. CASE PublishFailsafe \/ WatchdogPublish
    <2>1. store'.inputs = store.inputs /\ store'.outputs = lastOutputs
      BY <1>4 DEF PublishFailsafe, WatchdogPublish
    <2>2. CASE PublishFailsafe
      <3>1. /\ loop = "failsafeStore" /\ loop' \in {"metrics", "done", "drain"}
            /\ UNCHANGED <<lastInputs, lastOutputs>>
        BY <2>2 DEF PublishFailsafe, AfterFailsafe
      <3>2. QED
        BY <2>1, <3>1 DEF Matches
    <2>3. CASE WatchdogPublish
      <3>1. UNCHANGED <<loop, scan, lastInputs, lastOutputs>>
        BY <2>3 DEF WatchdogPublish, wdUnchanged, loopVars
      <3>2. QED
        BY <2>1, <3>1 DEF Matches
    <2>4. QED
      BY <1>4, <2>2, <2>3
  <1>5. CASE UpdateMetrics
    <2>1. /\ store'.inputs = lastInputs /\ store'.outputs = lastOutputs
          /\ UNCHANGED <<lastInputs, lastOutputs>>
          /\ \/ loop = "publishStore" /\ loop' = "heartbeat"
             \/ loop = "metrics" /\ loop' = "wait"
      BY <1>5 DEF UpdateMetrics
    <2>2. QED
      BY <2>1 DEF Matches
  <1>6. CASE PublishMemory
    BY <1>6 DEF PublishMemory, Matches
  <1>7. CASE PublishOutputs
    BY <1>7 DEF PublishOutputs, Matches
  <1>8. CASE \/ ScanThrows \/ SnapshotScan \/ DecideScan \/ ScanReturns
    BY <1>2, <1>8 DEF ScanThrows, SnapshotScan, DecideScan, ScanReturns
  <1>9. CASE \/ ProcessCommand \/ ActivateReadFailsafe \/ ActivateInstall \/ ActivateInstalled
             \/ TransitionState \/ AdvanceGeneration \/ ShutdownDisarm \/ ClearForces
    BY <1>1, <1>2, <1>9 DEF ProcessCommand, TakeTransition, TakeIdleResume, TakeActivate, TakeSetManualInput,
         SetForce, ClearForce, ActivateReadFailsafe, ActivateInstall, ActivateInstalled, TransitionState,
         AdvanceGeneration, AfterGeneration, ShutdownDisarm, ClearForces, loopVars
  <1>10. CASE \/ CheckRunning \/ Arm \/ StampArmed \/ CaptureGeneration \/ Heartbeat \/ NextTick \/ Shutdown
    BY <1>2, <1>10 DEF CheckRunning, Arm, StampArmed, CaptureGeneration, Heartbeat, NextTick, Shutdown
  <1>11. CASE \/ Client \/ FinishInstall \/ Age
    BY <1>1, <1>11 DEF Client, Post, SetInputs, BeginInstall, FinishInstall, Age, loopVars
  <1>12. CASE \/ ReadArmed \/ ReadIsAlive \/ CheckTimeout \/ WatchdogFault \/ WatchdogAdvance
              \/ WatchdogDisarm \/ ReadDefinitions \/ ReadFailsafe
    BY <1>1, <1>12 DEF ReadArmed, ReadIsAlive, CheckTimeout, WatchdogFault, WatchdogAdvance, WatchdogDisarm,
         ReadDefinitions, ReadFailsafe, wdUnchanged, loopVars, published
  <1>13. CASE UNCHANGED vars
    BY <1>1, <1>13 DEF vars, loopVars
  <1>14. QED
    BY <1>3, <1>4, <1>5, <1>6, <1>7, <1>8, <1>9, <1>10, <1>11, <1>12, <1>13
    DEF Next, TimelyNext, LoopStep, ScanEnds, WatchdogStep

\* The snapshot a client reads pairs live outputs with the inputs of their scan, whenever
\* the loop and the watchdog are not in the middle of publishing.
THEOREM SnapshotPairs == Spec => []SnapshotIsCoherent
  <1>1. Init => CoherentInv
    BY DEF Init, CoherentInv, Matches, Failsafe
  <1>2. CoherentInv => SnapshotIsCoherent
    BY DEF CoherentInv, Matches, SnapshotIsCoherent, Publishing
  <1>3. IInv /\ CoherentInv /\ [Next]_vars => CoherentInv'
    BY CoherentStep
  <1>4. QED
    BY <1>1, <1>2, <1>3, InductiveInvariant, PTL DEF Spec
-----------------------------------------------------------------------------
(* The refinement. Only the steps that write the state, take or publish a   *)
(* scan's result, or publish failsafe outputs are steps of FailsafeRuntime. *)

\* A step that leaves all that FailsafeRuntime sees as it is stutters.
LEMMA Stutters ==
  ASSUME UNCHANGED <<state, raced>>, store'.outputs.kind = store.outputs.kind,
         Publishing' <=> Publishing, Quieting' <=> Quieting, Faulting' <=> Faulting
  PROVE  UNCHANGED Promise!vars
  <1>1. Publishing' = Publishing
    BY DEF Publishing
  <1>2. Halting' = Halting
    BY DEF Halting
  <1>3. QED
    BY <1>1, <1>2 DEF Promise!vars

\* The members of Halting, by thread.
LEMMA HaltingThreads ==
  /\ "loop" \in Halting <=> Quieting
  /\ "watchdog" \in Halting <=> Faulting
  /\ Halting \subseteq {"loop", "watchdog"}
  BY DEF Halting

\* Whatever a thread writes as the state is a start or the halt of that thread.
LEMMA TransitionImplements ==
  ASSUME IInv, TransitionState
  PROVE  Promise!Next
  <1> USE DEF IInv, TypeOK, Goto, TransitionState
  <1>1. ~Publishing /\ ~Publishing' /\ ~Quieting /\ (Quieting' <=> cause \in Safing)
    BY DEF Publishing, Quieting
  <1>2. Faulting' <=> Faulting
    BY DEF Faulting, aside, wdVars
  <1>3. store'.outputs.kind = store.outputs.kind /\ raced' = Publishing /\ Publishing' = Publishing
    <2>1. Publishing = FALSE /\ Publishing' = FALSE
      BY <1>1 DEF Publishing
    <2>2. QED
      BY <2>1 DEF published
  <1>4. CASE cause \in Starting
    <2>1. Halting' = Halting
      BY <1>1, <1>2, <1>4 DEF Halting, Starting, Safing
    <2>2. Promise!Start
      BY <1>1, <1>3, <1>4, <2>1 DEF Promise!Start, Target
    <2>3. QED
      BY <2>2 DEF Promise!Next
  <1>5. CASE cause \in Safing
    <2>1. Halting' = Halting \cup {"loop"} /\ "loop" \notin Halting
      BY <1>1, <1>2, <1>5 DEF Halting
    <2>2. state' \in {"Stopped", "Faulted"}
      BY <1>5 DEF Target, Safing, Starting
    <2>3. Promise!Halt("loop")
      BY <1>1, <1>3, <2>1, <2>2 DEF Promise!Halt
    <2>4. QED
      BY <2>3 DEF Promise!Next
  <1>6. cause \in Starting \cup Safing
    BY DEF CauseInv
  <1>7. QED
    BY <1>4, <1>5, <1>6

\* Publishing what is committed, and the failsafe of a halt, are the steps of that name.
LEMMA PublicationImplements ==
  ASSUME IInv, PublishFailsafe \/ UpdateMetrics \/ WatchdogPublish
  PROVE  [Promise!Next]_(Promise!vars)
  <1> USE DEF IInv, TypeOK, Goto, WdGoto
  <1>1. store'.outputs.kind = lastOutputs.kind /\ UNCHANGED <<state, raced>>
    <2>1. store'.outputs = lastOutputs
      <3>1. CASE PublishFailsafe
        BY <3>1 DEF PublishFailsafe
      <3>2. CASE UpdateMetrics
        BY <3>2 DEF UpdateMetrics
      <3>3. CASE WatchdogPublish
        BY <3>3 DEF WatchdogPublish
      <3>4. QED
        BY <3>1, <3>2, <3>3
    <2>2. UNCHANGED <<state, raced>>
      BY DEF PublishFailsafe, UpdateMetrics, WatchdogPublish, mode
    <2>3. QED
      BY <2>1, <2>2
  <1>2. lastOutputs.kind \in {"live", "failsafe"}
    BY DEF OutputSnapshots, LiveOutputs, FailsafeOutputs
  <1>3. CASE PublishFailsafe
    <2>1. Quieting /\ ~Quieting' /\ ~Publishing /\ ~Publishing' /\ (Faulting' <=> Faulting)
      <3>1. loop = "failsafeStore" /\ cause \in Safing /\ loop' \in {"metrics", "done", "drain"}
        BY <1>3 DEF PublishFailsafe, CauseInv, AfterFailsafe
      <3>2. UNCHANGED watchdog
        BY <1>3 DEF PublishFailsafe, aside, wdVars
      <3>3. QED
        BY <3>1, <3>2 DEF Quieting, Publishing, Faulting
    <2>2. Publishing' = Publishing
      BY <2>1 DEF Publishing
    <2>3. "loop" \in Halting /\ Halting' = Halting \ {"loop"}
      BY <2>1 DEF Halting
    <2>4. lastOutputs.kind = "failsafe"
      BY <1>3 DEF PublishFailsafe, FailsafeInv
    <2>5. Promise!Settle("loop")
      BY <1>1, <2>2, <2>3, <2>4 DEF Promise!Settle
    <2>6. QED
      BY <2>5 DEF Promise!Next
  <1>4. CASE UpdateMetrics /\ loop = "metrics"
    <2>1. store'.outputs.kind = store.outputs.kind
      BY <1>1, <1>4 DEF FailsafeInv
    <2>2. loop' = "wait" /\ UNCHANGED <<cause, watchdog>>
      BY <1>4 DEF UpdateMetrics, aside, wdVars
    <2>3. UNCHANGED Promise!vars
      BY <1>1, <1>4, <2>1, <2>2, Stutters DEF Publishing, Quieting, Faulting
    <2>4. QED
      BY <2>3
  <1>5. CASE UpdateMetrics /\ loop = "publishStore"
    <2>1. loop' = "heartbeat" /\ UNCHANGED <<cause, watchdog>>
      BY <1>5 DEF UpdateMetrics, aside, wdVars
    <2>2. Publishing /\ ~Publishing'
      BY <1>5, <2>1 DEF Publishing
    <2>3. Halting' = Halting
      BY <1>5, <2>1 DEF Halting, Quieting, Faulting
    <2>4. lastOutputs.kind = "failsafe" => Halting # {} \/ store.outputs.kind = "failsafe"
      BY <1>5, HaltingThreads DEF FailsafeInv, Faulting
    <2>5. Promise!Show
      BY <1>1, <1>2, <2>2, <2>3, <2>4 DEF Promise!Show
    <2>6. QED
      BY <2>5 DEF Promise!Next
  <1>6. CASE WatchdogPublish
    <2>1. UNCHANGED <<loop, cause>> /\ watchdog = "store" /\ watchdog' = "idle"
      BY <1>6 DEF WatchdogPublish, wdUnchanged, loopVars
    <2>2. Publishing' = Publishing /\ (Quieting' <=> Quieting)
      BY <2>1 DEF Publishing, Quieting
    <2>3. "watchdog" \in Halting /\ Halting' = Halting \ {"watchdog"}
      BY <2>1, <2>2 DEF Halting, Faulting
    <2>4. lastOutputs.kind = "failsafe" \/ Promise!Excused("watchdog")
      BY <1>2, <2>1, HaltingThreads DEF FailsafeInv, Promise!Excused
    <2>5. CASE lastOutputs.kind = "failsafe"
      BY <1>1, <2>2, <2>3, <2>5 DEF Promise!Settle, Promise!Next
    <2>6. CASE lastOutputs.kind = "live" /\ loop = "publishStore"
      <3>1. Publishing
        BY <2>6 DEF Publishing
      <3>2. Promise!Settle("watchdog")
        BY <1>1, <2>2, <2>3, <2>4, <2>6, <3>1 DEF Promise!Settle
      <3>3. QED
        BY <3>2 DEF Promise!Next
    <2>7. CASE lastOutputs.kind = "live" /\ loop # "publishStore"
      <3>1. store'.outputs.kind = store.outputs.kind
        BY <1>1, <2>7 DEF FailsafeInv
      <3>2. Promise!Settle("watchdog")
        BY <1>1, <2>2, <2>3, <2>4, <2>7, <3>1 DEF Promise!Settle
      <3>3. QED
        BY <3>2 DEF Promise!Next
    <2>8. QED
      BY <1>2, <2>5, <2>6, <2>7
  <1>7. QED
    BY <1>3, <1>4, <1>5, <1>6 DEF UpdateMetrics

\* Every step of the three threads is one of FailsafeRuntime, or stutters.
LEMMA StepImplements ==
  ASSUME IInv, [Next]_vars
  PROVE  [Promise!Next]_(Promise!vars)
  <1> USE DEF Goto, WdGoto, mode, published, aside, wdVars, loopVars, wdUnchanged
  <1>1. CASE TransitionState
    BY <1>1, TransitionImplements
  <1>2. CASE PublishFailsafe \/ UpdateMetrics \/ WatchdogPublish
    BY <1>2, PublicationImplements
  <1>3. CASE WatchdogFault
    <2>1. UNCHANGED <<loop, cause>> /\ watchdog = "fault" /\ watchdog' = "generation"
      BY <1>3 DEF WatchdogFault
    <2>2. Publishing' = Publishing /\ (Quieting' <=> Quieting)
      BY <2>1 DEF Publishing, Quieting
    <2>3. "watchdog" \notin Halting /\ Halting' = Halting \cup {"watchdog"}
      BY <2>1, <2>2 DEF Halting, Faulting
    <2>4. Promise!Halt("watchdog")
      BY <1>3, <2>2, <2>3 DEF WatchdogFault, Promise!Halt
    <2>5. QED
      BY <2>4 DEF Promise!Next
  <1>4. CASE DecideScan
    <2>1. UNCHANGED <<state, raced, store, cause, watchdog>> /\ loop = "decide"
      BY <1>4 DEF DecideScan
    <2>2. CASE ScanIsCurrent
      <3>1. loop' = "publishMemory" /\ state = "Running"
        BY <1>4, <2>2 DEF DecideScan, ScanIsCurrent
      <3>2. ~Publishing /\ Publishing'
        BY <2>1, <3>1 DEF Publishing
      <3>3. Halting' = Halting
        BY <2>1, <3>1 DEF Halting, Quieting, Faulting
      <3>4. Promise!Commit
        BY <2>1, <3>1, <3>2, <3>3 DEF Promise!Commit
      <3>5. QED
        BY <3>4 DEF Promise!Next
    <2>3. CASE ~ScanIsCurrent
      <3>1. loop' = "wait"
        BY <1>4, <2>3 DEF DecideScan
      <3>2. UNCHANGED Promise!vars
        BY <2>1, <3>1, Stutters DEF Publishing, Quieting, Faulting
      <3>3. QED
        BY <3>2
    <2>4. QED
      BY <2>2, <2>3
  <1> DEFINE Steady == UNCHANGED <<state, raced, store>>
  <1>5. CASE \/ AdvanceGeneration \/ ShutdownDisarm \/ ClearForces \/ ApplyFailsafeOutputs
    <2>1. Steady /\ UNCHANGED watchdog
      BY <1>5 DEF AdvanceGeneration, ShutdownDisarm, ClearForces, ApplyFailsafeOutputs
    <2>2. CASE AdvanceGeneration
      <3>1. Quieting' <=> Quieting
        BY <2>2 DEF AdvanceGeneration, AfterGeneration, Quieting, Safing, Starting, IInv, TypeOK, CauseInv
      <3>2. Publishing' <=> Publishing
        BY <2>2 DEF AdvanceGeneration, AfterGeneration, Publishing
      <3>3. QED
        BY <2>1, <3>1, <3>2, Stutters DEF Faulting
    <2>3. CASE ShutdownDisarm \/ ClearForces \/ ApplyFailsafeOutputs
      <3>1. (Quieting' <=> Quieting) /\ (Publishing' <=> Publishing)
        BY <2>3 DEF ShutdownDisarm, ClearForces, ApplyFailsafeOutputs, Quieting, Publishing
      <3>2. QED
        BY <2>1, <3>1, Stutters DEF Faulting
    <2>4. QED
      BY <1>5, <2>2, <2>3
  <1>6. CASE PublishMemory \/ PublishOutputs
    <2>1. Steady /\ UNCHANGED <<watchdog, cause>> /\ Publishing /\ Publishing' /\ ~Quieting /\ ~Quieting'
      BY <1>6 DEF PublishMemory, PublishOutputs, Publishing, Quieting
    <2>2. QED
      BY <2>1, Stutters DEF Faulting
  <1>7. CASE \/ ProcessCommand \/ ActivateReadFailsafe \/ ActivateInstall \/ ActivateInstalled
             \/ ScanThrows \/ Shutdown
    <2>1. Steady /\ UNCHANGED watchdog
      BY <1>7 DEF ProcessCommand, ActivateReadFailsafe, ActivateInstall, ActivateInstalled, ScanThrows, Shutdown
    <2>2. ~Quieting /\ ~Quieting' /\ ~Publishing /\ ~Publishing'
      BY <1>7 DEF ProcessCommand, TakeTransition, TakeIdleResume, TakeActivate, TakeSetManualInput, SetForce,
         ClearForce, ActivateReadFailsafe, ActivateInstall, ActivateInstalled, ScanThrows, Shutdown, Quieting,
         Publishing
    <2>3. QED
      BY <2>1, <2>2, Stutters DEF Faulting
  <1>8. CASE \/ CheckRunning \/ Arm \/ StampArmed \/ CaptureGeneration \/ SnapshotScan \/ ScanReturns
             \/ Heartbeat \/ NextTick
    <2>1. Steady /\ UNCHANGED <<watchdog, cause>>
      BY <1>8 DEF CheckRunning, Arm, StampArmed, CaptureGeneration, SnapshotScan, ScanReturns, Heartbeat, NextTick
    <2>2. ~Quieting /\ ~Quieting' /\ ~Publishing /\ ~Publishing'
      BY <1>8 DEF CheckRunning, Arm, StampArmed, CaptureGeneration, SnapshotScan, ScanReturns, Heartbeat, NextTick,
         Quieting, Publishing
    <2>3. QED
      BY <2>1, <2>2, Stutters DEF Faulting
  <1>9. CASE Client \/ FinishInstall \/ Age
    <2>1. Steady /\ UNCHANGED <<watchdog, loop, cause>>
      BY <1>9 DEF Client, Post, SetInputs, BeginInstall, FinishInstall, Age
    <2>2. QED
      BY <2>1, Stutters DEF Publishing, Quieting, Faulting
  <1>10. CASE \/ ReadArmed \/ ReadIsAlive \/ CheckTimeout \/ WatchdogAdvance \/ WatchdogDisarm
              \/ ReadDefinitions \/ ReadFailsafe \/ WatchdogOutputs
    <2>1. Steady /\ UNCHANGED <<loop, cause>> /\ (Faulting' <=> Faulting)
      BY <1>10 DEF ReadArmed, ReadIsAlive, CheckTimeout, WatchdogAdvance, WatchdogDisarm, ReadDefinitions,
         ReadFailsafe, WatchdogOutputs, Faulting
    <2>2. QED
      BY <2>1, Stutters DEF Publishing, Quieting
  <1>11. CASE UNCHANGED vars
    BY <1>11, Stutters DEF vars, Publishing, Quieting, Faulting
  <1>12. QED
    BY <1>1, <1>2, <1>3, <1>4, <1>5, <1>6, <1>7, <1>8, <1>9, <1>10, <1>11
       DEF Next, TimelyNext, LoopStep, ScanEnds, WatchdogStep

\* PlcRuntime implements FailsafeRuntime: its threads, interleaved at every shared read and
\* write, commit only scans of a Running runtime, and each halt ends in failsafe outputs.
THEOREM Refinement == Spec => ImplementsFailsafeRuntime
  <1>1. Init => Promise!Init
    <2> SUFFICES ASSUME Init PROVE Promise!Init
      OBVIOUS
    <2>1. ~Publishing /\ ~Quieting /\ ~Faulting
      BY DEF Init, Publishing, Quieting, Faulting
    <2>2. Halting = {}
      BY <2>1 DEF Halting
    <2>3. QED
      BY <2>1, <2>2 DEF Init, Promise!Init, Failsafe
  <1>2. IInv /\ [Next]_vars => [Promise!Next]_(Promise!vars)
    BY StepImplements
  <1>3. QED
    BY <1>1, <1>2, InductiveInvariant, PTL DEF Spec, ImplementsFailsafeRuntime, Promise!Spec

\* What FailsafeRuntime says is enough: whatever implements it shows failsafe outputs when
\* it is out of Running and no halt is under way, unless a halt overtook a committed scan.
THEOREM PromiseSuffices == Promise!Spec => []Promise!SettledIsSafe
  <1>1. Promise!Init => Promise!SettledIsSafe
    BY DEF Promise!Init, Promise!SettledIsSafe
  <1>2. Promise!SettledIsSafe /\ [Promise!Next]_(Promise!vars) => Promise!SettledIsSafe'
    <2> SUFFICES ASSUME Promise!SettledIsSafe, [Promise!Next]_(Promise!vars)
                 PROVE  Promise!SettledIsSafe'
      OBVIOUS
    <2> USE DEF Promise!SettledIsSafe
    <2>1. CASE Promise!Start
      BY <2>1 DEF Promise!Start
    <2>2. CASE Promise!Commit
      BY <2>2 DEF Promise!Commit
    <2>3. CASE Promise!Show
      BY <2>3 DEF Promise!Show
    <2>4. ASSUME NEW t \in {"loop", "watchdog"}, Promise!Halt(t)
          PROVE  Promise!SettledIsSafe'
      BY <2>4 DEF Promise!Halt
    <2>5. ASSUME NEW t \in {"loop", "watchdog"}, Promise!Settle(t)
          PROVE  Promise!SettledIsSafe'
      BY <2>5 DEF Promise!Settle, Promise!Excused
    <2>6. CASE UNCHANGED Promise!vars
      BY <2>6 DEF Promise!vars
    <2>7. QED
      BY <2>1, <2>2, <2>3, <2>4, <2>5, <2>6 DEF Promise!Next
  <1>3. QED
    BY <1>1, <1>2, PTL DEF Promise!Spec

=============================================================================
