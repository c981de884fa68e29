------------------------------ MODULE PlcRuntime ------------------------------
(***************************************************************************)
(* The concurrency core of AtlasSoftPLC: PlcRuntimeService (the scan loop, *)
(* a BackgroundService), WatchdogService (a thread-pool timer) and the     *)
(* RuntimeStateStore they both publish to.                                 *)
(*                                                                         *)
(* Three actors interleave here:                                           *)
(*   - the loop thread, which drains commands, arms the watchdog, runs a   *)
(*     scan inside lock(_coordinator) and publishes its result after the   *)
(*     lock is released (control variable loop);                           *)
(*   - the watchdog timer, which never takes the lock: it faults the       *)
(*     runtime and publishes the failsafe outputs (control variable        *)
(*     watchdog);                                                          *)
(*   - web threads, which post commands, overwrite inputs and install      *)
(*     configurations under the lock (control variable installer).         *)
(*                                                                         *)
(* Data is abstracted to its provenance: an output dictionary records      *)
(* whether a scan or the failsafe path built it and from which             *)
(* configuration, inputs and forces.                                       *)
(***************************************************************************)
EXTENDS Naturals, Sequences

CONSTANTS
  Configs,      \* installable configurations: program, definitions, failsafe values
  NoConfig,     \* nothing installed yet (null program, empty dictionaries)
  Outputs,      \* output variables
  OutputsOf,    \* the outputs a configuration defines
  InputValues,  \* contents of the input image
  NoInput,      \* the empty input image
  Posted,       \* the commands clients post
  QueueBound    \* bound on pending commands (the channel of the code is unbounded)

ConfigOrNone == Configs \cup {NoConfig}

\* RuntimeCommand records; SetRuntimeMode writes a field nothing reads back.
Commands ==
       [type : {"Pause", "Resume", "Stop"}]
  \cup [type : {"Activate"}, program : Configs]
  \cup [type : {"SetManualInput"}, value : InputValues]
  \cup [type : {"ForceOutput"}, output : Outputs, force : {"timed", "permanent"}]
  \cup [type : {"ClearForce"}, output : Outputs]

ASSUME ConfigAssumption == NoConfig \notin Configs
ASSUME OutputsAssumption == OutputsOf \in [Configs -> SUBSET Outputs]
ASSUME InputAssumption == NoInput \notin InputValues
ASSUME PostedAssumption == Posted \subseteq Commands
ASSUME QueueAssumption == QueueBound \in Nat \ {0}

VARIABLES
  queue,           \* _commands
  state,           \* _state
  genChanged,      \* _scanGeneration differs from the one the scan in flight captured
  lock,            \* owner of lock(_coordinator): "free", "loop" or "web"
  program,         \* _activeProgram
  definitions,     \* _definitions (and _outputTypes, _interlocks)
  failsafeValues,  \* _failsafeValues
  memory,          \* _memory: the program whose scan produced it
  inputs,          \* _inputs
  forcedOutputs,   \* _forcedOutputs
  lastInputs,      \* _lastInputs
  lastOutputs,     \* _lastOutputs
  store,           \* RuntimeStateStore._current
  armed,           \* WatchdogService._armed
  heartbeat,       \* age of _lastHeartbeatTicks
  loop,            \* control state of the loop thread
  cause,           \* what the loop's transition in progress is for
  argument,        \* ActivateProgram's arguments, read before the lock
  scan,            \* the scan in flight: its request and the result it will give
  watchdog,        \* control state of the timer callback
  seen,            \* configuration references the callback has read
  installer,       \* control state of the web thread inside InstallConfiguration
  installing,      \* the configuration that thread installs
  raced            \* history: a fault overtook a scan after its decision point

loopVars  == <<loop, cause, argument, scan>>
wdVars    == <<watchdog, seen>>
webVars   == <<installer, installing>>
config    == <<program, definitions, failsafeValues>>
image     == <<memory, inputs, forcedOutputs>>
published == <<lastInputs, lastOutputs, store>>
pulse     == <<armed, heartbeat>>
mode      == <<state, genChanged, raced>>
\* What lock(_coordinator) guards, and what most steps of the loop leave alone.
guarded == <<lock, config, image>>
aside   == <<queue, argument, wdVars, webVars>>
vars == <<queue, mode, lock, config, image, published, pulse, loopVars, wdVars, webVars>>

-----------------------------------------------------------------------------
(* Output dictionaries, by provenance.                                     *)

\* What a scan computes: its program, the inputs it read, the forces it applied.
Live(p, i, f) == [kind |-> "live", program |-> p, inputs |-> i, forced |-> f]

\* What ApplyFailsafeOutputsCore builds from a definitions and a failsafe dictionary.
Failsafe(d, f) == [kind |-> "failsafe", definitions |-> d, failsafe |-> f]

InputImages == InputValues \cup {NoInput}

LiveOutputs ==
  [kind : {"live"}, program : Configs, inputs : InputImages, forced : SUBSET Outputs]
FailsafeOutputs ==
  [kind : {"failsafe"}, definitions : ConfigOrNone, failsafe : ConfigOrNone]
OutputSnapshots == LiveOutputs \cup FailsafeOutputs

DefinedOutputs(c) == IF c = NoConfig THEN {} ELSE OutputsOf[c]

NoForces == [o \in Outputs |-> "none"]

NoScan == Live(NoConfig, NoInput, {})
NoArgument == [program |-> NoConfig, definitions |-> NoConfig, failsafe |-> NoConfig]
NothingSeen == [definitions |-> NoConfig, failsafe |-> NoConfig]

Init ==
  /\ queue = <<>>
  /\ state = "Stopped" /\ genChanged = FALSE /\ raced = FALSE
  /\ lock = "free"
  /\ program = NoConfig /\ definitions = NoConfig /\ failsafeValues = NoConfig
  /\ memory = NoConfig /\ inputs = NoInput /\ forcedOutputs = NoForces
  /\ lastInputs = NoInput /\ lastOutputs = Failsafe(NoConfig, NoConfig)
  /\ store = [state |-> "Stopped", program |-> NoConfig, inputs |-> NoInput,
              outputs |-> Failsafe(NoConfig, NoConfig)]
  /\ armed = FALSE /\ heartbeat = "fresh"
  /\ loop = "drain" /\ cause = "none" /\ argument = NoArgument /\ scan = NoScan
  /\ watchdog = "idle" /\ seen = NothingSeen
  /\ installer = "idle" /\ installing = NoConfig

-----------------------------------------------------------------------------
(* Web threads: controllers, SimulationService and ModbusIoService.        *)

\* Post: a TryWrite on the channel.
Post(c) ==
  /\ Len(queue) < QueueBound
  /\ queue' = Append(queue, c)
  /\ UNCHANGED <<mode, guarded, published, pulse, loopVars, wdVars, webVars>>

\* v is the image that results from merging the written variables into the old one.
SetInputs(v) ==
  /\ lock = "free"
  /\ inputs' = v
  /\ UNCHANGED <<queue, mode, lock, config, memory, forcedOutputs, published, pulse,
                loopVars, wdVars, webVars>>

\* The two halves of InstallConfiguration's critical section. _definitions and
\* _failsafeValues are volatile, and the watchdog reads them without the lock.
SwapDefinitions(p, d) ==
  /\ program' = p
  /\ definitions' = d
  /\ UNCHANGED failsafeValues

\* Mutated form: the forces of the replaced configuration stay.
SwapFailsafeAndClear_KeepForces(f) ==
  /\ failsafeValues' = f
  /\ memory' = NoConfig
  /\ inputs' = NoInput
  /\ UNCHANGED <<program, definitions, forcedOutputs>>

SwapFailsafeAndClear(f) ==
  /\ failsafeValues' = f
  /\ memory' = NoConfig
  /\ inputs' = NoInput
  /\ forcedOutputs' = NoForces
  /\ UNCHANGED <<program, definitions>>

BeginInstall(c) ==
  /\ installer = "idle" /\ lock = "free"
  /\ lock' = "web" /\ installer' = "failsafe" /\ installing' = c
  /\ SwapDefinitions(c, c)
  /\ UNCHANGED <<queue, mode, image, published, pulse, loopVars, wdVars>>

FinishInstall ==
  /\ installer = "failsafe"
  /\ SwapFailsafeAndClear(installing)
  /\ lock' = "free" /\ installer' = "idle" /\ installing' = NoConfig
  /\ UNCHANGED <<queue, mode, published, pulse, loopVars, wdVars>>

-----------------------------------------------------------------------------
(* The loop thread: ExecuteAsync and ProcessCommand.                       *)

Goto(here, there) == loop = here /\ loop' = there

\* Mutated form: Resume no longer asks for a program.
TakeTransition_Unguarded(h) ==
  /\ h.type \in {"Stop", "Pause", "Resume"}
  /\ Goto("drain", "transition") /\ cause' = h.type
  /\ UNCHANGED <<argument, scan, guarded>>

\* Stop, Pause, and Resume when a program is installed, start a transition.
TakeTransition(h) ==
  /\ h.type \in {"Stop", "Pause", "Resume"}
  /\ h.type = "Resume" => program # NoConfig
  /\ Goto("drain", "transition") /\ cause' = h.type
  /\ UNCHANGED <<argument, scan, guarded>>

\* Resume without a program is ignored.
TakeIdleResume(h) ==
  /\ h.type = "Resume" /\ program = NoConfig
  /\ loop = "drain"
  /\ UNCHANGED <<loopVars, guarded>>

\* ActivateProgram: _definitions is the first argument read, outside any lock.
TakeActivate(h) ==
  /\ h.type = "Activate"
  /\ Goto("drain", "activate")
  /\ argument' = [program |-> h.program, definitions |-> definitions, failsafe |-> NoConfig]
  /\ UNCHANGED <<cause, scan, guarded>>

TakeSetManualInput(h) ==
  /\ h.type = "SetManualInput" /\ loop = "drain" /\ lock = "free"
  /\ inputs' = h.value
  /\ UNCHANGED <<loopVars, lock, config, memory, forcedOutputs>>

\* SetForce ignores a variable the installed configuration does not define as output.
SetForce(h) ==
  /\ h.type = "ForceOutput" /\ loop = "drain" /\ lock = "free"
  /\ forcedOutputs' = IF h.output \in DefinedOutputs(definitions)
                        THEN [forcedOutputs EXCEPT ![h.output] = h.force]
                        ELSE forcedOutputs
  /\ UNCHANGED <<loopVars, lock, config, memory, inputs>>

ClearForce(h) ==
  /\ h.type = "ClearForce" /\ loop = "drain" /\ lock = "free"
  /\ forcedOutputs' = [forcedOutputs EXCEPT ![h.output] = "none"]
  /\ UNCHANGED <<loopVars, lock, config, memory, inputs>>

ProcessCommand ==
  /\ queue # <<>> /\ queue' = Tail(queue)
  /\ LET h == Head(queue) IN
       \/ TakeTransition(h)
       \/ TakeIdleResume(h)
       \/ TakeActivate(h)
       \/ TakeSetManualInput(h)
       \/ SetForce(h)
       \/ ClearForce(h)
  /\ UNCHANGED <<mode, published, pulse, wdVars, webVars>>

\* ActivateProgram reads _failsafeValues, then installs under the lock, then runs.
ActivateReadFailsafe ==
  /\ Goto("activate", "installDefinitions")
  /\ argument' = [argument EXCEPT !.failsafe = failsafeValues]
  /\ UNCHANGED <<queue, mode, guarded, published, pulse, cause, scan, wdVars, webVars>>

ActivateInstall ==
  /\ Goto("installDefinitions", "installFailsafe")
  /\ lock = "free" /\ lock' = "loop"
  /\ SwapDefinitions(argument.program, argument.definitions)
  /\ UNCHANGED <<aside, mode, image, published, pulse, cause, scan>>

ActivateInstalled ==
  /\ Goto("installFailsafe", "transition") /\ cause' = "Activate"
  /\ lock' = "free"
  /\ SwapFailsafeAndClear(argument.failsafe)
  /\ argument' = NoArgument
  /\ UNCHANGED <<queue, mode, published, pulse, scan, wdVars, webVars>>

\* TransitionState: first the volatile write of _state, then the increment.
Starting == {"Resume", "Activate"}
Safing == {"Stop", "Pause", "fault", "shutdown"}

Target(c) ==
  IF c \in Starting THEN "Running" ELSE IF c = "fault" THEN "Faulted" ELSE "Stopped"

TransitionState ==
  /\ Goto("transition", "generation")
  /\ state' = Target(cause)
  /\ raced' = FALSE
  /\ UNCHANGED <<aside, genChanged, guarded, published, pulse, cause, scan>>

\* Where the loop goes after the transition: only Stop and shutdown clear the forces.
AfterGeneration_FaultKeepsOutputs(c) ==  \* mutated form: the catch block
  IF c \in Starting THEN "drain"
  ELSE IF c = "fault" THEN "metrics"
  ELSE IF c = "Pause" THEN "failsafeOutputs"
  ELSE IF c = "Stop" THEN "clearForces" ELSE "disarm"

AfterGeneration_StopKeepsOutputs(c) ==  \* mutated form: Stop
  IF c \in Starting \cup {"Stop"} THEN "drain"
  ELSE IF c \in {"Pause", "fault"} THEN "failsafeOutputs" ELSE "disarm"

AfterGeneration(c) ==
  IF c \in Starting THEN "drain"
  ELSE IF c \in {"Pause", "fault"} THEN "failsafeOutputs"
  ELSE IF c = "Stop" THEN "clearForces" ELSE "disarm"

AdvanceGeneration ==
  /\ Goto("generation", AfterGeneration(cause))
  /\ genChanged' = TRUE
  /\ cause' = IF cause \in Starting THEN "none" ELSE cause
  /\ UNCHANGED <<aside, state, raced, guarded, published, pulse, scan>>

ShutdownDisarm ==
  /\ Goto("disarm", "clearForces")
  /\ armed' = FALSE
  /\ UNCHANGED <<aside, mode, guarded, published, heartbeat, cause, scan>>

ClearForces ==
  /\ Goto("clearForces", "failsafeOutputs")
  /\ lock = "free"
  /\ forcedOutputs' = NoForces
  /\ UNCHANGED <<aside, mode, lock, config, memory, inputs, published, pulse, cause, scan>>

\* ApplyFailsafeOutputs holds the lock while the core builds and publishes. Only the
\* lock-free watchdog can come between the two writes.
ApplyFailsafeOutputs ==
  /\ Goto("failsafeOutputs", "failsafeStore")
  /\ lock = "free" /\ lock' = "loop"
  /\ lastOutputs' = Failsafe(definitions, failsafeValues)
  /\ UNCHANGED <<aside, mode, config, image, lastInputs, store, pulse, cause, scan>>

AfterFailsafe(c) ==
  IF c = "fault" THEN "metrics" ELSE IF c = "shutdown" THEN "done" ELSE "drain"

PublishFailsafe ==
  /\ Goto("failsafeStore", AfterFailsafe(cause))
  /\ lock' = "free"
  /\ store' = [store EXCEPT !.state = state, !.outputs = lastOutputs]
  /\ cause' = "none"
  /\ UNCHANGED <<aside, mode, config, image, lastInputs, lastOutputs, pulse, scan>>

\* Queue drained: a Running runtime arms the watchdog and scans, any other disarms it.
CheckRunning ==
  /\ queue = <<>>
  /\ Goto("drain", IF state = "Running" THEN "arm" ELSE "wait")
  /\ armed' = IF state = "Running" THEN armed ELSE FALSE
  /\ UNCHANGED <<aside, mode, guarded, published, heartbeat, cause, scan>>

\* Armed := true writes _armed first and stamps the heartbeat second.
Arm ==
  /\ Goto("arm", "stamp")
  /\ armed' = TRUE
  /\ UNCHANGED <<aside, mode, guarded, published, heartbeat, cause, scan>>

StampArmed ==
  /\ Goto("stamp", "capture")
  /\ heartbeat' = "fresh"
  /\ UNCHANGED <<aside, mode, guarded, published, armed, cause, scan>>

\* RunScan captures the generation; without a program it returns.
CaptureGeneration ==
  /\ Goto("capture", IF program = NoConfig THEN "wait" ELSE "snapshot")
  /\ genChanged' = FALSE
  /\ UNCHANGED <<aside, state, raced, guarded, published, pulse, cause, scan>>

\* GetActiveForceProposals drops some of the timed forces (the ones past ExpiresAt).
ExpireForces ==
  \E expired \in SUBSET {o \in Outputs : forcedOutputs[o] = "timed"} :
    forcedOutputs' = [o \in Outputs |-> IF o \in expired THEN "none" ELSE forcedOutputs[o]]

\* The request is built from what the lock protects; the scan starts.
SnapshotScan ==
  /\ Goto("snapshot", "scan")
  /\ lock = "free" /\ lock' = "loop"
  /\ ExpireForces
  /\ scan' = Live(program, inputs, {o \in Outputs : forcedOutputs'[o] # "none"})
  /\ UNCHANGED <<aside, mode, config, memory, inputs, published, pulse, cause>>

\* ScanCoordinator.Scan returns; it may also never do so.
ScanReturns ==
  /\ Goto("scan", "decide")
  /\ lock' = "free"
  /\ UNCHANGED <<aside, mode, config, image, published, pulse, cause, scan>>

\* Scan throws: the catch block faults the runtime. Behind the decision point nothing
\* throws: the store copies dictionaries nobody writes any more, and an exception of the
\* asynchronous notifier stays in the task the code drops.
ScanThrows ==
  /\ Goto("scan", "transition") /\ cause' = "fault"
  /\ lock' = "free" /\ scan' = NoScan
  /\ UNCHANGED <<aside, mode, config, image, published, pulse>>

\* Mutated form: only the generation is compared, and the watchdog writes _state first.
ScanIsCurrent_GenerationOnly == ~genChanged

\* The decision point after the lock: nothing that follows looks at the state again.
ScanIsCurrent == ~genChanged /\ state = "Running"

\* Mutated form: a scan that passes the decision point loses its result as well.
DecideScan_LosesResult ==
  /\ Goto("decide", IF ScanIsCurrent THEN "publishMemory" ELSE "wait")
  /\ scan' = NoScan
  /\ UNCHANGED <<aside, mode, guarded, published, pulse, cause>>

DecideScan ==
  /\ Goto("decide", IF ScanIsCurrent THEN "publishMemory" ELSE "wait")
  /\ scan' = IF ScanIsCurrent THEN scan ELSE NoScan
  /\ UNCHANGED <<aside, mode, guarded, published, pulse, cause>>

PublishMemory ==
  /\ Goto("publishMemory", "publishOutputs")
  /\ memory' = scan.program
  /\ lastInputs' = scan.inputs
  /\ UNCHANGED <<aside, mode, lock, config, inputs, forcedOutputs, lastOutputs, store,
                pulse, cause, scan>>

PublishOutputs ==
  /\ Goto("publishOutputs", "publishStore")
  /\ lastOutputs' = scan
  /\ scan' = NoScan
  /\ UNCHANGED <<aside, mode, guarded, lastInputs, store, pulse, cause>>

\* Mutated form: the snapshot shows the current input image, not the scan's.
UpdateMetrics_CurrentInputs ==
  /\ \/ Goto("publishStore", "heartbeat")
     \/ Goto("metrics", "wait")
  /\ store' = [state |-> state, program |-> program, inputs |-> inputs,
               outputs |-> lastOutputs]
  /\ UNCHANGED <<aside, mode, guarded, lastInputs, lastOutputs, pulse, cause, scan>>

\* UpdateMetrics, at the end of a scan and in the catch block.
UpdateMetrics ==
  /\ \/ Goto("publishStore", "heartbeat")
     \/ Goto("metrics", "wait")
  /\ store' = [state |-> state, program |-> program, inputs |-> lastInputs,
               outputs |-> lastOutputs]
  /\ UNCHANGED <<aside, mode, guarded, lastInputs, lastOutputs, pulse, cause, scan>>

\* A scan that completed renews the heartbeat.
Heartbeat ==
  /\ Goto("heartbeat", "wait")
  /\ heartbeat' = "fresh"
  /\ UNCHANGED <<aside, mode, guarded, published, armed, cause, scan>>

\* WaitForNextTickAsync: the next cycle, or cancellation of the service.
NextTick ==
  /\ Goto("wait", "drain")
  /\ UNCHANGED <<aside, mode, guarded, published, pulse, cause, scan>>

Shutdown ==
  /\ Goto("wait", "transition") /\ cause' = "shutdown"
  /\ UNCHANGED <<aside, mode, guarded, published, pulse, scan>>

-----------------------------------------------------------------------------
(* The watchdog timer.                                                     *)

\* More than TimeoutMs pass without a heartbeat.
Age ==
  /\ heartbeat = "fresh"
  /\ heartbeat' = "late"
  /\ UNCHANGED <<queue, mode, guarded, published, armed, loopVars, wdVars, webVars>>

IsAlive == heartbeat = "fresh"

WdGoto(here, there) == watchdog = here /\ watchdog' = there

wdUnchanged == <<queue, lock, config, image, lastInputs, heartbeat, loopVars, webVars>>

\* Evaluate, inside the gate: Armed is read, then IsAlive.
ReadArmed ==
  /\ WdGoto("idle", "armed")
  /\ armed
  /\ UNCHANGED <<wdUnchanged, mode, lastOutputs, store, armed, seen>>

ReadIsAlive ==
  /\ WdGoto("armed", IF IsAlive THEN "idle" ELSE "timeout")
  /\ UNCHANGED <<wdUnchanged, mode, lastOutputs, store, armed, seen>>

\* HandleWatchdogTimeout returns at once unless the runtime is Running.
CheckTimeout ==
  /\ WdGoto("timeout", IF state = "Running" THEN "fault" ELSE "idle")
  /\ UNCHANGED <<wdUnchanged, mode, lastOutputs, store, armed, seen>>

Publishing == loop \in {"publishMemory", "publishOutputs", "publishStore"}

\* TransitionState(Faulted), in the timer's thread.
WatchdogFault ==
  /\ WdGoto("fault", "generation")
  /\ state' = "Faulted"
  /\ raced' = Publishing
  /\ UNCHANGED <<wdUnchanged, genChanged, lastOutputs, store, armed, seen>>

WatchdogAdvance ==
  /\ WdGoto("generation", "disarm")
  /\ genChanged' = TRUE
  /\ UNCHANGED <<wdUnchanged, state, raced, lastOutputs, store, armed, seen>>

WatchdogDisarm ==
  /\ WdGoto("disarm", "definitions")
  /\ armed' = FALSE
  /\ UNCHANGED <<wdUnchanged, mode, lastOutputs, store, seen>>

\* Mutated form: the timer callback applies the failsafe under lock(_coordinator).
ReadDefinitions_UnderLock ==
  /\ WdGoto("definitions", "failsafe")
  /\ lock = "free"
  /\ seen' = [seen EXCEPT !.definitions = definitions]
  /\ UNCHANGED <<wdUnchanged, mode, lastOutputs, store, armed>>

\* ApplyFailsafeOutputsLockFree reads the two volatile references one after the other.
ReadDefinitions ==
  /\ WdGoto("definitions", "failsafe")
  /\ seen' = [seen EXCEPT !.definitions = definitions]
  /\ UNCHANGED <<wdUnchanged, mode, lastOutputs, store, armed>>

ReadFailsafe ==
  /\ WdGoto("failsafe", "outputs")
  /\ seen' = [seen EXCEPT !.failsafe = failsafeValues]
  /\ UNCHANGED <<wdUnchanged, mode, lastOutputs, store, armed>>

WatchdogOutputs ==
  /\ WdGoto("outputs", "store")
  /\ lastOutputs' = Failsafe(seen.definitions, seen.failsafe)
  /\ seen' = NothingSeen
  /\ UNCHANGED <<wdUnchanged, mode, store, armed>>

\* The store update reads the field _lastOutputs again.
WatchdogPublish ==
  /\ WdGoto("store", "idle")
  /\ store' = [store EXCEPT !.state = state, !.outputs = lastOutputs]
  /\ UNCHANGED <<wdUnchanged, mode, lastOutputs, armed, seen>>

-----------------------------------------------------------------------------
Client ==
  \/ \E c \in Posted : Post(c)
  \/ \E v \in InputValues : SetInputs(v)
  \/ \E c \in Configs : BeginInstall(c)

\* Every step of the loop thread but the return of the scan and the service's end.
LoopStep ==
  \/ ProcessCommand \/ ActivateReadFailsafe \/ ActivateInstall \/ ActivateInstalled
  \/ TransitionState \/ AdvanceGeneration \/ ShutdownDisarm \/ ClearForces
  \/ ApplyFailsafeOutputs \/ PublishFailsafe
  \/ CheckRunning \/ Arm \/ StampArmed \/ CaptureGeneration \/ SnapshotScan
  \/ DecideScan \/ PublishMemory \/ PublishOutputs \/ UpdateMetrics \/ Heartbeat
  \/ NextTick

ScanEnds == ScanReturns \/ ScanThrows

WatchdogStep ==
  \/ ReadArmed \/ ReadIsAlive \/ CheckTimeout \/ WatchdogFault \/ WatchdogAdvance
  \/ WatchdogDisarm \/ ReadDefinitions \/ ReadFailsafe \/ WatchdogOutputs
  \/ WatchdogPublish

\* What happens while every scan is on time: the timer finds nothing to do.
TimelyNext == Client \/ FinishInstall \/ LoopStep \/ ScanEnds \/ Shutdown

Next == TimelyNext \/ WatchdogStep \/ Age

Spec == Init /\ [][Next]_vars

TimelySpec == Init /\ [][TimelyNext]_vars

\* Scheduling: the loop thread and the timer callbacks run, the web thread leaves the
\* lock, and a heartbeat nobody renews grows old. A scan may hang, the service may never
\* be stopped. Lock acquisitions are strongly fair: every owner but a hung scan releases.
Fairness ==
  /\ WF_vars(FinishInstall)
  /\ SF_vars(LoopStep)
  /\ WF_vars(WatchdogStep)
  /\ WF_vars(Age /\ loop = "scan")

FairSpec == Spec /\ Fairness

-----------------------------------------------------------------------------
(* Properties.                                                             *)

LoopStates == {"drain", "activate", "installDefinitions", "installFailsafe", "transition",
               "generation", "disarm", "clearForces", "failsafeOutputs", "failsafeStore",
               "metrics", "arm", "stamp", "capture", "snapshot", "scan", "decide",
               "publishMemory", "publishOutputs", "publishStore", "heartbeat", "wait",
               "done"}
WatchdogStates == {"idle", "armed", "timeout", "fault", "generation", "disarm",
                   "definitions", "failsafe", "outputs", "store"}
RuntimeStates == {"Stopped", "Running", "Faulted"}

\* Every variable holds a value of the field it stands for.
TypeOK ==
  /\ queue \in Seq(Posted)
  /\ state \in RuntimeStates /\ genChanged \in BOOLEAN /\ raced \in BOOLEAN
  /\ lock \in {"free", "loop", "web"}
  /\ program \in ConfigOrNone /\ definitions \in ConfigOrNone
  /\ failsafeValues \in ConfigOrNone /\ memory \in ConfigOrNone
  /\ inputs \in InputImages /\ lastInputs \in InputImages
  /\ forcedOutputs \in [Outputs -> {"none", "timed", "permanent"}]
  /\ lastOutputs \in OutputSnapshots
  /\ store \in [state : RuntimeStates, program : ConfigOrNone, inputs : InputImages,
                outputs : OutputSnapshots]
  /\ armed \in BOOLEAN /\ heartbeat \in {"fresh", "late"}
  /\ loop \in LoopStates
  /\ cause \in {"none"} \cup Starting \cup Safing
  /\ argument \in [program : ConfigOrNone, definitions : ConfigOrNone,
                   failsafe : ConfigOrNone]
  /\ scan \in LiveOutputs \cup {NoScan}
  /\ watchdog \in WatchdogStates
  /\ seen \in [definitions : ConfigOrNone, failsafe : ConfigOrNone]
  /\ installer \in {"idle", "failsafe"} /\ installing \in ConfigOrNone

\* Resume is refused until a program is installed (ProcessCommand, Resume), and nothing
\* uninstalls one: the loop never arms the watchdog for a scan that cannot heartbeat.
RunningHasProgram == state = "Running" => program # NoConfig

\* A safe state was entered and its failsafe has not been written yet: by the loop, by
\* the watchdog.
Quieting ==
  /\ loop \in {"generation", "disarm", "clearForces", "failsafeOutputs", "failsafeStore"}
  /\ cause \in Safing
Faulting == watchdog \in {"generation", "disarm", "definitions", "failsafe", "outputs", "store"}

\* Once Stop, Pause, a scan exception, the watchdog or shutdown has been handled, the
\* outputs everybody reads are the failsafe ones until the runtime is started again,
\* unless the fault overtook a scan between its decision point and its publication.
FailsafeWhileNotRunning ==
  state # "Running" /\ ~Quieting /\ ~Faulting /\ ~raced =>
    lastOutputs.kind = "failsafe" /\ store.outputs.kind = "failsafe"

\* A force always targets an output of the installed configuration (SetForce checks it,
\* InstallConfiguration clears the forces of the configuration it replaces).
ForcesAreDefined ==
  lock = "free" =>
    {o \in Outputs : forcedOutputs[o] # "none"} \subseteq DefinedOutputs(definitions)

\* The observable snapshot pairs outputs with the inputs they were computed from, whenever
\* neither thread is in the middle of publishing.
SnapshotIsCoherent ==
  ~Publishing /\ watchdog # "store" /\ store.outputs.kind = "live" =>
    store.outputs.inputs = store.inputs

Halting == {thread \in {"loop", "watchdog"} : IF thread = "loop" THEN Quieting ELSE Faulting}

Promise == INSTANCE FailsafeRuntime WITH
  Threads <- {"loop", "watchdog"},
  state <- state, committed <- Publishing, late <- raced, halting <- Halting,
  shown <- store.outputs.kind

\* The three threads implement FailsafeRuntime: only a scan of a Running runtime is ever
\* committed, and each halt, of the loop or of the watchdog, ends in failsafe outputs
\* unless the runtime was started again, the scan overtaken or the other thread halts too.
ImplementsFailsafeRuntime == Promise!Spec

\* Outputs of a scan reach the store only while the runtime is Running: a scan that was
\* still before its decision point when the runtime faulted is discarded for good.
LiveOnlyWhileRunning ==
  [][store'.outputs # store.outputs /\ store'.outputs.kind = "live" =>
       state = "Running" \/ raced]_store

\* The watchdog faults a scan that hangs inside lock(_coordinator) and publishes the
\* failsafe outputs although the lock is never released.
HungScanIsFaulted ==
  (loop = "scan" /\ state = "Running" /\ armed /\ watchdog = "idle")
    ~> (loop # "scan" \/ (state = "Faulted" /\ store.outputs.kind = "failsafe"))

StopPosted == \E i \in DOMAIN queue : queue[i].type = "Stop"

\* If scans return, a posted Stop ends in a snapshot that is not Running and shows the
\* failsafe outputs, whatever was queued before it and whatever the watchdog does meanwhile.
StopTakesEffect ==
  []<>(loop # "scan") =>
    (StopPosted ~> (store.state # "Running" /\ store.outputs.kind = "failsafe"))

-----------------------------------------------------------------------------
(* The inductive invariant behind FailsafeWhileNotRunning,                 *)
(* ImplementsFailsafeRuntime, LiveOnlyWhileRunning and ForcesAreDefined.   *)

\* Who owns lock(_coordinator) where.
LockInv ==
  /\ lock = "loop" <=> loop \in {"installFailsafe", "failsafeStore", "scan"}
  /\ lock = "web" <=> installer = "failsafe"

\* What the loop is in the middle of.
CauseInv ==
  /\ loop \in {"transition", "generation"} => cause # "none"
  /\ loop = "clearForces" => cause \in {"Stop", "shutdown"}
  /\ loop = "disarm" => cause = "shutdown"
  /\ loop \in {"failsafeOutputs", "failsafeStore"} => cause \in Safing

\* Where a program is known to be installed.
ProgramInv ==
  /\ state = "Running" => program # NoConfig
  /\ loop = "transition" /\ cause \in Starting => program # NoConfig
  /\ loop = "snapshot" => program # NoConfig
  /\ loop = "installFailsafe" => program # NoConfig
  /\ loop \in {"activate", "installDefinitions"} => argument.program # NoConfig
  /\ loop \in {"scan", "decide", "publishMemory", "publishOutputs"} => scan \in LiveOutputs

\* A scan past its decision point publishes for a Running runtime, or was overtaken.
PublishInv == Publishing => state = "Running" \/ raced

\* Every output dictionary the loop or the watchdog has just built as failsafe is one, and
\* the store never holds outputs other than the last ones, but while they are published.
FailsafeInv ==
  /\ loop \in {"failsafeStore", "metrics"} => lastOutputs.kind = "failsafe"
  /\ loop = "metrics" => store.outputs.kind = "failsafe"
  /\ lastOutputs.kind = "live" /\ loop # "publishStore" => store.outputs = lastOutputs
  /\ lastOutputs.kind = "failsafe" /\ loop = "publishStore" =>
       watchdog = "store" \/ store.outputs.kind = "failsafe"
  /\ state # "Running" /\ ~Quieting /\ ~raced /\ watchdog = "store" =>
       lastOutputs.kind = "failsafe"
  /\ FailsafeWhileNotRunning

\* Forces are checked and cleared together with the definitions, but inside the lock.
ForcesInv ==
  \A o \in Outputs :
    forcedOutputs[o] # "none" =>
      \/ o \in DefinedOutputs(definitions)
      \/ loop = "installFailsafe"
      \/ installer = "failsafe"

IInv ==
  TypeOK /\ LockInv /\ CauseInv /\ ProgramInv /\ PublishInv /\ FailsafeInv /\ ForcesInv

-----------------------------------------------------------------------------
\* What the comments and documents of the code claim and TLC refutes. No run repeats it:
\* the README tells each story.

\* PlcRuntimeService, TransitionState: a late scan never overwrites the failsafe outputs
\* for good: they are what is left once neither thread is in the middle of a change.
NoLatePublication ==
  state # "Running" /\ ~Quieting /\ ~Faulting /\ ~Publishing =>
    store.outputs.kind = "failsafe"

\* HandleWatchdogTimeout: a scan that hangs while the runtime is Running is faulted.
EveryHungScanIsFaulted == (loop = "scan" /\ state = "Running") ~> (loop # "scan" \/ state = "Faulted")

\* InstallConfiguration: the memory is the installed program's own.
MemoryIsOfProgram == lock = "free" => memory \in {NoConfig, program}
=============================================================================
