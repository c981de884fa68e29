----------------------------- MODULE Simulation ------------------------------
(***************************************************************************)
(* SimulationService over PlcRuntimeService. The service loads a program   *)
(* under its own lock: it posts a Stop, refills the dictionary of          *)
(* variables, installs it in the runtime and posts a Resume. The Stop and  *)
(* the Resume are queued and handled by the loop thread, the installation  *)
(* is immediate, and the dictionary the runtime reads its definitions from *)
(* is the one that is being refilled. Start and Stop post without a lock.  *)
(*                                                                         *)
(* The runtime is PlcRuntime's loop, coarser: no watchdog, no forces, and  *)
(* a command is one step.                                                  *)
(***************************************************************************)
EXTENDS Naturals, Sequences

CONSTANTS
  Programs,    \* programs of the library
  NoProgram,   \* null
  InputsOf,    \* [Programs -> SUBSET Variables], Direction = Input
  OutputsOf,   \* [Programs -> SUBSET Variables], Direction = Output
  NoInput,     \* no manual input is being set
  QueueBound   \* bound of the model: commands that may wait at once

Inputs == UNION {InputsOf[p] : p \in Programs}
Outputs == UNION {OutputsOf[p] : p \in Programs}
Variables == Inputs \cup Outputs
VariablesOf(p) == InputsOf[p] \cup OutputsOf[p]

ASSUME ProgramAssumption == NoProgram \notin Programs /\ NoInput \notin Inputs
ASSUME QueueAssumption == QueueBound \in Nat \ {0}
ASSUME VariablesAssumption ==
  /\ \A p \in Programs : InputsOf[p] \cap Outputs = {} /\ OutputsOf[p] \cap Inputs = {}
  /\ \A p, q \in Programs : p # q => VariablesOf(p) \cap VariablesOf(q) = {}

VARIABLES
  \* SimulationService
  pc,           \* where the thread that holds _lock is
  active,       \* _active
  variables,    \* _variables: the keys of the dictionary, shared with the runtime
  inputValues,  \* _inputValues
  manual,       \* the input TrySetInput is setting
  \* PlcRuntimeService
  queue,        \* _commands
  state,        \* _state
  program,      \* _activeProgram
  outputTypes,  \* _outputTypes: outputs of the program, copied when it was installed
  inputs,       \* _inputs
  loop,         \* where the loop thread is
  computed,     \* outputs of the scan that is about to be published
  \* history
  shown,        \* what was last published of each output
  last,         \* the last Stop or Resume posted
  touched       \* inputs set by hand since the last load

service == <<pc, active, variables, inputValues, manual>>
runtime == <<state, program, outputTypes, inputs, loop, computed, shown>>
vars == <<service, queue, runtime, last, touched>>

Values == {"off", "on"}
Unset == [i \in Inputs |-> "none"]

Stop == [type |-> "Stop"]
Resume == [type |-> "Resume"]
SetManualInput(i, value) == [type |-> "SetManualInput", input |-> i, value |-> value]
Commands == {Stop, Resume} \cup {SetManualInput(i, value) : i \in Inputs, value \in Values}

Init ==
  /\ pc = "idle" /\ active = NoProgram /\ variables = {}
  /\ inputValues = Unset /\ manual = NoInput
  /\ queue = <<>> /\ state = "Stopped" /\ program = NoProgram
  /\ outputTypes = {} /\ inputs = Unset /\ loop = "commands" /\ computed = {}
  /\ shown = [o \in Outputs |-> "unset"]
  /\ last = "Stop" /\ touched = {}

\* Mutated form: the newest command is handled first.
Post_Front(command) ==
  /\ Len(queue) < QueueBound
  /\ queue' = <<command>> \o queue

\* The channel is unbounded; QueueBound keeps the model finite.
Post(command) ==
  /\ Len(queue) < QueueBound
  /\ queue' = Append(queue, command)

\* lock(_coordinator), which the loop thread holds while it scans.
CoordinatorIsFree == loop # "locked"

-----------------------------------------------------------------------------
(* SimulationService.                                                      *)

\* LoadProgram: a program that is not in the catalog returns without a change.
BeginLoad(p) ==
  /\ pc = "idle"
  /\ pc' = "clear" /\ active' = p
  /\ Post(Stop) /\ last' = "Stop"
  /\ UNCHANGED <<variables, inputValues, manual, runtime, touched>>

\* BootstrapTankDemo, LoadProgramCore: the same without a Stop, when nothing is active.
BeginBootstrap(p) ==
  /\ pc = "idle" /\ active = NoProgram
  /\ pc' = "clear" /\ active' = p
  /\ UNCHANGED <<variables, inputValues, manual, queue, runtime, last, touched>>

\* Mutated form: the variables of the program before are kept.
ClearVariables_Keeps ==
  /\ pc = "clear"
  /\ pc' = "fill"
  /\ inputValues' = Unset /\ touched' = {}
  /\ UNCHANGED <<active, variables, manual, queue, runtime, last>>

\* Mutated form: the program to load is forgotten with the one before.
ClearVariables_Forgets ==
  /\ pc = "clear"
  /\ pc' = "fill" /\ active' = NoProgram
  /\ variables' = {} /\ inputValues' = Unset /\ touched' = {}
  /\ UNCHANGED <<manual, queue, runtime, last>>

ClearVariables ==
  /\ pc = "clear"
  /\ pc' = "fill"
  /\ variables' = {} /\ inputValues' = Unset /\ touched' = {}
  /\ UNCHANGED <<active, manual, queue, runtime, last>>

AddVariable(v) ==
  /\ pc = "fill" /\ v \in VariablesOf(active) \ variables
  /\ variables' = variables \cup {v}
  /\ UNCHANGED <<pc, active, inputValues, manual, queue, runtime, last, touched>>

ResetInputs ==
  /\ pc = "fill" /\ VariablesOf(active) \subseteq variables
  /\ pc' = "install"
  /\ inputValues' = [i \in Inputs |-> IF i \in InputsOf[active] THEN "off" ELSE inputValues[i]]
  /\ UNCHANGED <<active, variables, manual, queue, runtime, last, touched>>

\* InstallToRuntime, InstallConfiguration: the outputs are copied, the definitions shared.
InstallConfiguration ==
  /\ pc = "install" /\ CoordinatorIsFree
  /\ pc' = "inputs"
  /\ program' = active
  /\ outputTypes' = variables \cap Outputs
  /\ inputs' = Unset
  /\ UNCHANGED <<active, variables, inputValues, manual, queue, state, loop, computed, shown, last, touched>>

\* PlcRuntimeService.SetInputs: the values are written over those the runtime has.
Over(new, old) == [i \in Inputs |-> IF new[i] # "none" THEN new[i] ELSE old[i]]

InstallInputs ==
  /\ pc = "inputs" /\ CoordinatorIsFree
  /\ pc' = "resume"
  /\ inputs' = Over(inputValues, inputs)
  /\ UNCHANGED <<active, variables, inputValues, manual, queue, state, program, outputTypes, loop, computed, shown, last, touched>>

PostResume ==
  /\ pc = "resume"
  /\ pc' = "idle"
  /\ Post(Resume) /\ last' = "Resume"
  /\ UNCHANGED <<active, variables, inputValues, manual, runtime, touched>>

\* TrySetInput: a variable that is unknown or not an input returns false.
TrySetInput(i, value) ==
  /\ pc = "idle" /\ i \in variables /\ CoordinatorIsFree
  /\ pc' = "manual" /\ manual' = i
  /\ inputValues' = [inputValues EXCEPT ![i] = value]
  /\ inputs' = Over(inputValues', inputs)
  /\ touched' = touched \cup {i}
  /\ UNCHANGED <<active, variables, queue, state, program, outputTypes, loop, computed, shown, last>>

PostManualInput ==
  /\ pc = "manual"
  /\ pc' = "idle" /\ manual' = NoInput
  /\ Post(SetManualInput(manual, inputValues[manual]))
  /\ UNCHANGED <<active, variables, inputValues, runtime, last, touched>>

StartOrStop ==
  /\ \/ Post(Resume) /\ last' = "Resume"
     \/ Post(Stop) /\ last' = "Stop"
  /\ UNCHANGED <<service, runtime, touched>>

-----------------------------------------------------------------------------
(* The loop thread of PlcRuntimeService.                                   *)

\* _definitions: the dictionary itself, once something was installed.
Definitions == IF program = NoProgram THEN {} ELSE variables

\* Mutated form: an output that a scan has published is retained.
FailsafeOver_Retains(known) ==
  [o \in Outputs |-> IF o \in known /\ shown[o] # "live" THEN "failsafe" ELSE shown[o]]

FailsafeOver(known) == [o \in Outputs |-> IF o \in known THEN "failsafe" ELSE shown[o]]

\* The dictionary is enumerated while a load may change it. Clear ends the enumeration
\* early; an addition makes it throw, nothing catches that, and the loop thread ends.
\* The host may end the process with it: nothing is claimed of what comes after.
ApplyFailsafeOutputs ==
  \/ loop' = "commands" /\ shown' = FailsafeOver(Definitions)
  \/ /\ pc = "fill" /\ variables = {} /\ loop' = "commands"
     /\ \E known \in SUBSET outputTypes : shown' = FailsafeOver(known)
  \/ /\ pc = "fill" /\ Definitions # {} /\ loop' = "dead"
     /\ UNCHANGED shown

\* Mutated form: commands are read by a runtime that runs.
NextCommand_OnlyRunning(command) ==
  /\ loop = "commands" /\ queue # <<>> /\ command = Head(queue)
  /\ state = "Running" \/ command = Resume
  /\ queue' = IF command = Resume /\ state = "Faulted" THEN queue ELSE Tail(queue)

NextCommand(command) ==
  /\ loop = "commands" /\ queue # <<>> /\ command = Head(queue)
  /\ queue' = Tail(queue)

HandleStop ==
  /\ NextCommand(Stop)
  /\ state' = "Stopped"
  /\ ApplyFailsafeOutputs
  /\ UNCHANGED <<service, program, outputTypes, inputs, computed, last, touched>>

HandleResume ==
  /\ NextCommand(Resume)
  /\ state' = IF program = NoProgram THEN state ELSE "Running"
  /\ UNCHANGED <<service, program, outputTypes, inputs, loop, computed, shown, last, touched>>

\* A manual input is written whatever program is installed by now.
HandleManualInput ==
  \E i \in Inputs, value \in Values :
    /\ NextCommand(SetManualInput(i, value))
    /\ inputs' = [inputs EXCEPT ![i] = value]
    /\ UNCHANGED <<service, state, program, outputTypes, loop, computed, shown, last, touched>>

\* RunScan, when no command waits: the lock is held from here on.
BeginScan ==
  /\ loop = "commands" /\ queue = <<>> /\ state = "Running"
  /\ loop' = "locked"
  /\ UNCHANGED <<service, queue, state, program, outputTypes, inputs, computed, shown, last, touched>>

ScanReturns ==
  /\ loop = "locked"
  /\ loop' = "publish" /\ computed' = outputTypes
  /\ UNCHANGED <<service, queue, state, program, outputTypes, inputs, shown, last, touched>>

PublishOutputs ==
  /\ loop = "publish"
  /\ loop' = "commands" /\ computed' = {}
  /\ shown' = [o \in Outputs |-> IF o \in computed THEN "live" ELSE shown[o]]
  /\ UNCHANGED <<service, queue, state, program, outputTypes, inputs, last, touched>>

\* The catch block of RunScan, after the lock was released.
ScanThrows ==
  /\ loop = "locked"
  /\ state' = "Faulted"
  /\ ApplyFailsafeOutputs
  /\ UNCHANGED <<service, queue, program, outputTypes, inputs, computed, last, touched>>

LoopStep ==
  \/ HandleStop \/ HandleResume \/ HandleManualInput
  \/ BeginScan \/ ScanReturns \/ PublishOutputs

ServiceStep ==
  \/ ClearVariables \/ (\E v \in Variables : AddVariable(v)) \/ ResetInputs
  \/ InstallConfiguration \/ InstallInputs \/ PostResume \/ PostManualInput

Requests ==
  \/ \E p \in Programs : BeginLoad(p) \/ BeginBootstrap(p)
  \/ \E i \in Inputs, value \in Values : TrySetInput(i, value)
  \/ StartOrStop

Next == Requests \/ ServiceStep \/ LoopStep \/ ScanThrows

Spec == Init /\ [][Next]_vars

\* Both threads run, and a scan returns; a request need never come.
Fairness == WF_vars(LoopStep) /\ WF_vars(ServiceStep)

FairSpec == Spec /\ Fairness

-----------------------------------------------------------------------------
(* Properties.                                                             *)

ServicePlaces == {"idle", "clear", "fill", "install", "inputs", "resume", "manual"}

\* Every variable holds a value of its type, and what is being set is an input of the
\* active program.
TypeOK ==
  /\ pc \in ServicePlaces
  /\ active \in Programs \cup {NoProgram} /\ program \in Programs \cup {NoProgram}
  /\ variables \subseteq Variables
  /\ inputValues \in [Inputs -> Values \cup {"none"}]
  /\ inputs \in [Inputs -> Values \cup {"none"}]
  /\ manual \in Inputs \cup {NoInput}
  /\ queue \in Seq(Commands) /\ Len(queue) <= QueueBound
  /\ state \in {"Stopped", "Running", "Faulted"}
  /\ outputTypes \subseteq Outputs /\ computed \subseteq Outputs
  /\ loop \in {"commands", "locked", "publish", "dead"}
  /\ shown \in [Outputs -> {"unset", "live", "failsafe"}]
  /\ last \in {"Stop", "Resume"}
  /\ touched \subseteq Inputs
  /\ pc = "manual" <=> manual # NoInput
  /\ pc \notin {"idle", "manual"} => active # NoProgram

\* While nobody loads, the runtime runs the program the service says is active, with its
\* outputs, and reads its definitions.
AgreesWithRuntime ==
  pc \in {"idle", "manual"} =>
    /\ program = active
    /\ active # NoProgram => /\ variables = VariablesOf(active)
                             /\ outputTypes = OutputsOf[active]

HasNone(types) == \A n \in DOMAIN queue : queue[n].type \notin types

\* The last Stop or Resume that anybody posted decides once it was handled, however
\* requests that load, start and stop overlap: a Resume may only be undone by a fault.
LastCommandWins ==
  pc \in {"idle", "manual"} /\ HasNone({"Stop", "Resume"}) /\ loop # "dead" =>
    IF last = "Stop" \/ program = NoProgram THEN state # "Running" ELSE state # "Stopped"

\* The last value set by hand since the program was loaded is what the runtime uses once
\* the queue is handled, although it is written at once and again from the queue.
ManualInputsWin ==
  pc = "idle" /\ HasNone({"SetManualInput"}) =>
    \A i \in touched : inputs[i] = inputValues[i]

\* A runtime that is not Running and has handled what was posted shows nothing computed
\* of the program it has, even if the Stop was handled halfway through a load.
StoppedIsSafe ==
  pc = "idle" /\ HasNone({"Stop", "Resume"}) /\ loop = "commands" /\ state # "Running" =>
    \A o \in outputTypes : shown[o] # "live"

\* A program that was loaded runs, unless it faults, somebody else comes in, or the
\* load has killed the loop.
LoadedProgramRuns ==
  \A p \in Programs :
    (active = p /\ pc = "idle" /\ last = "Resume") ~>
      \/ state \in {"Running", "Faulted"} /\ program = p
      \/ active # p \/ pc # "idle" \/ last = "Stop" \/ loop = "dead"

\* Loading a program leaves the one before in its safe state: none of its outputs keeps
\* a value a scan computed (SimulationService.cs:85-87).
LoadIsSafe ==
  pc = "idle" /\ queue = <<>> /\ loop = "commands" =>
    \A o \in Outputs \ outputTypes : shown[o] # "live"
=============================================================================
