--------------------------- MODULE SimulationProofs ---------------------------
(***************************************************************************)
(* Safety of Simulation for any library, inputs, outputs and queue bound.  *)
(*                                                                         *)
(* What decides is the last command of a kind that waits in the queue, or, *)
(* when none does, what the runtime has: IsLast and NoneOf follow a        *)
(* sequence through Append and Tail, and the invariant says for each kind  *)
(* that one of the two agrees with what was asked for last.                *)
(***************************************************************************)
EXTENDS Simulation, TLAPS

\* No command of q belongs to S; c is the last of them that does.
NoneOf(q, S) == \A n \in 1..Len(q) : q[n] \notin S
IsLast(q, S, c) ==
  c \in S /\ \E n \in 1..Len(q) : q[n] = c /\ \A m \in 1..Len(q) : m > n => q[m] \notin S

Switches == {Stop, Resume}
LastSwitch == IF last = "Stop" THEN Stop ELSE Resume
ManualOf(i) == {SetManualInput(i, value) : value \in Values}

\* Where a load has come, and whose outputs the runtime has.
LoadIsUnderWay ==
  /\ pc \in {"idle", "manual"} =>
       program = active /\ (active # NoProgram => variables = VariablesOf(active))
  /\ pc = "fill" => variables \subseteq VariablesOf(active)
  /\ pc \in {"install", "inputs", "resume"} => variables = VariablesOf(active)
  /\ pc \in {"inputs", "resume"} => program = active
  /\ outputTypes = IF program = NoProgram THEN {} ELSE OutputsOf[program]

\* Nothing but a runtime with a program scans.
OnlyRunningScans ==
  /\ loop \in {"locked", "publish"} => state = "Running"
  /\ program = NoProgram => state = "Stopped"

\* The last Stop or Resume that was posted waits, or the state is the one it asked for.
\* Between the installation and its Resume a new program may still be stopped.
SwitchesDecide ==
  \/ IsLast(queue, Switches, LastSwitch)
  \/ /\ NoneOf(queue, Switches)
     /\ last = "Stop" => state # "Running"
     /\ last = "Resume" /\ program # NoProgram /\ pc \notin {"inputs", "resume"} => state # "Stopped"

\* Inputs set by hand have a value, and a load forgets them.
TouchedAreSet ==
  /\ \A i \in touched : inputValues[i] \in Values
  /\ pc = "manual" => manual \in touched
  /\ pc \in {"fill", "install", "inputs", "resume"} => touched = {}

\* The last value set by hand waits, or is the one the runtime has.
ManualDecides(i) ==
  \/ IsLast(queue, ManualOf(i), SetManualInput(i, inputValues[i]))
  \/ NoneOf(queue, ManualOf(i)) /\ inputs[i] = inputValues[i]

\* A runtime that halted while nobody loads shows failsafe values.
HaltedIsSafe ==
  pc \in {"idle", "manual"} /\ NoneOf(queue, Switches) /\ loop = "commands" /\ state # "Running" =>
    \A o \in outputTypes : shown[o] # "live"

IInv ==
  /\ TypeOK /\ LoadIsUnderWay /\ OnlyRunningScans /\ SwitchesDecide
  /\ TouchedAreSet /\ (\A i \in touched \ {manual} : ManualDecides(i)) /\ HaltedIsSafe

-----------------------------------------------------------------------------
(* Sequences, commands and programs.                                       *)

\* A command at the end of the queue is the last one of its kind.
LEMMA AppendKeeps ==
  ASSUME NEW C, NEW q \in Seq(C), NEW c \in C, NEW S, NEW d
  PROVE  /\ NoneOf(Append(q, c), S) <=> NoneOf(q, S) /\ c \notin S
         /\ c \in S => IsLast(Append(q, c), S, c)
         /\ c \notin S /\ IsLast(q, S, d) => IsLast(Append(q, c), S, d)
  <1> DEFINE r == Append(q, c)
  <1>1. /\ Len(q) \in Nat /\ Len(r) = Len(q) + 1 /\ r[Len(r)] = c
        /\ \A n \in 1..Len(q) : r[n] = q[n]
    OBVIOUS
  <1>2. \A n \in 1..Len(r) : n \in 1..Len(q) \/ n = Len(r)
    BY <1>1
  <1>3. 1..Len(q) \subseteq 1..Len(r) /\ Len(r) \in 1..Len(r)
    BY <1>1
  <1> HIDE DEF r
  <1>4. NoneOf(r, S) <=> NoneOf(q, S) /\ c \notin S
    BY <1>1, <1>2, <1>3 DEF NoneOf
  <1>5. c \in S => IsLast(r, S, c)
    BY <1>1, <1>3 DEF IsLast
  <1>6. ASSUME c \notin S, IsLast(q, S, d) PROVE IsLast(r, S, d)
    <2>1. PICK n \in 1..Len(q) : q[n] = d /\ \A m \in 1..Len(q) : m > n => q[m] \notin S
      BY <1>6 DEF IsLast
    <2>2. n \in 1..Len(r) /\ r[n] = d
      BY <1>1, <1>3, <2>1
    <2>3. \A m \in 1..Len(r) : m > n => r[m] \notin S
      BY <1>1, <1>2, <1>6, <2>1
    <2>4. QED
      BY <1>6, <2>2, <2>3 DEF IsLast
  <1>7. QED
    BY <1>4, <1>5, <1>6 DEF r

\* The last one of a kind stays the last until it is handled.
LEMMA TailKeeps ==
  ASSUME NEW C, NEW q \in Seq(C), q # <<>>, NEW S, NEW d
  PROVE  /\ NoneOf(q, S) <=> Head(q) \notin S /\ NoneOf(Tail(q), S)
         /\ IsLast(q, S, d) => IsLast(Tail(q), S, d) \/ (Head(q) = d /\ NoneOf(Tail(q), S))
  <1> DEFINE r == Tail(q)
             h == Head(q)
  <1>1. /\ Len(q) \in Nat \ {0} /\ Len(r) = Len(q) - 1 /\ h = q[1]
        /\ \A n \in 1..Len(r) : r[n] = q[n + 1]
    OBVIOUS
  <1>2. /\ \A n \in 1..Len(q) : n = 1 \/ n - 1 \in 1..Len(r)
        /\ \A n \in 1..Len(r) : n + 1 \in 1..Len(q)
        /\ 1 \in 1..Len(q)
    BY <1>1
  <1> HIDE DEF r, h
  <1>3. \A n \in 1..Len(q) : n # 1 => q[n] = r[n - 1]
    BY <1>1, <1>2
  <1>4. NoneOf(q, S) <=> h \notin S /\ NoneOf(r, S)
    BY <1>1, <1>2, <1>3 DEF NoneOf
  <1>5. ASSUME IsLast(q, S, d) PROVE IsLast(r, S, d) \/ (h = d /\ NoneOf(r, S))
    <2>1. PICK n \in 1..Len(q) : q[n] = d /\ \A m \in 1..Len(q) : m > n => q[m] \notin S
      BY <1>5 DEF IsLast
    <2>2. \A m \in 1..Len(r) : m + 1 > n => r[m] \notin S
      BY <1>1, <1>2, <2>1
    <2>3. CASE n = 1
      <3>1. \A m \in 1..Len(r) : r[m] \notin S
        BY <1>1, <2>2, <2>3
      <3>2. QED
        BY <1>1, <2>1, <2>3, <3>1 DEF NoneOf
    <2>4. CASE n # 1
      <3>1. n - 1 \in 1..Len(r) /\ r[n - 1] = d
        BY <1>2, <1>3, <2>1, <2>4
      <3>2. \A m \in 1..Len(r) : m > n - 1 => r[m] \notin S
        BY <1>1, <2>2
      <3>3. QED
        BY <1>5, <3>1, <3>2 DEF IsLast
    <2>5. QED
      BY <2>3, <2>4
  <1>6. QED
    BY <1>4, <1>5 DEF r, h

\* The kinds of commands do not overlap.
LEMMA Kinds ==
  /\ Stop # Resume /\ Switches \subseteq Commands /\ Stop \in Switches /\ Resume \in Switches
  /\ \A i \in Inputs, value \in Values :
       /\ SetManualInput(i, value) \in Commands \ Switches
       /\ SetManualInput(i, value) \in ManualOf(i)
       /\ Stop \notin ManualOf(i) /\ Resume \notin ManualOf(i)
       /\ \A j \in Inputs \ {i} : SetManualInput(i, value) \notin ManualOf(j)
  <1>1. Stop.type = "Stop" /\ Resume.type = "Resume"
    BY DEF Stop, Resume
  <1>2. \A i, value : /\ SetManualInput(i, value).type = "SetManualInput"
                      /\ SetManualInput(i, value).input = i
    BY DEF SetManualInput
  <1>3. QED
    BY <1>1, <1>2 DEF Switches, Commands, ManualOf

\* The variables of a program are its inputs and outputs, and no input is an output.
LEMMA Library ==
  ASSUME NEW p \in Programs
  PROVE  /\ InputsOf[p] \subseteq Inputs /\ OutputsOf[p] \subseteq Outputs /\ p # NoProgram
         /\ VariablesOf(p) \subseteq Variables
         /\ OutputsOf[p] \subseteq VariablesOf(p) /\ VariablesOf(p) \cap Outputs = OutputsOf[p]
  <1>1. InputsOf[p] \subseteq Inputs /\ OutputsOf[p] \subseteq Outputs
    BY DEF Inputs, Outputs
  <1>2. InputsOf[p] \cap Outputs = {}
    BY VariablesAssumption
  <1>3. QED
    BY <1>1, <1>2, ProgramAssumption DEF Variables, VariablesOf

-----------------------------------------------------------------------------
(* What a step does to the queue and to what is shown.                     *)

\* Posting appends to the channel.
LEMMA PostStep ==
  ASSUME TypeOK, NEW c \in Commands, Post(c)
  PROVE  /\ queue' = Append(queue, c) /\ queue \in Seq(Commands)
         /\ queue' \in Seq(Commands) /\ Len(queue') <= QueueBound
  <1>1. queue \in Seq(Commands) /\ queue' = Append(queue, c) /\ Len(queue) < QueueBound
    BY DEF TypeOK, Post
  <1>2. Len(queue) \in Nat /\ Len(queue') = Len(queue) + 1 /\ queue' \in Seq(Commands)
    BY <1>1
  <1>3. QED
    BY <1>1, <1>2, QueueAssumption

\* Handling takes the first command.
LEMMA TakeStep ==
  ASSUME TypeOK, NEW c, NextCommand(c)
  PROVE  /\ queue' = Tail(queue) /\ c = Head(queue) /\ queue \in Seq(Commands) /\ queue # <<>>
         /\ queue' \in Seq(Commands) /\ Len(queue') <= QueueBound
  <1>1. /\ queue \in Seq(Commands) /\ queue # <<>> /\ queue' = Tail(queue) /\ c = Head(queue)
        /\ Len(queue) <= QueueBound
    BY DEF TypeOK, NextCommand
  <1>2. Len(queue) \in Nat /\ Len(queue') = Len(queue) - 1 /\ queue' \in Seq(Commands)
    BY <1>1
  <1>3. QED
    BY <1>1, <1>2, QueueAssumption

\* Outside the refill of the dictionary the failsafe reaches every output of the program.
LEMMA FailsafeStep ==
  ASSUME TypeOK, ApplyFailsafeOutputs
  PROVE  /\ loop' \in {"commands", "dead"} /\ shown' \in [Outputs -> {"unset", "live", "failsafe"}]
         /\ pc # "fill" => \A o \in Definitions \cap Outputs : shown'[o] # "live"
  <1>1. \A known : FailsafeOver(known) \in [Outputs -> {"unset", "live", "failsafe"}]
    BY DEF TypeOK, FailsafeOver
  <1>2. CASE loop' = "commands" /\ shown' = FailsafeOver(Definitions)
    BY <1>1, <1>2 DEF FailsafeOver
  <1>3. CASE /\ pc = "fill" /\ variables = {} /\ loop' = "commands"
             /\ \E known \in SUBSET outputTypes : shown' = FailsafeOver(known)
    BY <1>1, <1>3
  <1>4. CASE pc = "fill" /\ Definitions # {} /\ loop' = "dead" /\ UNCHANGED shown
    BY <1>4 DEF TypeOK
  <1>5. QED
    BY <1>2, <1>3, <1>4 DEF ApplyFailsafeOutputs

-----------------------------------------------------------------------------
(* Every step keeps each part.                                             *)

\* Every step of the service and of the loop keeps the types.
LEMMA TypesStep ==
  ASSUME TypeOK, TouchedAreSet, [Next]_vars
  PROVE  TypeOK'
  <1> USE ProgramAssumption
  <1> USE DEF ServicePlaces
  <1>1. ASSUME NEW p \in Programs, BeginLoad(p) PROVE TypeOK'
    <2>1. queue' \in Seq(Commands) /\ Len(queue') <= QueueBound
      BY <1>1, PostStep, Kinds DEF BeginLoad
    <2>2. QED
      BY <1>1, <2>1 DEF TypeOK, BeginLoad, runtime
  <1>2. ASSUME NEW p \in Programs, BeginBootstrap(p) PROVE TypeOK'
    BY <1>2 DEF TypeOK, BeginBootstrap, runtime
  <1>3. CASE ClearVariables
    <2>1. inputValues' \in [Inputs -> Values \cup {"none"}]
      BY <1>3 DEF ClearVariables, Unset
    <2>2. QED
      BY <1>3, <2>1 DEF TypeOK, ClearVariables, runtime
  <1>4. ASSUME NEW v \in Variables, AddVariable(v) PROVE TypeOK'
    BY <1>4 DEF TypeOK, AddVariable, runtime
  <1>5. CASE ResetInputs
    <2>1. inputValues' \in [Inputs -> Values \cup {"none"}]
      BY <1>5 DEF TypeOK, ResetInputs, Values
    <2>2. QED
      BY <1>5, <2>1 DEF TypeOK, ResetInputs, runtime
  <1>6. CASE InstallConfiguration
    <2>1. inputs' \in [Inputs -> Values \cup {"none"}] /\ outputTypes' \subseteq Outputs
      BY <1>6 DEF InstallConfiguration, Unset
    <2>2. QED
      BY <1>6, <2>1 DEF TypeOK, InstallConfiguration
  <1>7. CASE InstallInputs
    <2>1. inputs' \in [Inputs -> Values \cup {"none"}]
      BY <1>7 DEF TypeOK, InstallInputs, Over
    <2>2. QED
      BY <1>7, <2>1 DEF TypeOK, InstallInputs
  <1>8. CASE PostResume
    <2>1. queue' \in Seq(Commands) /\ Len(queue') <= QueueBound
      BY <1>8, PostStep, Kinds DEF PostResume
    <2>2. QED
      BY <1>8, <2>1 DEF TypeOK, PostResume, runtime
  <1>9. ASSUME NEW i \in Inputs, NEW value \in Values, TrySetInput(i, value) PROVE TypeOK'
    <2>1. inputValues' \in [Inputs -> Values \cup {"none"}]
      BY <1>9 DEF TypeOK, TrySetInput
    <2>2. inputs' \in [Inputs -> Values \cup {"none"}]
      BY <1>9, <2>1 DEF TypeOK, TrySetInput, Over
    <2>3. QED
      BY <1>9, <2>1, <2>2 DEF TypeOK, TrySetInput
  <1>10. CASE PostManualInput
    <2>1. manual \in Inputs /\ inputValues[manual] \in Values
      BY <1>10 DEF PostManualInput, TypeOK, TouchedAreSet
    <2>2. queue' \in Seq(Commands) /\ Len(queue') <= QueueBound
      BY <1>10, <2>1, PostStep, Kinds DEF PostManualInput
    <2>3. QED
      BY <1>10, <2>2 DEF TypeOK, PostManualInput, runtime
  <1>11. CASE StartOrStop
    <2>1. queue' \in Seq(Commands) /\ Len(queue') <= QueueBound
      BY <1>11, PostStep, Kinds DEF StartOrStop
    <2>2. QED
      BY <1>11, <2>1 DEF TypeOK, StartOrStop, service, runtime
  <1>12. CASE HandleStop
    <2>1. /\ queue' \in Seq(Commands) /\ Len(queue') <= QueueBound
          /\ loop' \in {"commands", "dead"} /\ shown' \in [Outputs -> {"unset", "live", "failsafe"}]
      BY <1>12, TakeStep, FailsafeStep DEF HandleStop
    <2>2. QED
      BY <1>12, <2>1 DEF TypeOK, HandleStop, service
  <1>13. CASE HandleResume
    <2>1. queue' \in Seq(Commands) /\ Len(queue') <= QueueBound
      BY <1>13, TakeStep DEF HandleResume
    <2>2. QED
      BY <1>13, <2>1 DEF TypeOK, HandleResume, service
  <1>14. CASE HandleManualInput
    <2>1. PICK i \in Inputs, value \in Values :
            /\ NextCommand(SetManualInput(i, value))
            /\ inputs' = [inputs EXCEPT ![i] = value]
            /\ UNCHANGED <<service, state, program, outputTypes, loop, computed, shown, last, touched>>
      BY <1>14 DEF HandleManualInput
    <2>2. queue' \in Seq(Commands) /\ Len(queue') <= QueueBound
      BY <2>1, TakeStep
    <2>3. inputs' \in [Inputs -> Values \cup {"none"}]
      BY <2>1 DEF TypeOK
    <2>4. QED
      BY <2>1, <2>2, <2>3 DEF TypeOK, service
  <1>15. CASE BeginScan \/ ScanReturns
    BY <1>15 DEF TypeOK, BeginScan, ScanReturns, service
  <1>16. CASE PublishOutputs
    <2>1. shown' \in [Outputs -> {"unset", "live", "failsafe"}]
      BY <1>16 DEF TypeOK, PublishOutputs
    <2>2. QED
      BY <1>16, <2>1 DEF TypeOK, PublishOutputs, service
  <1>17. CASE ScanThrows
    <2>1. loop' \in {"commands", "dead"} /\ shown' \in [Outputs -> {"unset", "live", "failsafe"}]
      BY <1>17, FailsafeStep DEF ScanThrows
    <2>2. QED
      BY <1>17, <2>1 DEF TypeOK, ScanThrows, service
  <1>18. CASE UNCHANGED vars
    BY <1>18 DEF TypeOK, vars, service, runtime
  <1>19. QED
    BY <1>1, <1>2, <1>3, <1>4, <1>5, <1>6, <1>7, <1>8, <1>9, <1>10, <1>11, <1>12, <1>13, <1>14, <1>15,
       <1>16, <1>17, <1>18
    DEF Next, Requests, ServiceStep, LoopStep

\* Only the thread that loads changes what the service and the runtime have to agree on.
LEMMA LoadStep ==
  ASSUME TypeOK, LoadIsUnderWay, [Next]_vars
  PROVE  LoadIsUnderWay'
  <1> USE ProgramAssumption
  <1>1. ASSUME UNCHANGED <<pc, active, variables, program, outputTypes>> PROVE LoadIsUnderWay'
    BY <1>1 DEF LoadIsUnderWay, VariablesOf
  <1>2. ASSUME NEW p \in Programs, BeginLoad(p) \/ BeginBootstrap(p) PROVE LoadIsUnderWay'
    BY <1>2 DEF BeginLoad, BeginBootstrap, runtime, LoadIsUnderWay
  <1>3. CASE ClearVariables
    BY <1>3 DEF ClearVariables, runtime, LoadIsUnderWay
  <1>4. ASSUME NEW v \in Variables, AddVariable(v) PROVE LoadIsUnderWay'
    BY <1>4 DEF AddVariable, runtime, LoadIsUnderWay, VariablesOf
  <1>5. CASE ResetInputs
    BY <1>5 DEF ResetInputs, runtime, LoadIsUnderWay, VariablesOf
  <1>6. CASE InstallConfiguration
    <2>1. active \in Programs /\ variables = VariablesOf(active)
      BY <1>6 DEF InstallConfiguration, LoadIsUnderWay, TypeOK
    <2>2. outputTypes' = OutputsOf[active] /\ active # NoProgram
      BY <1>6, <2>1, Library DEF InstallConfiguration
    <2>3. QED
      BY <1>6, <2>1, <2>2 DEF InstallConfiguration, LoadIsUnderWay, VariablesOf
  <1>7. CASE InstallInputs
    BY <1>7 DEF InstallInputs, LoadIsUnderWay, VariablesOf
  <1>8. CASE PostResume
    BY <1>8 DEF PostResume, runtime, LoadIsUnderWay, VariablesOf
  <1>9. ASSUME NEW i \in Inputs, NEW value \in Values, TrySetInput(i, value) PROVE LoadIsUnderWay'
    BY <1>9 DEF TrySetInput, LoadIsUnderWay, VariablesOf
  <1>10. CASE PostManualInput
    BY <1>10 DEF PostManualInput, runtime, LoadIsUnderWay, VariablesOf
  <1>11. CASE StartOrStop \/ LoopStep \/ ScanThrows
    <2>1. UNCHANGED <<pc, active, variables, program, outputTypes>>
      BY <1>11 DEF StartOrStop, LoopStep, HandleStop, HandleResume, HandleManualInput, BeginScan,
                   ScanReturns, PublishOutputs, ScanThrows, service, runtime
    <2>2. QED
      BY <1>1, <2>1
  <1>12. CASE UNCHANGED vars
    BY <1>1, <1>12 DEF vars, service, runtime
  <1>13. QED
    BY <1>2, <1>3, <1>4, <1>5, <1>6, <1>7, <1>8, <1>9, <1>10, <1>11, <1>12 DEF Next, Requests, ServiceStep

\* A scan begins when the runtime runs, and only the loop that scans changes the state.
LEMMA ScansStep ==
  ASSUME TypeOK, OnlyRunningScans, [Next]_vars
  PROVE  OnlyRunningScans'
  <1> USE ProgramAssumption
  <1>1. CASE UNCHANGED <<loop, state, program>>
    BY <1>1 DEF OnlyRunningScans
  <1>2. CASE InstallConfiguration
    <2>1. program' # NoProgram /\ UNCHANGED <<loop, state>>
      BY <1>2 DEF InstallConfiguration, TypeOK
    <2>2. QED
      BY <2>1 DEF OnlyRunningScans
  <1>3. CASE HandleStop \/ ScanThrows
    <2>1. loop' \in {"commands", "dead"} /\ program' = program
      BY <1>3, FailsafeStep DEF HandleStop, ScanThrows
    <2>2. state' = "Stopped" \/ program # NoProgram
      BY <1>3 DEF HandleStop, ScanThrows, OnlyRunningScans
    <2>3. QED
      BY <2>1, <2>2 DEF OnlyRunningScans
  <1>4. CASE HandleResume
    BY <1>4 DEF HandleResume, NextCommand, OnlyRunningScans
  <1>5. CASE HandleManualInput
    BY <1>1, <1>5 DEF HandleManualInput
  <1>6. CASE BeginScan \/ ScanReturns \/ PublishOutputs
    BY <1>6 DEF BeginScan, ScanReturns, PublishOutputs, OnlyRunningScans
  <1>7. CASE \/ ClearVariables \/ (\E v \in Variables : AddVariable(v)) \/ ResetInputs \/ InstallInputs
             \/ PostResume \/ PostManualInput
    BY <1>1, <1>7 DEF ClearVariables, AddVariable, ResetInputs, InstallInputs, PostResume, PostManualInput, runtime
  <1>8. CASE Requests
    BY <1>1, <1>8 DEF Requests, BeginLoad, BeginBootstrap, TrySetInput, StartOrStop, runtime
  <1>9. CASE UNCHANGED vars
    BY <1>1, <1>9 DEF vars, runtime
  <1>10. QED
    BY <1>2, <1>3, <1>4, <1>5, <1>6, <1>7, <1>8, <1>9 DEF Next, ServiceStep, LoopStep

\* A Stop or Resume is the last one when it is posted, and makes the state when handled.
LEMMA SwitchesStep ==
  ASSUME TypeOK, TouchedAreSet, SwitchesDecide, [Next]_vars
  PROVE  SwitchesDecide'
  <1>1. ASSUME UNCHANGED <<queue, last, state>>, program' = program \/ pc' = "inputs",
               pc' \in {"inputs", "resume"} \/ pc \notin {"inputs", "resume"}
        PROVE  SwitchesDecide'
    BY <1>1 DEF SwitchesDecide, LastSwitch
  <1>2. ASSUME NEW c \in Switches, Post(c), last' = IF c = Stop THEN "Stop" ELSE "Resume"
        PROVE  SwitchesDecide'
    <2>1. c = LastSwitch'
      BY <1>2, Kinds DEF LastSwitch, Switches
    <2>2. c \in Commands
      BY Kinds
    <2>3. IsLast(queue', Switches, c)
      BY <1>2, <2>2, PostStep, AppendKeeps
    <2>4. QED
      BY <2>1, <2>3 DEF SwitchesDecide
  <1>3. ASSUME NEW p \in Programs, BeginLoad(p) PROVE SwitchesDecide'
    BY <1>2, <1>3, Kinds DEF BeginLoad
  <1>4. CASE PostResume \/ StartOrStop
    BY <1>2, <1>4, Kinds DEF PostResume, StartOrStop
  <1>5. ASSUME NEW c \in Commands \ Switches, Post(c) \/ NextCommand(c), UNCHANGED <<last, state, program>>,
               pc' \in {"inputs", "resume"} \/ pc \notin {"inputs", "resume"}
        PROVE  SwitchesDecide'
    <2>1. LastSwitch' = LastSwitch /\ LastSwitch \in Switches
      BY <1>5 DEF LastSwitch, Switches
    <2>2. /\ IsLast(queue, Switches, LastSwitch) => IsLast(queue', Switches, LastSwitch)
          /\ NoneOf(queue, Switches) => NoneOf(queue', Switches)
      <3>1. CASE Post(c)
        <4>1. queue' = Append(queue, c) /\ queue \in Seq(Commands)
          BY <3>1, PostStep
        <4>2. QED
          BY <1>5, <4>1, AppendKeeps
      <3>2. CASE NextCommand(c)
        <4>1. queue' = Tail(queue) /\ c = Head(queue) /\ queue \in Seq(Commands) /\ queue # <<>>
          BY <3>2, TakeStep
        <4>2. c # LastSwitch
          BY <1>5, <2>1
        <4>3. QED
          BY <4>1, <4>2, TailKeeps
      <3>3. QED
        BY <1>5, <3>1, <3>2
    <2>3. QED
      BY <1>5, <2>1, <2>2 DEF SwitchesDecide
  <1>6. CASE PostManualInput
    <2>1. /\ manual \in Inputs /\ inputValues[manual] \in Values /\ pc' = "idle" /\ pc = "manual"
          /\ Post(SetManualInput(manual, inputValues[manual])) /\ UNCHANGED <<last, state, program>>
      BY <1>6 DEF PostManualInput, runtime, TypeOK, TouchedAreSet
    <2>2. SetManualInput(manual, inputValues[manual]) \in Commands \ Switches
      BY <2>1, Kinds
    <2>3. QED
      BY <1>5, <2>1, <2>2
  <1>7. CASE HandleManualInput
    <2>1. PICK i \in Inputs, value \in Values :
            /\ NextCommand(SetManualInput(i, value))
            /\ UNCHANGED <<service, state, program, last>>
      BY <1>7 DEF HandleManualInput
    <2>2. QED
      BY <1>5, <2>1, Kinds DEF service
  <1>8. ASSUME NEW c \in Switches, NextCommand(c), UNCHANGED <<pc, last, program>>,
               c = Stop => state' = "Stopped", c = Resume /\ program # NoProgram => state' = "Running"
        PROVE  SwitchesDecide'
    <2>1. queue' = Tail(queue) /\ c = Head(queue) /\ queue \in Seq(Commands) /\ queue # <<>>
      BY <1>8, TakeStep
    <2>2. ~NoneOf(queue, Switches)
      BY <2>1, TailKeeps
    <2>3. IsLast(queue', Switches, LastSwitch) \/ (c = LastSwitch /\ NoneOf(queue', Switches))
      BY <2>1, <2>2, TailKeeps DEF SwitchesDecide
    <2>4. CASE IsLast(queue', Switches, LastSwitch)
      BY <1>8, <2>4 DEF SwitchesDecide, LastSwitch
    <2>5. CASE c = Stop /\ last = "Stop" /\ NoneOf(queue', Switches)
      BY <1>8, <2>5 DEF SwitchesDecide
    <2>6. CASE c = Resume /\ last = "Resume" /\ NoneOf(queue', Switches)
      BY <1>8, <2>6 DEF SwitchesDecide
    <2>7. QED
      BY <2>3, <2>4, <2>5, <2>6, Kinds DEF LastSwitch, TypeOK
  <1>9. CASE HandleStop
    BY <1>8, <1>9, Kinds DEF HandleStop, service
  <1>10. CASE HandleResume
    BY <1>8, <1>10, Kinds DEF HandleResume, service
  <1>11. CASE ScanThrows
    <2>1. UNCHANGED <<queue, last, program, pc>> /\ state' = "Faulted"
      BY <1>11 DEF ScanThrows, service
    <2>2. QED
      BY <2>1 DEF SwitchesDecide, LastSwitch
  <1>12. CASE BeginScan \/ ScanReturns \/ PublishOutputs
    BY <1>1, <1>12 DEF BeginScan, ScanReturns, PublishOutputs, service
  <1>13. CASE \/ ClearVariables \/ (\E v \in Variables : AddVariable(v)) \/ ResetInputs
              \/ InstallConfiguration \/ InstallInputs
    BY <1>1, <1>13 DEF ClearVariables, AddVariable, ResetInputs, InstallConfiguration, InstallInputs, runtime
  <1>14. ASSUME \/ \E p \in Programs : BeginBootstrap(p)
                \/ \E i \in Inputs, value \in Values : TrySetInput(i, value)
         PROVE  SwitchesDecide'
    BY <1>1, <1>14 DEF BeginBootstrap, TrySetInput, runtime
  <1>15. CASE UNCHANGED vars
    BY <1>1, <1>15 DEF vars, service, runtime
  <1>16. QED
    BY <1>3, <1>4, <1>6, <1>7, <1>9, <1>10, <1>11, <1>12, <1>13, <1>14, <1>15
    DEF Next, Requests, ServiceStep, LoopStep

\* Inputs are touched with a value, and a load begins by forgetting them.
LEMMA TouchedStep ==
  ASSUME TypeOK, TouchedAreSet, [Next]_vars
  PROVE  TouchedAreSet'
  <1> USE ProgramAssumption
  <1>1. ASSUME UNCHANGED <<inputValues, touched, manual>>,
               pc' \notin {"manual", "fill", "install", "inputs", "resume"} \/ pc' = pc
        PROVE  TouchedAreSet'
    BY <1>1 DEF TouchedAreSet
  <1>2. CASE ClearVariables
    BY <1>2 DEF ClearVariables, TouchedAreSet
  <1>3. CASE ResetInputs
    BY <1>3 DEF ResetInputs, TouchedAreSet
  <1>4. CASE InstallConfiguration \/ InstallInputs
    BY <1>4 DEF InstallConfiguration, InstallInputs, TouchedAreSet
  <1>5. ASSUME NEW i \in Inputs, NEW value \in Values, TrySetInput(i, value) PROVE TouchedAreSet'
    BY <1>5 DEF TrySetInput, TouchedAreSet, TypeOK
  <1>6. CASE PostManualInput
    BY <1>6 DEF PostManualInput, TouchedAreSet
  <1>7. CASE (\E v \in Variables : AddVariable(v)) \/ PostResume
    BY <1>1, <1>7 DEF AddVariable, PostResume
  <1>8. CASE LoopStep \/ ScanThrows
    <2>1. UNCHANGED <<pc, inputValues, touched, manual>>
      BY <1>8 DEF LoopStep, HandleStop, HandleResume, HandleManualInput, BeginScan, ScanReturns,
                  PublishOutputs, ScanThrows, service
    <2>2. QED
      BY <1>1, <2>1
  <1>9. ASSUME (\E p \in Programs : BeginLoad(p) \/ BeginBootstrap(p)) \/ StartOrStop PROVE TouchedAreSet'
    BY <1>1, <1>9 DEF BeginLoad, BeginBootstrap, StartOrStop, service
  <1>10. CASE UNCHANGED vars
    BY <1>1, <1>10 DEF vars, service
  <1>11. QED
    BY <1>2, <1>3, <1>4, <1>5, <1>6, <1>7, <1>8, <1>9, <1>10 DEF Next, Requests, ServiceStep

\* A value that waits behind another one of the same input is the one that will be kept.
LEMMA ManualStep ==
  ASSUME TypeOK, TypeOK', TouchedAreSet, TouchedAreSet',
         \A i \in touched \ {manual} : ManualDecides(i), [Next]_vars,
         NEW j \in touched', j # manual'
  PROVE  ManualDecides(j)'
  <1> USE ProgramAssumption
  <1> DEFINE setting == SetManualInput(j, inputValues[j])
  <1>1. j \in Inputs /\ inputValues'[j] \in Values /\ setting' = SetManualInput(j, inputValues'[j])
    BY DEF TypeOK, TouchedAreSet
  <1>2. ASSUME ManualDecides(j), queue' = queue, inputValues'[j] = inputValues[j],
               inputs'[j] = inputs[j] \/ inputs'[j] = inputValues[j]
        PROVE  ManualDecides(j)'
    BY <1>2 DEF ManualDecides
  <1>3. ASSUME ManualDecides(j), NEW c \in Commands \ ManualOf(j), Post(c) \/ NextCommand(c),
               inputValues'[j] = inputValues[j], inputs'[j] = inputs[j]
        PROVE  ManualDecides(j)'
    <2>1. setting \in ManualOf(j)
      BY <1>1, <1>3 DEF ManualOf
    <2>2. /\ IsLast(queue, ManualOf(j), setting) => IsLast(queue', ManualOf(j), setting)
          /\ NoneOf(queue, ManualOf(j)) => NoneOf(queue', ManualOf(j))
      <3>1. CASE Post(c)
        <4>1. queue' = Append(queue, c) /\ queue \in Seq(Commands)
          BY <3>1, PostStep
        <4>2. QED
          BY <1>3, <4>1, AppendKeeps
      <3>2. CASE NextCommand(c)
        <4>1. queue' = Tail(queue) /\ c = Head(queue) /\ queue \in Seq(Commands) /\ queue # <<>>
          BY <3>2, TakeStep
        <4>2. c # setting
          BY <1>3, <2>1
        <4>3. QED
          BY <4>1, <4>2, TailKeeps
      <3>3. QED
        BY <1>3, <3>1, <3>2
    <2>3. QED
      BY <1>3, <2>2 DEF ManualDecides
  <1>4. CASE UNCHANGED <<queue, inputValues, manual, inputs, touched>>
    BY <1>2, <1>4
  <1>5. CASE InstallConfiguration \/ InstallInputs \/ ClearVariables \/ ResetInputs
    <2>1. touched' = {}
      BY <1>5 DEF InstallConfiguration, InstallInputs, ClearVariables, ResetInputs, TouchedAreSet
    <2>2. QED
      BY <2>1
  <1>6. ASSUME NEW i \in Inputs, NEW value \in Values, TrySetInput(i, value) PROVE ManualDecides(j)'
    <2>1. j # i /\ j \in touched /\ manual = NoInput /\ queue' = queue
      BY <1>6 DEF TrySetInput, TypeOK
    <2>2. ManualDecides(j) /\ inputValues'[j] = inputValues[j]
      BY <1>1, <1>6, <2>1 DEF TrySetInput, TypeOK
    <2>3. inputs'[j] = inputs[j] \/ inputs'[j] = inputValues[j]
      BY <1>1, <1>6, <2>2 DEF TrySetInput, Over
    <2>4. QED
      BY <1>2, <2>1, <2>2, <2>3
  <1>7. CASE PostManualInput
    <2>1. /\ manual \in Inputs /\ inputValues[manual] \in Values /\ manual \in touched
          /\ Post(SetManualInput(manual, inputValues[manual]))
          /\ inputValues' = inputValues /\ inputs' = inputs /\ touched' = touched
      BY <1>7 DEF PostManualInput, runtime, TypeOK, TouchedAreSet
    <2>2. CASE j = manual
      <3>1. setting \in ManualOf(j) /\ setting \in Commands
        BY <2>1, <2>2, Kinds
      <3>2. IsLast(queue', ManualOf(j), setting)
        <4>1. Post(setting)
          BY <2>1, <2>2
        <4>2. queue' = Append(queue, setting) /\ queue \in Seq(Commands)
          BY <3>1, <4>1, PostStep
        <4>3. QED
          BY <3>1, <4>2, AppendKeeps
      <3>3. QED
        BY <2>1, <3>2 DEF ManualDecides
    <2>3. CASE j # manual
      BY <1>1, <1>3, <2>1, <2>3, Kinds
    <2>4. QED
      BY <2>2, <2>3
  <1>8. ASSUME NEW c \in Switches, Post(c) \/ NextCommand(c), UNCHANGED <<inputValues, inputs, manual, touched>>
        PROVE  ManualDecides(j)'
    <2>1. c \in Commands \ ManualOf(j)
      <3>1. \A v \in Values : SetManualInput(j, v) # Stop /\ SetManualInput(j, v) # Resume
        BY DEF SetManualInput, Stop, Resume
      <3>2. QED
        BY <3>1, Kinds DEF Switches, ManualOf
    <2>2. QED
      BY <1>3, <1>8, <2>1
  <1>9. ASSUME NEW p \in Programs, BeginLoad(p) PROVE ManualDecides(j)'
    BY <1>8, <1>9, Kinds DEF BeginLoad, runtime
  <1>10. CASE PostResume \/ StartOrStop
    BY <1>8, <1>10, Kinds DEF PostResume, StartOrStop, service, runtime
  <1>11. CASE HandleStop
    BY <1>8, <1>11, Kinds DEF HandleStop, service
  <1>12. CASE HandleResume
    BY <1>8, <1>12, Kinds DEF HandleResume, service
  <1>13. CASE HandleManualInput
    <2>1. PICK i \in Inputs, value \in Values :
            /\ NextCommand(SetManualInput(i, value))
            /\ inputs' = [inputs EXCEPT ![i] = value]
            /\ UNCHANGED <<service, touched>>
      BY <1>13 DEF HandleManualInput
    <2>2. inputValues' = inputValues /\ manual' = manual /\ touched' = touched /\ ManualDecides(j)
      BY <2>1 DEF service
    <2>3. CASE i # j
      <3>1. inputs'[j] = inputs[j]
        BY <1>1, <2>1, <2>3 DEF TypeOK
      <3>2. QED
        BY <1>1, <1>3, <2>1, <2>2, <2>3, <3>1, Kinds
    <2>4. CASE i = j
      <3>1. /\ queue' = Tail(queue) /\ SetManualInput(i, value) = Head(queue)
            /\ queue \in Seq(Commands) /\ queue # <<>>
        BY <2>1, TakeStep
      <3>2. ~NoneOf(queue, ManualOf(j))
        <4>1. Head(queue) \in ManualOf(j)
          BY <2>4, <3>1, Kinds
        <4>2. QED
          BY <3>1, <4>1, TailKeeps
      <3>3. \/ IsLast(queue', ManualOf(j), setting)
            \/ SetManualInput(i, value) = setting /\ NoneOf(queue', ManualOf(j))
        BY <2>2, <3>1, <3>2, TailKeeps DEF ManualDecides
      <3>4. SetManualInput(i, value) = setting => value = inputValues[j]
        BY DEF SetManualInput
      <3>5. inputs'[j] = value
        BY <1>1, <2>1, <2>4 DEF TypeOK
      <3>6. QED
        BY <2>2, <3>3, <3>4, <3>5 DEF ManualDecides
    <2>5. QED
      BY <2>3, <2>4
  <1>14. CASE \/ BeginScan \/ ScanReturns \/ PublishOutputs \/ ScanThrows
    BY <1>4, <1>14 DEF BeginScan, ScanReturns, PublishOutputs, ScanThrows, service
  <1>15. ASSUME (\E p \in Programs : BeginBootstrap(p)) \/ (\E v \in Variables : AddVariable(v))
         PROVE  ManualDecides(j)'
    BY <1>4, <1>15 DEF BeginBootstrap, AddVariable, runtime
  <1>16. CASE UNCHANGED vars
    BY <1>4, <1>16 DEF vars, service, runtime
  <1>17. QED
    BY <1>5, <1>6, <1>7, <1>9, <1>10, <1>11, <1>12, <1>13, <1>14, <1>15, <1>16
    DEF Next, Requests, ServiceStep, LoopStep

\* A stop or a fault ends in failsafe values, and only a runtime that runs computes others.
LEMMA HaltedStep ==
  ASSUME TypeOK, LoadIsUnderWay, OnlyRunningScans, HaltedIsSafe, [Next]_vars
  PROVE  HaltedIsSafe'
  <1> USE ProgramAssumption
  <1>1. ASSUME UNCHANGED <<loop, state, outputTypes, shown>>, NoneOf(queue', Switches) => NoneOf(queue, Switches),
               pc' \in {"idle", "manual"} => pc \in {"idle", "manual"}
        PROVE  HaltedIsSafe'
    BY <1>1 DEF HaltedIsSafe
  <1>2. ASSUME NEW c \in Commands, Post(c) PROVE NoneOf(queue', Switches) => NoneOf(queue, Switches) /\ c \notin Switches
    <2>1. queue' = Append(queue, c) /\ queue \in Seq(Commands)
      BY <1>2, PostStep
    <2>2. QED
      BY <2>1, AppendKeeps
  <1>3. ASSUME NEW p \in Programs, BeginLoad(p) \/ BeginBootstrap(p) PROVE HaltedIsSafe'
    BY <1>3 DEF BeginLoad, BeginBootstrap, HaltedIsSafe
  <1>4. CASE ClearVariables \/ (\E v \in Variables : AddVariable(v)) \/ ResetInputs \/ InstallConfiguration \/ InstallInputs
    BY <1>4 DEF ClearVariables, AddVariable, ResetInputs, InstallConfiguration, InstallInputs, HaltedIsSafe
  <1>5. CASE PostResume \/ StartOrStop
    <2>1. ~NoneOf(queue', Switches)
      <3>1. Post(Resume) \/ Post(Stop)
        BY <1>5 DEF PostResume, StartOrStop
      <3>2. QED
        BY <1>2, <3>1, Kinds
    <2>2. QED
      BY <2>1 DEF HaltedIsSafe
  <1>6. ASSUME NEW i \in Inputs, NEW value \in Values, TrySetInput(i, value) PROVE HaltedIsSafe'
    BY <1>1, <1>6 DEF TrySetInput
  <1>7. CASE PostManualInput
    <2>1. /\ UNCHANGED <<loop, state, outputTypes, shown>> /\ pc = "manual"
          /\ queue' = Append(queue, SetManualInput(manual, inputValues[manual]))
      BY <1>7 DEF PostManualInput, Post, runtime
    <2>2. NoneOf(queue', Switches) => NoneOf(queue, Switches)
      <3>1. queue \in Seq(Commands)
        BY DEF TypeOK
      <3>2. /\ Len(queue) \in Nat /\ Len(queue') = Len(queue) + 1
            /\ \A n \in 1..Len(queue) : queue'[n] = queue[n]
        BY <2>1, <3>1
      <3>3. QED
        BY <3>2 DEF NoneOf
    <2>3. QED
      BY <1>1, <2>1, <2>2
  <1>8. CASE HandleStop \/ ScanThrows
    <2>1. SUFFICES ASSUME pc' \in {"idle", "manual"}, NEW o \in outputTypes' PROVE shown'[o] # "live"
      BY DEF HaltedIsSafe
    <2>2. /\ pc \in {"idle", "manual"} /\ o \in outputTypes /\ ApplyFailsafeOutputs
      BY <1>8, <2>1 DEF HandleStop, ScanThrows, service
    <2>3. program # NoProgram /\ program \in Programs /\ o \in OutputsOf[program] /\ variables = VariablesOf(program)
      BY <2>2 DEF LoadIsUnderWay, TypeOK
    <2>4. o \in Definitions \cap Outputs
      BY <2>3, Library DEF Definitions
    <2>5. QED
      BY <2>2, <2>4, FailsafeStep
  <1>9. CASE HandleResume
    <2>1. program = NoProgram \/ state' = "Running"
      BY <1>9 DEF HandleResume
    <2>2. program = NoProgram => outputTypes' = {}
      BY <1>9 DEF HandleResume, LoadIsUnderWay
    <2>3. QED
      BY <2>1, <2>2 DEF HaltedIsSafe
  <1>10. CASE HandleManualInput
    <2>1. PICK i \in Inputs, value \in Values :
            /\ NextCommand(SetManualInput(i, value))
            /\ UNCHANGED <<pc, loop, state, outputTypes, shown>>
      BY <1>10 DEF HandleManualInput, service
    <2>2. /\ queue' = Tail(queue) /\ SetManualInput(i, value) = Head(queue)
          /\ queue \in Seq(Commands) /\ queue # <<>>
      BY <2>1, TakeStep
    <2>3. Head(queue) \notin Switches
      BY <2>2, Kinds
    <2>4. NoneOf(queue', Switches) => NoneOf(queue, Switches)
      BY <2>2, <2>3, TailKeeps
    <2>5. QED
      BY <1>1, <2>1, <2>4
  <1>11. CASE BeginScan \/ ScanReturns
    BY <1>11 DEF BeginScan, ScanReturns, HaltedIsSafe
  <1>12. CASE PublishOutputs
    BY <1>12 DEF PublishOutputs, OnlyRunningScans, HaltedIsSafe
  <1>13. CASE UNCHANGED vars
    BY <1>1, <1>13 DEF vars, service, runtime
  <1>14. QED
    BY <1>3, <1>4, <1>5, <1>6, <1>7, <1>8, <1>9, <1>10, <1>11, <1>12, <1>13
    DEF Next, Requests, ServiceStep, LoopStep

-----------------------------------------------------------------------------
(* The theorems.                                                           *)

\* A service without a program and an empty queue satisfy the invariant.
LEMMA InitHolds == Init => IInv
  <1> SUFFICES ASSUME Init PROVE IInv
    OBVIOUS
  <1>1. TypeOK
    <2>1. queue = <<>> /\ queue \in Seq(Commands) /\ Len(queue) = 0 /\ QueueBound \in Nat
      BY QueueAssumption DEF Init
    <2>2. QED
      BY <2>1 DEF Init, TypeOK, ServicePlaces, Unset
  <1>2. LoadIsUnderWay /\ OnlyRunningScans /\ TouchedAreSet
    BY ProgramAssumption DEF Init, LoadIsUnderWay, OnlyRunningScans, TouchedAreSet
  <1>3. NoneOf(queue, Switches)
    BY DEF Init, NoneOf
  <1>4. SwitchesDecide /\ HaltedIsSafe /\ touched = {}
    BY <1>3 DEF Init, SwitchesDecide, HaltedIsSafe
  <1>5. QED
    BY <1>1, <1>2, <1>4 DEF IInv

\* IInv is an invariant: however loads, starts, stops and manual inputs overlap.
THEOREM Invariance == Spec => []IInv
  <1>1. Init => IInv
    BY InitHolds
  <1>2. IInv /\ [Next]_vars => IInv'
    <2> SUFFICES ASSUME IInv, [Next]_vars PROVE IInv'
      OBVIOUS
    <2>1. TypeOK' /\ TouchedAreSet'
      BY TypesStep, TouchedStep DEF IInv
    <2>2. LoadIsUnderWay' /\ OnlyRunningScans' /\ SwitchesDecide' /\ HaltedIsSafe'
      BY LoadStep, ScansStep, SwitchesStep, HaltedStep DEF IInv
    <2>3. \A j \in (touched \ {manual})' : ManualDecides(j)'
      BY <2>1, ManualStep DEF IInv
    <2>4. QED
      BY <2>1, <2>2, <2>3 DEF IInv
  <1>3. QED
    BY <1>1, <1>2, PTL DEF Spec

\* Every variable of the service and the runtime keeps to its type.
THEOREM TypesHold == Spec => []TypeOK
  BY Invariance, PTL DEF IInv

\* While nobody loads, the runtime has the active program, its outputs and definitions.
THEOREM Agreement == Spec => []AgreesWithRuntime
  <1>1. IInv => AgreesWithRuntime
    BY DEF IInv, LoadIsUnderWay, AgreesWithRuntime
  <1>2. QED
    BY <1>1, Invariance, PTL

\* A queue without commands of a type has none of the set of those commands.
LEMMA NoneIsNone ==
  ASSUME TypeOK
  PROVE  /\ HasNone({"Stop", "Resume"}) => NoneOf(queue, Switches)
         /\ HasNone({"SetManualInput"}) => \A i : NoneOf(queue, ManualOf(i))
  <1>1. DOMAIN queue = 1..Len(queue)
    BY DEF TypeOK
  <1>2. \A c \in Switches : c.type \in {"Stop", "Resume"}
    BY DEF Switches, Stop, Resume
  <1>3. \A i : \A c \in ManualOf(i) : c.type = "SetManualInput"
    BY DEF ManualOf, SetManualInput
  <1>4. QED
    BY <1>1, <1>2, <1>3 DEF HasNone, NoneOf

\* Once the queue is handled the last Stop or Resume that was posted has been obeyed.
THEOREM LastWins == Spec => []LastCommandWins
  <1>1. IInv => LastCommandWins
    <2> SUFFICES ASSUME IInv, pc \in {"idle", "manual"}, NoneOf(queue, Switches)
                 PROVE  IF last = "Stop" \/ program = NoProgram THEN state # "Running" ELSE state # "Stopped"
      BY NoneIsNone DEF IInv, LastCommandWins
    <2>1. ~IsLast(queue, Switches, LastSwitch)
      BY DEF NoneOf, IsLast
    <2>2. QED
      BY <2>1 DEF IInv, SwitchesDecide, OnlyRunningScans, TypeOK
  <1>2. QED
    BY <1>1, Invariance, PTL

\* Once the queue is handled the runtime has the last value of every input set by hand.
THEOREM ManualInputs == Spec => []ManualInputsWin
  <1>1. IInv => ManualInputsWin
    <2> SUFFICES ASSUME IInv, pc = "idle", HasNone({"SetManualInput"}), NEW i \in touched
                 PROVE  inputs[i] = inputValues[i]
      BY DEF ManualInputsWin
    <2>1. NoneOf(queue, ManualOf(i))
      BY NoneIsNone DEF IInv
    <2>2. ManualDecides(i)
      <3>1. manual = NoInput /\ i # NoInput
        BY ProgramAssumption DEF IInv, TypeOK
      <3>2. QED
        BY <3>1 DEF IInv
    <2>3. ~IsLast(queue, ManualOf(i), SetManualInput(i, inputValues[i]))
      BY <2>1 DEF NoneOf, IsLast
    <2>4. QED
      BY <2>2, <2>3 DEF ManualDecides
  <1>2. QED
    BY <1>1, Invariance, PTL

\* A runtime that halted shows nothing a scan computed for the program it has.
THEOREM HaltIsSafe == Spec => []StoppedIsSafe
  <1>1. IInv => StoppedIsSafe
    BY NoneIsNone DEF IInv, HaltedIsSafe, StoppedIsSafe
  <1>2. QED
    BY <1>1, Invariance, PTL
===============================================================================
