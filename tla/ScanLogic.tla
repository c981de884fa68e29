------------------------------ MODULE ScanLogic ------------------------------
(***************************************************************************)
(* What the rules of a program do in a scan, and what they find in the     *)
(* next one: LogicExecutor over frozen inputs and memory, with the timers, *)
(* counters and edges ScanCoordinator keeps between scans. The scan is     *)
(* followed leaf by leaf and action by action, in the order of the code;   *)
(* it holds lock(_coordinator), so nobody comes in between. Its memory is  *)
(* kept only if it is published, everything else is kept anyway.           *)
(*                                                                         *)
(* A condition is an AND of leaves: a variable, the edge of a variable, or *)
(* Done of a timer or counter, each of them possibly negated. A leaf may   *)
(* fail to evaluate, and a variable without an AND around it may throw;    *)
(* the outputs are ScanCoordinator's.                                      *)
(***************************************************************************)
EXTENDS Naturals, Sequences

CONSTANTS
  InputIds,          \* variables read from the input snapshot
  MemoryIds,         \* variables read from the memory snapshot
  TimerIds,          \* timers the rules mention
  CounterIds,        \* counters the rules mention
  TextIds,           \* variables of type String
  NodeIds,           \* operands of the edge expressions, of rules and interlocks
  DeclaredTimers,    \* LogicProgram.TimerIds
  DeclaredCounters,  \* LogicProgram.CounterIds
  Rules,             \* enabled rules, by descending priority
  Interlocks,        \* conditions of the interlocks
  Deltas,            \* bound of the model: milliseconds between two scans
  Horizon            \* bound of the model: when a timer's age stops being counted

VariableIds == InputIds \cup MemoryIds

Leaves ==
       [type : {"Variable"}, id : VariableIds, holds : BOOLEAN]
  \cup [type : {"Edge"}, id : VariableIds, node : NodeIds, rising : BOOLEAN, holds : BOOLEAN]
  \cup [type : {"TimerDone"}, id : TimerIds, holds : BOOLEAN]
  \cup [type : {"CounterDone"}, id : CounterIds, holds : BOOLEAN]

Actions ==
       [type : {"SetMemory"}, id : MemoryIds, value : {"true", "false", "text"}]
  \cup [type : {"StartTimer"}, id : TimerIds, preset : Nat]
  \cup [type : {"ResetTimer"}, id : TimerIds]
  \cup [type : {"IncrementCounter", "ResetCounter"}, id : CounterIds]

\* The operands whose edges a condition waits for, and the presets a timer is started with.
EdgeNodes(condition) ==
  {condition[k].node : k \in {j \in DOMAIN condition : condition[j].type = "Edge"}}
Starts(t, actions) ==
  {actions[k].preset : k \in {j \in DOMAIN actions : actions[j].type = "StartTimer" /\ actions[j].id = t}}
PresetsOf(t) ==
  UNION {Starts(t, Rules[i].actions) \cup Starts(t, Rules[i].elseActions) : i \in DOMAIN Rules}

\* No edge of a condition has the operand of another one.
OwnNodes(condition) ==
  \A j, k \in DOMAIN condition :
    condition[j].type = "Edge" /\ condition[k].type = "Edge" /\ condition[j].node = condition[k].node => j = k

ASSUME VariablesAssumption == InputIds \cap MemoryIds = {} /\ TextIds \subseteq VariableIds
\* Counters that are mentioned but not declared are never created.
ASSUME DeclaredAssumption == DeclaredTimers \subseteq TimerIds /\ DeclaredCounters \subseteq CounterIds
ASSUME RulesAssumption ==
  /\ Rules \in Seq([condition : Seq(Leaves), actions : Seq(Actions), elseActions : Seq(Actions)])
  /\ Interlocks \in Seq(Seq(Leaves))
\* ExpressionNode.Id is a new Guid for every operand.
ASSUME NodesAssumption ==
  /\ \A i \in DOMAIN Rules : OwnNodes(Rules[i].condition)
  /\ \A i \in DOMAIN Interlocks :
       /\ OwnNodes(Interlocks[i])
       /\ \A j \in DOMAIN Interlocks : i # j => EdgeNodes(Interlocks[i]) \cap EdgeNodes(Interlocks[j]) = {}
       /\ \A j \in DOMAIN Rules : EdgeNodes(Interlocks[i]) \cap EdgeNodes(Rules[j].condition) = {}
ASSUME TimeAssumption ==
  /\ Deltas \subseteq Nat \ {0} /\ Horizon \in Nat
  /\ \A t \in TimerIds, preset \in UNION {PresetsOf(u) : u \in TimerIds} : preset <= Horizon

VARIABLES
  inputs,          \* PlcRuntimeService._inputs: "none" until set
  memory,          \* PlcRuntimeService._memory: "none" if the variable is not in it
  timers,          \* TimerManager._timers
  counters,        \* CounterManager._counters
  edges,           \* ScanCoordinator._edgeState; an operand that is not in it reads FALSE
  pc,              \* where the scan is
  item,            \* the rule or interlock it is at
  next,            \* the next leaf of its condition, or its next action
  inputSnapshot,   \* the inputs of the scan
  memorySnapshot,  \* the memory of the scan
  written,         \* mutableMemory: the memory the rules are writing
  context,         \* _edgeState of the context that evaluates, of the rules or the interlocks
  ruleEdges,       \* ExecutionResult.EdgeState
  acted,           \* the rules whose condition held
  active,          \* the interlocks whose condition held
  age,             \* history: time since a timer's input went ON, up to Horizon
  low              \* history: operands a rule saw low, or never saw, since a rule acted on their edge
                   \* in a scan that did not throw

kept == <<inputs, memory, timers, counters, edges>>
place == <<pc, item, next>>
snapshots == <<inputSnapshot, memorySnapshot>>
results == <<written, context, ruleEdges, acted, active>>
vars == <<kept, place, snapshots, results, age, low>>

\* "text" is a String that spells no boolean; those that do are left out.
Readings == {"none", "true", "false", "text"}
ValuesOf(v) == IF v \in TextIds THEN {"text"} ELSE {"true", "false"}
CanInterpretAsBool(value) == value \in {"true", "false"}
Truth(value) == value = "true"
AsValue(b) == IF b THEN "true" ELSE "false"

NoTimer == [known |-> FALSE, preset |-> 0, elapsed |-> 0, input |-> FALSE, done |-> FALSE]
NoCounter == [known |-> FALSE, current |-> 0, done |-> FALSE, last |-> FALSE]
NoInputs == [v \in InputIds |-> "none"]
NoMemory == [v \in MemoryIds |-> "none"]
NoEdges == [n \in NodeIds |-> FALSE]

Init ==
  /\ inputs = NoInputs /\ memory = NoMemory
  /\ timers = [t \in TimerIds |-> NoTimer] /\ counters = [c \in CounterIds |-> NoCounter]
  /\ edges = NoEdges
  /\ pc = "idle" /\ item = 1 /\ next = 1
  /\ inputSnapshot = NoInputs /\ memorySnapshot = NoMemory
  /\ written = NoMemory /\ context = NoEdges /\ ruleEdges = NoEdges /\ acted = {} /\ active = {}
  /\ age = [t \in TimerIds |-> 0] /\ low = NodeIds

-----------------------------------------------------------------------------
(* Leaves. "none" is a leaf that cannot be evaluated.                      *)

Frozen(v) == IF v \in InputIds THEN inputSnapshot[v] ELSE memorySnapshot[v]
Written(v) == IF v \in MemoryIds THEN written[v] ELSE "none"

\* Mutated form: what the rules before have written is seen first.
ReadVariable_Live(v) == IF Written(v) # "none" THEN Written(v) ELSE Frozen(v)

\* Frozen inputs and memory come first; only a variable that is in neither is read from
\* the memory that is being written.
ReadVariable(v) == IF Frozen(v) # "none" THEN Frozen(v) ELSE Written(v)

DetectEdge(value, before, rising) == IF rising THEN value /\ ~before ELSE ~value /\ before

LeafValue(e) ==
  CASE e.type = "Variable" ->
         IF CanInterpretAsBool(ReadVariable(e.id)) THEN ReadVariable(e.id) ELSE "none"
    [] e.type = "Edge" ->
         IF CanInterpretAsBool(ReadVariable(e.id))
           THEN AsValue(DetectEdge(Truth(ReadVariable(e.id)), context[e.node], e.rising)) ELSE "none"
    [] e.type = "TimerDone" -> IF timers[e.id].known THEN AsValue(timers[e.id].done) ELSE "none"
    [] e.type = "CounterDone" -> IF counters[e.id].known THEN AsValue(counters[e.id].done) ELSE "none"

\* The operand of an edge is noted when it is evaluated, and only then.
NoteEdge(e) ==
  context' = IF e.type = "Edge" /\ CanInterpretAsBool(ReadVariable(e.id))
               THEN [context EXCEPT ![e.node] = Truth(ReadVariable(e.id))] ELSE context

-----------------------------------------------------------------------------
(* Timers and counters.                                                    *)

\* Mutated form: the time of the scan is counted when the timer starts to wait for it.
Update_Ahead(t, delta) ==
  IF ~t.known THEN t
  ELSE IF t.input
    THEN LET elapsed == t.elapsed + delta
             done == elapsed + delta >= t.preset
         IN [t EXCEPT !.elapsed = IF done THEN t.preset ELSE elapsed, !.done = done]
    ELSE [t EXCEPT !.elapsed = 0, !.done = FALSE]

\* TimerState.UpdateTon: the rules create no timers of another kind.
Update(t, delta) ==
  IF ~t.known THEN t
  ELSE IF t.input
    THEN LET elapsed == t.elapsed + delta
             done == elapsed >= t.preset
         IN [t EXCEPT !.elapsed = IF done THEN t.preset ELSE elapsed, !.done = done]
    ELSE [t EXCEPT !.elapsed = 0, !.done = FALSE]

\* GetOrCreate writes the preset of a timer that exists as well.
GetOrCreateTimer(t, preset) == [t EXCEPT !.known = TRUE, !.preset = preset]
SetInputOn(t) == [t EXCEPT !.input = TRUE]
ResetTimer(t) == IF ~t.known THEN t ELSE [t EXCEPT !.elapsed = 0, !.done = FALSE, !.input = FALSE]

\* Mutated form: every increment counts, not only the first one after a reset.
Increment_EveryTime(c) ==
  IF ~c.known THEN c
  ELSE [c EXCEPT !.current = @ + 1, !.done = TRUE]

\* CounterState.Update of a CTU counter whose preset is 0: only a rising input counts, and
\* nothing but a reset lowers it.
Increment(c) ==
  IF ~c.known THEN c
  ELSE [c EXCEPT !.current = IF c.last THEN @ ELSE @ + 1, !.done = TRUE, !.last = TRUE]

ResetCounter(c) == IF ~c.known THEN c ELSE [c EXCEPT !.current = 0, !.done = FALSE, !.last = FALSE]

-----------------------------------------------------------------------------
(* ScanCoordinator.Scan and LogicExecutor.Execute.                         *)

\* RegisterTimersAndCounters: every scan declares those of the program, with preset 0.
Registered(t, state) == IF t \in DeclaredTimers THEN GetOrCreateTimer(state, 0) ELSE state

Older(t, delta) ==
  IF ~timers[t].input THEN 0 ELSE IF age[t] + delta > Horizon THEN Horizon ELSE age[t] + delta

\* Time passes: the timers advance. Then the scan takes its snapshots and begins.
BeginScan(delta) ==
  /\ pc = "idle"
  /\ pc' = "condition" /\ item' = 1 /\ next' = 1
  /\ timers' = [t \in TimerIds |-> Registered(t, Update(timers[t], delta))]
  /\ counters' = [c \in CounterIds |->
                    IF c \in DeclaredCounters THEN [counters[c] EXCEPT !.known = TRUE] ELSE counters[c]]
  /\ age' = [t \in TimerIds |-> Older(t, delta)]
  /\ inputSnapshot' = inputs /\ memorySnapshot' = memory
  /\ written' = memory /\ context' = edges
  /\ UNCHANGED <<inputs, memory, edges, ruleEdges, acted, active, low>>

\* The condition under evaluation, of a rule or of an interlock.
AtRule == pc = "condition" /\ item <= Len(Rules)
AtInterlock == pc = "interlocks" /\ item <= Len(Interlocks)
Condition == IF pc = "condition" THEN Rules[item].condition ELSE Interlocks[item]

\* A rule that looks at an operand that is low sees its edge again when it rises.
SeeLow(e) ==
  low' = IF AtRule /\ e.type = "Edge" /\ ReadVariable(e.id) = "false" THEN low \cup {e.node} ELSE low

\* EvaluateAnd: an operand that holds leads to the next one.
LeafHolds ==
  /\ (AtRule \/ AtInterlock)
  /\ next <= Len(Condition)
  /\ LET e == Condition[next] IN
       /\ LeafValue(e) = AsValue(e.holds)
       /\ NoteEdge(e) /\ SeeLow(e)
  /\ next' = next + 1
  /\ UNCHANGED <<kept, pc, item, snapshots, written, ruleEdges, acted, active, age>>

\* The first operand that does not hold ends the evaluation, so that the edges behind it
\* keep what they saw in an earlier scan. The rule does what it does otherwise.
LeafIsFalse ==
  /\ (AtRule \/ AtInterlock)
  /\ next <= Len(Condition)
  /\ LET e == Condition[next] IN
       /\ LeafValue(e) = AsValue(~e.holds)
       /\ NoteEdge(e) /\ SeeLow(e)
  /\ next' = 1
  /\ IF AtRule THEN pc' = "actions" /\ item' = item ELSE pc' = pc /\ item' = item + 1
  /\ UNCHANGED <<kept, snapshots, written, ruleEdges, acted, active, age>>

\* A variable that is the whole condition has no AND or NOT that would look at its type
\* before AsBool converts its value.
IsBare(condition) == Len(condition) = 1 /\ condition[1].type = "Variable" /\ condition[1].holds
AsBoolThrows ==
  /\ (AtRule \/ AtInterlock)
  /\ next = 1 /\ IsBare(Condition) /\ ReadVariable(Condition[1].id) = "text"

\* One that fails to evaluate ends it too, and the rule does nothing, not even its else
\* branch. An interlock is unresolved then.
LeafFails ==
  /\ (AtRule \/ AtInterlock)
  /\ next <= Len(Condition)
  /\ LeafValue(Condition[next]) = "none" /\ ~AsBoolThrows
  /\ next' = 1 /\ item' = item + 1
  /\ UNCHANGED <<kept, pc, snapshots, results, age, low>>

\* A leaf that waits for its operand to become true, and the operands such leaves have.
Rises(e) == e.type = "Edge" /\ e.rising /\ e.holds
RisingNodes(condition) == {condition[k].node : k \in {j \in DOMAIN condition : Rises(condition[j])}}

RuleHolds ==
  /\ AtRule /\ next > Len(Condition)
  /\ pc' = "actions" /\ next' = 1
  /\ acted' = acted \cup {item}
  /\ low' = low \ RisingNodes(Condition)
  /\ UNCHANGED <<kept, item, snapshots, written, context, ruleEdges, active, age>>

Branch == IF item \in acted THEN Rules[item].actions ELSE Rules[item].elseActions

\* The timer and its age after an action on it.
ApplyToTimer(a) ==
  LET t == timers[a.id] IN
  /\ timers' = [timers EXCEPT ![a.id] =
                  IF a.type = "StartTimer" THEN SetInputOn(GetOrCreateTimer(t, a.preset)) ELSE ResetTimer(t)]
  /\ age' = [age EXCEPT ![a.id] = IF timers'[a.id].input THEN @ ELSE 0]

ApplyAction ==
  /\ pc = "actions" /\ next <= Len(Branch)
  /\ LET a == Branch[next] IN
       \/ /\ a.type = "SetMemory"
          /\ written' = [written EXCEPT ![a.id] = a.value]
          /\ UNCHANGED <<timers, counters, age>>
       \/ /\ a.type \in {"StartTimer", "ResetTimer"}
          /\ ApplyToTimer(a)
          /\ UNCHANGED <<counters, written>>
       \/ /\ a.type \in {"IncrementCounter", "ResetCounter"}
          /\ counters' = [counters EXCEPT ![a.id] =
                            IF a.type = "IncrementCounter" THEN Increment(@) ELSE ResetCounter(@)]
          /\ UNCHANGED <<timers, written, age>>
  /\ next' = next + 1
  /\ UNCHANGED <<inputs, memory, edges, pc, item, snapshots, context, ruleEdges, acted, active, low>>

RuleDone ==
  /\ pc = "actions" /\ next > Len(Branch)
  /\ pc' = "condition" /\ item' = item + 1 /\ next' = 1
  /\ UNCHANGED <<kept, snapshots, results, age, low>>

\* EvaluateInterlocks: one context for all of them, with the edges of the scan before,
\* which hold the operands of rules only.
BeginInterlocks ==
  /\ pc = "condition" /\ item > Len(Rules)
  /\ pc' = "interlocks" /\ item' = 1 /\ next' = 1
  /\ ruleEdges' = context /\ context' = edges
  /\ UNCHANGED <<kept, snapshots, written, acted, active, age, low>>

InterlockHolds ==
  /\ AtInterlock /\ next > Len(Condition)
  /\ item' = item + 1 /\ next' = 1
  /\ active' = active \cup {item}
  /\ UNCHANGED <<kept, pc, snapshots, written, context, ruleEdges, acted, age, low>>

\* Mutated form: the edges are those of whoever looked last.
KeptEdges_Interlocks == [n \in NodeIds |-> ruleEdges[n] \/ context[n]]

\* Mutated form: the edges of the scan are lost, like the memory of one that is discarded.
KeptEdges_Lost == edges

\* The edges the rules have seen; those of the interlocks are lost.
KeptEdges == ruleEdges

\* Scan returns, and the lock is released.
ScanReturns ==
  /\ pc = "interlocks" /\ item > Len(Interlocks)
  /\ pc' = "returned" /\ item' = 1
  /\ edges' = KeptEdges
  /\ UNCHANGED <<inputs, memory, timers, counters, next, snapshots, results, age, low>>

\* What a scan used is over.
DropScan ==
  /\ inputSnapshot' = NoInputs /\ memorySnapshot' = NoMemory
  /\ written' = NoMemory /\ context' = NoEdges /\ ruleEdges' = NoEdges /\ acted' = {} /\ active' = {}

\* PlcRuntimeService publishes the memory of the scan or discards it.
EndScan ==
  /\ pc = "returned" /\ pc' = "idle"
  /\ memory' \in {memory, written}
  /\ DropScan
  /\ UNCHANGED <<inputs, timers, counters, edges, item, next, age, low>>

ActedNodes == UNION {RisingNodes(Rules[i].condition) : i \in acted}

\* The exception leaves Scan and the lock, and faults the runtime. What the actions did to
\* timers and counters stays; the memory they wrote and the edges they saw are lost, so
\* that the next scan sees those edges again.
ScanThrows ==
  /\ AsBoolThrows
  /\ pc' = "idle" /\ item' = 1 /\ next' = 1
  /\ low' = low \cup ActedNodes
  /\ DropScan
  /\ UNCHANGED <<kept, age>>

-----------------------------------------------------------------------------
LockIsFree == pc \in {"idle", "returned"}

SetInput(v, value) ==
  /\ LockIsFree
  /\ inputs' = [inputs EXCEPT ![v] = value]
  /\ UNCHANGED <<memory, timers, counters, edges, place, snapshots, results, age, low>>

\* The same program is installed again: the coordinator keeps its timers and edges.
InstallConfiguration ==
  /\ LockIsFree
  /\ inputs' = NoInputs /\ memory' = NoMemory
  /\ UNCHANGED <<timers, counters, edges, place, snapshots, results, age, low>>

ScanStep ==
  \/ LeafHolds \/ LeafIsFalse \/ LeafFails \/ RuleHolds \/ ApplyAction \/ RuleDone
  \/ BeginInterlocks \/ InterlockHolds \/ ScanReturns \/ EndScan \/ ScanThrows

Next ==
  \/ \E delta \in Deltas : BeginScan(delta)
  \/ ScanStep
  \/ \E v \in InputIds : \E value \in ValuesOf(v) : SetInput(v, value)
  \/ InstallConfiguration

Spec == Init /\ [][Next]_vars

-----------------------------------------------------------------------------
(* Properties.                                                             *)

Places == {"idle", "condition", "actions", "interlocks", "returned"}
Timers == [known : BOOLEAN, preset : Nat, elapsed : Nat, input : BOOLEAN, done : BOOLEAN]
Counters == [known : BOOLEAN, current : 0..1, done : BOOLEAN, last : BOOLEAN]

\* Every variable holds a value of its type, and a counter counts no further than one.
TypeOK ==
  /\ inputs \in [InputIds -> Readings] /\ inputSnapshot \in [InputIds -> Readings]
  /\ memory \in [MemoryIds -> Readings] /\ memorySnapshot \in [MemoryIds -> Readings]
  /\ written \in [MemoryIds -> Readings]
  /\ timers \in [TimerIds -> Timers] /\ counters \in [CounterIds -> Counters]
  /\ edges \in [NodeIds -> BOOLEAN] /\ context \in [NodeIds -> BOOLEAN] /\ ruleEdges \in [NodeIds -> BOOLEAN]
  /\ pc \in Places /\ item \in Nat \ {0} /\ next \in Nat \ {0}
  /\ pc = "actions" => item \in DOMAIN Rules
  /\ acted \subseteq DOMAIN Rules /\ active \subseteq DOMAIN Interlocks
  /\ age \in [TimerIds -> 0..Horizon] /\ low \subseteq NodeIds

\* A timer the program does not declare, and starts with one preset, is done only after its
\* input was ON for that long, through resets, installations, and scans that were discarded or threw.
TimerHonoursPreset ==
  \A t \in TimerIds \ DeclaredTimers :
    timers[t].done /\ (\A p, q \in PresetsOf(t) : p = q) => age[t] >= timers[t].preset

\* A rule that waits for rising edges acts only if each of their operands was seen low since
\* a rule acted on it before, even if the scan in which it acted was discarded or the
\* program was installed again. A scan that throws is excused: it forgets the edges it acted on.
EdgesRiseOnce ==
  AtRule /\ next > Len(Condition) => RisingNodes(Condition) \subseteq low

\* The rules and interlocks this scan has evaluated.
RulesPassed ==
  {i \in DOMAIN Rules : \/ pc = "condition" /\ i < item
                        \/ pc = "actions" /\ i <= item
                        \/ pc \in {"interlocks", "returned"}}
InterlocksPassed ==
  {i \in DOMAIN Interlocks : \/ pc = "interlocks" /\ i < item
                             \/ pc = "returned"}

\* A rule whose condition is about variables acts as the inputs and the memory the scan
\* started from say, whatever the rules before it have written.
MemoryIsFrozen ==
  \A i \in RulesPassed :
    LET condition == Rules[i].condition
    IN (\A k \in DOMAIN condition : condition[k].type = "Variable" /\ Frozen(condition[k].id) # "none") =>
         (i \in acted <=> \A k \in DOMAIN condition : Frozen(condition[k].id) = AsValue(condition[k].holds))

\* An interlock on rising edges stays active for as long as their operands are true, scan
\* after scan, and not only in the scan in which they rise.
RisingInterlockHolds ==
  \A i \in InterlocksPassed :
    LET condition == Interlocks[i]
    IN (\A k \in DOMAIN condition : Rises(condition[k]) /\ Frozen(condition[k].id) = "true") => i \in active
=============================================================================
