--------------------------- MODULE ScanLogicProofs ---------------------------
(***************************************************************************)
(* The invariants of ScanLogic for every program: any number of rules,     *)
(* interlocks, timers, counters and operands, and any times.               *)
(*                                                                         *)
(* The argument: each property speaks of a rule or an interlock that has   *)
(* been evaluated; IInv says what is known of the leaves before next       *)
(* (EdgesSoFar, FrozenSoFar), so that it holds of all of them at the end.  *)
(* For the edges, each operand is one that the rules saw high when they    *)
(* last looked, or one they have seen low since they acted (HighIsKept);   *)
(* in a scan that may still throw it may also be one they acted on         *)
(* (ThrowIsExcused).                                                       *)
(***************************************************************************)
EXTENDS ScanLogic, TLAPS

-----------------------------------------------------------------------------
(* The inductive invariant.                                                *)

\* A counter that no increment reached since its reset stands at 0.
CountersReset == \A c \in CounterIds : ~counters[c].last => counters[c].current = 0

SinglePreset(t) == \A p, q \in PresetsOf(t) : p = q

\* A timer that is started with one preset has counted no more than its age and its preset.
TimersCount ==
  \A t \in TimerIds \ DeclaredTimers :
    SinglePreset(t) =>
      /\ timers[t].known => timers[t].preset \in PresetsOf(t)
      /\ ~timers[t].known => timers[t] = NoTimer
      /\ ~timers[t].input => timers[t].elapsed = 0 /\ ~timers[t].done
      /\ timers[t].elapsed <= age[t]
      /\ timers[t].done => timers[t].elapsed = timers[t].preset

\* The edges the next rule, of this scan or of the next one, starts from.
RuleContext ==
  IF pc \in {"condition", "actions"} THEN context ELSE IF pc = "interlocks" THEN ruleEdges ELSE edges

\* An operand that no rule has seen low is one that the rules have seen high.
HighIsKept == \A n \in NodeIds : RuleContext[n] \/ n \in low

\* An operand that is neither is one the scan under way acted on, whose throw is excused.
ThrowIsExcused ==
  pc # "returned" => \A n \in NodeIds : edges[n] \/ n \in low \/ n \in ActedNodes

\* The rising edges a rule has found so far were low before, and are high now.
EdgesSoFar ==
  AtRule => \A k \in DOMAIN Condition :
              k < next /\ Rises(Condition[k]) => Condition[k].node \in low /\ context[Condition[k].node]

\* A rule has acted only if the scan has come to it.
ActedPassed == acted \subseteq RulesPassed

\* The variables a rule has found to hold so far hold in the snapshots.
FrozenSoFar ==
  AtRule => \A k \in DOMAIN Condition :
              k < next /\ Condition[k].type = "Variable" /\ Frozen(Condition[k].id) # "none" =>
                Frozen(Condition[k].id) = AsValue(Condition[k].holds)

\* No rule knows the operands of an interlock, and an interlock finds its own untouched.
InterlocksForget ==
  \A i \in DOMAIN Interlocks : \A k \in DOMAIN Interlocks[i] :
    Interlocks[i][k].type = "Edge" =>
      /\ ~edges[Interlocks[i][k].node]
      /\ pc \in {"condition", "actions"} => ~context[Interlocks[i][k].node]
      /\ pc = "interlocks" =>
           /\ ~ruleEdges[Interlocks[i][k].node]
           /\ (item < i \/ (item = i /\ next <= k)) => ~context[Interlocks[i][k].node]

IInv ==
  /\ TypeOK /\ CountersReset /\ TimersCount
  /\ HighIsKept /\ ThrowIsExcused /\ EdgesSoFar
  /\ ActedPassed /\ FrozenSoFar /\ MemoryIsFrozen
  /\ InterlocksForget /\ RisingInterlockHolds
-----------------------------------------------------------------------------
(* Leaves, conditions and actions.                                         *)

\* What the fields of a leaf are.
LEMMA LeafFields ==
  ASSUME NEW e \in Leaves
  PROVE  /\ e.type \in {"Variable", "Edge", "TimerDone", "CounterDone"} /\ e.holds \in BOOLEAN
         /\ e.type \in {"Variable", "Edge"} => e.id \in VariableIds
         /\ e.type = "Edge" => e.node \in NodeIds /\ e.rising \in BOOLEAN
         /\ e.type = "TimerDone" => e.id \in TimerIds
         /\ e.type = "CounterDone" => e.id \in CounterIds
<1>1. CASE e \in [type : {"Variable"}, id : VariableIds, holds : BOOLEAN]
  BY <1>1
<1>2. CASE e \in [type : {"Edge"}, id : VariableIds, node : NodeIds, rising : BOOLEAN, holds : BOOLEAN]
  BY <1>2
<1>3. CASE e \in [type : {"TimerDone"}, id : TimerIds, holds : BOOLEAN]
  BY <1>3
<1>4. CASE e \in [type : {"CounterDone"}, id : CounterIds, holds : BOOLEAN]
  BY <1>4
<1> QED  BY <1>1, <1>2, <1>3, <1>4 DEF Leaves

\* The operands a condition waits to rise are operands.
LEMMA RisingAreNodes ==
  ASSUME NEW condition \in Seq(Leaves)
  PROVE  RisingNodes(condition) \subseteq NodeIds
<1> SUFFICES ASSUME NEW k \in DOMAIN condition, Rises(condition[k]) PROVE condition[k].node \in NodeIds
  BY DEF RisingNodes
<1> QED  BY LeafFields DEF Rises

\* What the fields of an action are.
LEMMA ActionFields ==
  ASSUME NEW a \in Actions
  PROVE  /\ a.type \in {"SetMemory", "StartTimer", "ResetTimer", "IncrementCounter", "ResetCounter"}
         /\ a.type = "SetMemory" => a.id \in MemoryIds /\ a.value \in {"true", "false", "text"}
         /\ a.type \in {"StartTimer", "ResetTimer"} => a.id \in TimerIds
         /\ a.type = "StartTimer" => a.preset \in Nat
         /\ a.type \in {"IncrementCounter", "ResetCounter"} => a.id \in CounterIds
<1>1. CASE a \in [type : {"SetMemory"}, id : MemoryIds, value : {"true", "false", "text"}]
  BY <1>1
<1>2. CASE a \in [type : {"StartTimer"}, id : TimerIds, preset : Nat]
  BY <1>2
<1>3. CASE a \in [type : {"ResetTimer"}, id : TimerIds]
  BY <1>3
<1>4. CASE a \in [type : {"IncrementCounter", "ResetCounter"}, id : CounterIds]
  BY <1>4
<1> QED  BY <1>1, <1>2, <1>3, <1>4 DEF Actions

\* An index up to the length of a sequence is in its domain.
LEMMA IsIndex ==
  ASSUME NEW S, NEW s \in Seq(S), NEW k \in Nat \ {0}
  PROVE  /\ k <= Len(s) <=> k \in DOMAIN s
         /\ k \in DOMAIN s => s[k] \in S
OBVIOUS

\* What a sequence holds is in the set it is over.
LEMMA IsElement ==
  ASSUME NEW S, NEW s \in Seq(S), NEW k \in DOMAIN s
  PROVE  k \in Nat \ {0} /\ s[k] \in S
OBVIOUS

\* The conditions of the rules and interlocks are made of leaves, their branches of actions.
LEMMA RuleFields ==
  ASSUME NEW i \in DOMAIN Rules
  PROVE  /\ Rules[i].condition \in Seq(Leaves)
         /\ Rules[i].actions \in Seq(Actions)
         /\ Rules[i].elseActions \in Seq(Actions)
<1>1. Rules[i] \in [condition : Seq(Leaves), actions : Seq(Actions), elseActions : Seq(Actions)]
  BY RulesAssumption, IsElement, Zenon DEF RulesAssumption
<1> QED  BY <1>1

\* The condition under evaluation, and the leaf it is at.
LEMMA ConditionFields ==
  ASSUME TypeOK, AtRule \/ AtInterlock
  PROVE  /\ Condition \in Seq(Leaves)
         /\ next <= Len(Condition) => next \in DOMAIN Condition /\ Condition[next] \in Leaves
         /\ AtRule => item \in DOMAIN Rules /\ Condition = Rules[item].condition
         /\ AtInterlock => item \in DOMAIN Interlocks /\ Condition = Interlocks[item]
<1>1. item \in Nat \ {0} /\ next \in Nat \ {0}
  BY DEF TypeOK
<1>2. CASE AtRule
  <2>1. item \in DOMAIN Rules
    BY <1>1, <1>2, IsIndex, RulesAssumption DEF RulesAssumption, AtRule
  <2>2. Condition = Rules[item].condition /\ ~AtInterlock
    BY <1>2 DEF Condition, AtRule, AtInterlock
  <2> QED  BY <1>1, <1>2, <2>1, <2>2, RuleFields, IsIndex
<1>3. CASE AtInterlock
  <2>1. item \in DOMAIN Interlocks /\ Interlocks[item] \in Seq(Leaves)
    BY <1>1, <1>3, IsIndex, RulesAssumption DEF RulesAssumption, AtInterlock
  <2>2. Condition = Interlocks[item] /\ ~AtRule
    BY <1>3 DEF Condition, AtRule, AtInterlock
  <2> QED  BY <1>1, <1>3, <2>1, <2>2, IsIndex
<1> QED  BY <1>2, <1>3

\* Reading a variable gives a reading.
LEMMA ReadingTypes ==
  ASSUME TypeOK, NEW v \in VariableIds
  PROVE  ReadVariable(v) \in Readings /\ Frozen(v) \in Readings
<1>1. Frozen(v) \in Readings
  BY DEF TypeOK, VariableIds, Frozen
<1>2. Written(v) \in Readings
  BY DEF TypeOK, Written, Readings
<1> QED  BY <1>1, <1>2 DEF ReadVariable

\* Evaluating a leaf disturbs the context at the operand of an edge only, and there it
\* leaves what the operand reads.
LEMMA NoteEdgeEffect ==
  ASSUME TypeOK, NEW e \in Leaves, NoteEdge(e)
  PROVE  /\ context' \in [NodeIds -> BOOLEAN]
         /\ \A n \in NodeIds :
              context'[n] = IF e.type = "Edge" /\ n = e.node /\ CanInterpretAsBool(ReadVariable(e.id))
                              THEN Truth(ReadVariable(e.id)) ELSE context[n]
BY LeafFields DEF TypeOK, NoteEdge, Truth

\* The branch of a rule is made of actions.
LEMMA BranchFields ==
  ASSUME TypeOK, pc = "actions", next <= Len(Branch)
  PROVE  Branch[next] \in Actions
<1>1. item \in DOMAIN Rules /\ next \in Nat \ {0}
  BY DEF TypeOK
<1>2. Branch \in Seq(Actions)
  BY <1>1, RuleFields DEF Branch
<1> QED  BY <1>1, <1>2, IsIndex
-----------------------------------------------------------------------------
(* Types.                                                                  *)

\* Timers and counters stay timers and counters, whatever is done to them.
LEMMA TimerTypes ==
  ASSUME NEW t \in Timers, NEW delta \in Nat, NEW preset \in Nat
  PROVE  /\ Update(t, delta) \in Timers /\ GetOrCreateTimer(t, preset) \in Timers
         /\ SetInputOn(t) \in Timers /\ ResetTimer(t) \in Timers
<1>1. /\ t.known \in BOOLEAN /\ t.preset \in Nat /\ t.elapsed \in Nat
      /\ t.input \in BOOLEAN /\ t.done \in BOOLEAN
  BY DEF Timers
<1>2. Update(t, delta) \in Timers
  <2> DEFINE elapsed == t.elapsed + delta
             done == elapsed >= t.preset
             counted == IF done THEN t.preset ELSE elapsed
  <2>1. counted \in Nat /\ done \in BOOLEAN
    BY <1>1
  <2>2. [t EXCEPT !.elapsed = counted, !.done = done] \in Timers
    <3> HIDE DEF counted, done
    <3> QED  BY <2>1 DEF Timers
  <2>3. [t EXCEPT !.elapsed = 0, !.done = FALSE] \in Timers
    BY DEF Timers
  <2> QED  BY <2>2, <2>3 DEF Update
<1>3. GetOrCreateTimer(t, preset) \in Timers
  BY DEF Timers, GetOrCreateTimer
<1>4. SetInputOn(t) \in Timers
  BY DEF Timers, SetInputOn
<1>5. ResetTimer(t) \in Timers
  BY DEF Timers, ResetTimer
<1> QED  BY <1>2, <1>3, <1>4, <1>5

\* A counter stays one that counts to one at most, and is 0 until the first increment
\* after a reset.
LEMMA CounterTypes ==
  ASSUME NEW c \in Counters, ~c.last => c.current = 0
  PROVE  /\ Increment(c) \in Counters /\ (~Increment(c).last => Increment(c).current = 0)
         /\ ResetCounter(c) \in Counters /\ (~ResetCounter(c).last => ResetCounter(c).current = 0)
<1>1. c.current \in 0..1 /\ c.last \in BOOLEAN /\ (IF c.last THEN c.current ELSE c.current + 1) \in 0..1
  BY DEF Counters
<1>2. Increment(c) \in Counters
  <2> DEFINE counted == IF c.last THEN c.current ELSE c.current + 1
  <2>1. [c EXCEPT !.current = counted, !.done = TRUE, !.last = TRUE] \in Counters
    <3> HIDE DEF counted
    <3>1. counted \in 0..1
      BY <1>1 DEF counted
    <3> QED  BY <3>1 DEF Counters
  <2> QED  BY <2>1 DEF Increment, Counters
<1>3. ResetCounter(c) \in Counters
  <2>1. 0 \in 0..1
    OBVIOUS
  <2>2. [c EXCEPT !.current = 0, !.done = FALSE, !.last = FALSE] \in Counters
    BY <2>1 DEF Counters
  <2> QED  BY <2>2 DEF ResetCounter, Counters
<1>4. ~Increment(c).last => Increment(c).current = 0
  BY DEF Counters, Increment
<1>5. ~ResetCounter(c).last => ResetCounter(c).current = 0
  BY DEF Counters, ResetCounter
<1> QED  BY <1>2, <1>3, <1>4, <1>5

\* At the start everything holds.
LEMMA InitHolds == ASSUME Init PROVE IInv
<1>1. NoTimer \in Timers /\ NoCounter \in Counters
  BY DEF NoTimer, NoCounter, Timers, Counters
<1>2. TypeOK
  BY <1>1, TimeAssumption
     DEF Init, TypeOK, NoInputs, NoMemory, NoEdges, Readings, Places, TimeAssumption
<1>3. CountersReset /\ TimersCount
  BY <1>1 DEF Init, CountersReset, TimersCount, NoTimer, NoCounter, Timers
<1>4. HighIsKept /\ ThrowIsExcused
  BY DEF Init, HighIsKept, ThrowIsExcused
<1>5. EdgesSoFar /\ FrozenSoFar
  BY DEF Init, EdgesSoFar, FrozenSoFar, AtRule
<1>6. RulesPassed = {} /\ InterlocksPassed = {}
  BY DEF Init, RulesPassed, InterlocksPassed
<1>7. ActedPassed /\ MemoryIsFrozen /\ RisingInterlockHolds
  BY <1>6 DEF Init, ActedPassed, MemoryIsFrozen, RisingInterlockHolds
<1>8. InterlocksForget
  <2> SUFFICES ASSUME NEW i \in DOMAIN Interlocks, NEW k \in DOMAIN Interlocks[i],
                      Interlocks[i][k].type = "Edge"
               PROVE  ~edges[Interlocks[i][k].node]
    BY DEF InterlocksForget, Init
  <2>1. Interlocks[i][k] \in Leaves
    BY IsElement, RulesAssumption DEF RulesAssumption
  <2> QED  BY <2>1, LeafFields DEF Init, NoEdges
<1> QED  BY <1>2, <1>3, <1>4, <1>5, <1>7, <1>8 DEF IInv

\* Every step of a scan, of a web thread or of time keeps the types.
LEMMA TypeStep == ASSUME IInv, Next PROVE TypeOK'
<1> USE DEF kept, place, snapshots, results
<1>0. TypeOK /\ CountersReset
  BY DEF IInv
<1>1. ASSUME NEW delta \in Deltas, BeginScan(delta) PROVE TypeOK'
  <2>1. delta \in Nat /\ Horizon \in Nat
    BY TimeAssumption DEF TimeAssumption
  <2>2. timers' \in [TimerIds -> Timers]
    BY <1>0, <1>1, <2>1, TimerTypes DEF BeginScan, Registered, TypeOK
  <2>3. counters' \in [CounterIds -> Counters]
    BY <1>0, <1>1 DEF BeginScan, TypeOK, Counters
  <2>4. age' \in [TimerIds -> 0..Horizon]
    BY <1>0, <1>1, <2>1 DEF BeginScan, TypeOK, Older
  <2> QED  BY <1>0, <1>1, <2>2, <2>3, <2>4 DEF BeginScan, TypeOK, Places
<1>2. CASE LeafHolds \/ LeafIsFalse
  <2>1. /\ AtRule \/ AtInterlock
        /\ next <= Len(Condition)
        /\ NoteEdge(Condition[next]) /\ SeeLow(Condition[next])
    BY <1>2 DEF LeafHolds, LeafIsFalse
  <2>2. Condition[next] \in Leaves
    BY <1>0, <2>1, ConditionFields
  <2>3. context' \in [NodeIds -> BOOLEAN]
    BY <1>0, <2>1, <2>2, NoteEdgeEffect
  <2>4. low' \subseteq NodeIds
    BY <1>0, <2>1, <2>2, LeafFields DEF SeeLow, TypeOK
  <2>5. item' \in Nat \ {0} /\ next' \in Nat \ {0} /\ pc' \in Places
    BY <1>0, <1>2 DEF LeafHolds, LeafIsFalse, TypeOK, Places
  <2>6. pc' = "actions" => item' \in DOMAIN Rules
    BY <1>0, <1>2, <2>1, ConditionFields DEF LeafHolds, LeafIsFalse, AtRule, AtInterlock
  <2>7. UNCHANGED <<kept, snapshots, written, ruleEdges, acted, active, age>>
    BY <1>2 DEF LeafHolds, LeafIsFalse
  <2> QED  BY <1>0, <2>3, <2>4, <2>5, <2>6, <2>7 DEF TypeOK
<1>3. CASE LeafFails
  BY <1>0, <1>3 DEF LeafFails, TypeOK, AtRule, AtInterlock
<1>4. CASE RuleHolds
  <2>1. item \in DOMAIN Rules
    BY <1>0, <1>4, ConditionFields DEF RuleHolds
  <2> QED  BY <1>0, <1>4, <2>1 DEF RuleHolds, TypeOK, Places
<1>5. CASE ApplyAction
  <2>1. pc = "actions" /\ Branch[next] \in Actions
    BY <1>0, <1>5, BranchFields DEF ApplyAction
  <2>2. next' \in Nat \ {0}
    BY <1>0, <1>5 DEF ApplyAction, TypeOK
  <2>3. UNCHANGED <<inputs, memory, edges, pc, item, snapshots, context, ruleEdges, acted, active, low>>
    BY <1>5 DEF ApplyAction
  <2>4. CASE /\ Branch[next].type = "SetMemory"
             /\ written' = [written EXCEPT ![Branch[next].id] = Branch[next].value]
             /\ UNCHANGED <<timers, counters, age>>
    <3>1. written' \in [MemoryIds -> Readings]
      BY <1>0, <2>1, <2>4, ActionFields DEF TypeOK, Readings
    <3> QED  BY <1>0, <2>2, <2>3, <2>4, <3>1 DEF TypeOK
  <2>5. CASE /\ Branch[next].type \in {"StartTimer", "ResetTimer"}
             /\ ApplyToTimer(Branch[next])
             /\ UNCHANGED <<counters, written>>
    <3> DEFINE a == Branch[next]
    <3>1. a.id \in TimerIds /\ (a.type = "StartTimer" => a.preset \in Nat) /\ timers[a.id] \in Timers
      BY <1>0, <2>1, <2>5, ActionFields DEF TypeOK
    <3>2. a.type = "StartTimer" => SetInputOn(GetOrCreateTimer(timers[a.id], a.preset)) \in Timers
      BY <3>1 DEF Timers, SetInputOn, GetOrCreateTimer
    <3>3. ResetTimer(timers[a.id]) \in Timers
      BY <3>1 DEF Timers, ResetTimer
    <3>4. timers' \in [TimerIds -> Timers]
      BY <1>0, <2>5, <3>2, <3>3 DEF ApplyToTimer, TypeOK
    <3>5. age' \in [TimerIds -> 0..Horizon]
      <4>1. age' = [age EXCEPT ![a.id] = IF timers'[a.id].input THEN age[a.id] ELSE 0]
        BY <2>5 DEF ApplyToTimer
      <4>2. 0 \in 0..Horizon /\ age \in [TimerIds -> 0..Horizon]
        BY <1>0, TimeAssumption DEF TypeOK, TimeAssumption
      <4> QED  BY <3>1, <4>1, <4>2
    <3> QED  BY <1>0, <2>2, <2>3, <2>5, <3>4, <3>5 DEF TypeOK
  <2>6. CASE /\ Branch[next].type \in {"IncrementCounter", "ResetCounter"}
             /\ counters' = [counters EXCEPT ![Branch[next].id] =
                               IF Branch[next].type = "IncrementCounter" THEN Increment(@) ELSE ResetCounter(@)]
             /\ UNCHANGED <<timers, written, age>>
    <3>1. counters' \in [CounterIds -> Counters]
      BY <1>0, <2>6, CounterTypes DEF TypeOK, CountersReset
    <3> QED  BY <1>0, <2>2, <2>3, <2>6, <3>1 DEF TypeOK
  <2> QED  BY <1>5, <2>4, <2>5, <2>6 DEF ApplyAction
<1>6. CASE RuleDone
  BY <1>0, <1>6 DEF RuleDone, TypeOK, Places
<1>7. CASE BeginInterlocks
  BY <1>0, <1>7 DEF BeginInterlocks, TypeOK, Places
<1>8. CASE InterlockHolds
  <2>1. item \in DOMAIN Interlocks
    BY <1>0, <1>8, ConditionFields DEF InterlockHolds
  <2> QED  BY <1>0, <1>8, <2>1 DEF InterlockHolds, AtInterlock, TypeOK
<1>9. CASE ScanReturns
  BY <1>0, <1>9 DEF ScanReturns, KeptEdges, TypeOK, Places
<1>10. CASE EndScan
  BY <1>0, <1>10 DEF EndScan, DropScan, TypeOK, Places, NoInputs, NoMemory, NoEdges, Readings
<1>11. ASSUME NEW v \in InputIds, NEW value \in ValuesOf(v), SetInput(v, value) PROVE TypeOK'
  BY <1>0, <1>11 DEF SetInput, ValuesOf, TypeOK, Readings
<1>12. CASE InstallConfiguration
  BY <1>0, <1>12 DEF InstallConfiguration, TypeOK, NoInputs, NoMemory, Readings
<1>13. CASE ScanThrows
  <2>1. ActedNodes \subseteq NodeIds
    <3>1. ASSUME NEW i \in acted PROVE RisingNodes(Rules[i].condition) \subseteq NodeIds
      BY <1>0, RuleFields, RisingAreNodes DEF TypeOK
    <3> QED  BY <3>1 DEF ActedNodes
  <2>2. pc' = "idle" /\ item' = 1 /\ next' = 1 /\ low' = low \cup ActedNodes
        /\ UNCHANGED <<kept, age>> /\ DropScan
    BY <1>13 DEF ScanThrows
  <2> QED  BY <1>0, <2>1, <2>2 DEF DropScan, TypeOK, Places, NoInputs, NoMemory, NoEdges, Readings
<1> QED
  BY <1>1, <1>2, <1>3, <1>4, <1>5, <1>6, <1>7, <1>8, <1>9, <1>10, <1>11, <1>12, <1>13 DEF Next, ScanStep
-----------------------------------------------------------------------------
(* Counters and timers.                                                    *)

\* What leaves the timers, the counters and the age alone.
LEMMA OtherSteps ==
  ASSUME Next
  PROVE  \/ \E delta \in Deltas : BeginScan(delta)
         \/ ApplyAction
         \/ UNCHANGED <<timers, counters, age>>
BY DEF Next, ScanStep, LeafHolds, LeafIsFalse, LeafFails, RuleHolds, RuleDone, BeginInterlocks,
       InterlockHolds, ScanReturns, EndScan, ScanThrows, SetInput, InstallConfiguration, kept, snapshots, results, place

\* Only an increment raises a counter, and it leaves its input ON.
LEMMA CountersStep == ASSUME IInv, Next PROVE CountersReset'
<1>0. TypeOK /\ CountersReset
  BY DEF IInv
<1>1. ASSUME NEW delta \in Deltas, BeginScan(delta) PROVE CountersReset'
  <2> SUFFICES ASSUME NEW c \in CounterIds, ~counters'[c].last PROVE counters'[c].current = 0
    BY DEF CountersReset
  <2>1. counters[c] \in Counters /\ (~counters[c].last => counters[c].current = 0)
    BY <1>0 DEF TypeOK, CountersReset
  <2> QED  BY <1>1, <2>1 DEF BeginScan, Counters
<1>2. CASE ApplyAction
  <2>1. CASE counters' = counters
    BY <1>0, <2>1 DEF CountersReset
  <2>2. CASE counters' = [counters EXCEPT ![Branch[next].id] =
                            IF Branch[next].type = "IncrementCounter" THEN Increment(@) ELSE ResetCounter(@)]
    <3> SUFFICES ASSUME NEW c \in CounterIds, ~counters'[c].last PROVE counters'[c].current = 0
      BY DEF CountersReset
    <3>1. counters[c] \in Counters /\ (~counters[c].last => counters[c].current = 0)
      BY <1>0 DEF TypeOK, CountersReset
    <3>2. counters'[c] \in {counters[c], Increment(counters[c]), ResetCounter(counters[c])}
      BY <1>0, <2>2 DEF TypeOK
    <3> QED  BY <3>1, <3>2, CounterTypes
  <2> QED  BY <1>2, <2>1, <2>2 DEF ApplyAction
<1>3. CASE UNCHANGED <<timers, counters, age>>
  BY <1>0, <1>3 DEF CountersReset
<1> QED  BY <1>1, <1>2, <1>3, OtherSteps

\* What the timers invariant says of one timer of a given age.
TimerCounts(t, state, years) ==
  /\ state.known => state.preset \in PresetsOf(t)
  /\ ~state.known => state = NoTimer
  /\ ~state.input => state.elapsed = 0 /\ ~state.done
  /\ state.elapsed <= years
  /\ state.done => state.elapsed = state.preset

\* The preset of a timer that is started is one of its presets, and a bounded number.
LEMMA PresetFields ==
  ASSUME NEW t \in TimerIds, NEW preset \in PresetsOf(t)
  PROVE  preset <= Horizon
BY TimeAssumption DEF TimeAssumption

\* A timer that an action starts is started with one of its presets.
LEMMA StartedPreset ==
  ASSUME TypeOK, pc = "actions", next <= Len(Branch), Branch[next].type = "StartTimer"
  PROVE  Branch[next].preset \in PresetsOf(Branch[next].id)
<1>1. item \in DOMAIN Rules /\ next \in Nat \ {0}
  BY DEF TypeOK
<1>2. Branch \in Seq(Actions) /\ Branch \in {Rules[item].actions, Rules[item].elseActions}
  BY <1>1, RuleFields DEF Branch
<1>3. next \in DOMAIN Branch
  BY <1>1, <1>2, IsIndex
<1>4. Branch[next].preset \in Starts(Branch[next].id, Branch)
  BY <1>3 DEF Starts
<1> QED  BY <1>1, <1>2, <1>4 DEF PresetsOf

\* The time of a scan passes.
LEMMA UpdateCounts ==
  ASSUME NEW t \in TimerIds, NEW state \in Timers, NEW years \in 0..Horizon, NEW delta \in Nat,
         TimerCounts(t, state, years)
  PROVE  TimerCounts(t, Update(state, delta),
                     IF ~state.input THEN 0 ELSE IF years + delta > Horizon THEN Horizon ELSE years + delta)
<1>0. Horizon \in Nat /\ (state.known => state.preset <= Horizon)
  BY PresetFields, TimeAssumption DEF TimerCounts, TimeAssumption
<1>1. CASE ~state.known
  BY <1>1 DEF TimerCounts, Update, NoTimer
<1>2. CASE state.known /\ ~state.input
  BY <1>2 DEF TimerCounts, Update, Timers
<1>3. CASE state.known /\ state.input
  <2> DEFINE elapsed == state.elapsed + delta
  <2>1. CASE elapsed >= state.preset
    <3>1. Update(state, delta) = [state EXCEPT !.elapsed = state.preset, !.done = TRUE]
      BY <1>3, <2>1 DEF Update
    <3> QED  BY <1>0, <1>3, <2>1, <3>1 DEF TimerCounts, Timers
  <2>2. CASE ~(elapsed >= state.preset)
    <3>1. Update(state, delta) = [state EXCEPT !.elapsed = elapsed, !.done = FALSE]
      <4>1. (elapsed >= state.preset) = FALSE
        BY <1>0, <1>3, <2>2 DEF Timers
      <4>2. Update(state, delta) = [state EXCEPT !.elapsed = IF elapsed >= state.preset THEN state.preset ELSE elapsed,
                                                 !.done = elapsed >= state.preset]
        BY <1>3, Zenon DEF Update
      <4> QED  BY <4>1, <4>2
    <3> QED  BY <1>0, <1>3, <2>2, <3>1 DEF TimerCounts, Timers
  <2> QED  BY <2>1, <2>2
<1> QED  BY <1>1, <1>2, <1>3

\* A timer counts the time its input is ON, in BeginScan, and only there; the actions
\* switch the input.
LEMMA TimersStep == ASSUME IInv, Next PROVE TimersCount'
<1>0. TypeOK /\ TimersCount
  BY DEF IInv
<1> SUFFICES ASSUME NEW t \in TimerIds \ DeclaredTimers, SinglePreset(t)
             PROVE  TimerCounts(t, timers'[t], age'[t])
  BY DEF TimersCount, TimerCounts
<1>1. timers[t] \in Timers /\ age[t] \in 0..Horizon /\ TimerCounts(t, timers[t], age[t])
  BY <1>0 DEF TypeOK, TimersCount, TimerCounts
<1>2. ASSUME NEW delta \in Deltas, BeginScan(delta) PROVE TimerCounts(t, timers'[t], age'[t])
  <2>1. delta \in Nat
    BY TimeAssumption DEF TimeAssumption
  <2>2. timers'[t] = Update(timers[t], delta)
    BY <1>2 DEF BeginScan, Registered
  <2>3. age'[t] = IF ~timers[t].input THEN 0 ELSE IF age[t] + delta > Horizon THEN Horizon ELSE age[t] + delta
    BY <1>2 DEF BeginScan, Older
  <2> QED  BY <1>1, <2>1, <2>2, <2>3, UpdateCounts
<1>3. CASE ApplyAction
  <2>1. CASE timers'[t] = timers[t] /\ age'[t] = age[t]
    BY <1>1, <2>1
  <2>2. CASE Branch[next].id = t /\ Branch[next].type \in {"StartTimer", "ResetTimer"}
             /\ ApplyToTimer(Branch[next])
    <3>1. CASE Branch[next].type = "StartTimer"
      <4> DEFINE preset == Branch[next].preset
      <4>1. preset \in PresetsOf(t) /\ preset \in Nat
        BY <1>0, <1>3, <2>2, <3>1, StartedPreset, BranchFields, ActionFields DEF ApplyAction
      <4>2. timers'[t] = SetInputOn(GetOrCreateTimer(timers[t], preset))
        BY <1>0, <2>2, <3>1 DEF ApplyToTimer, TypeOK
      <4>3. timers[t].known => preset = timers[t].preset
        BY <1>1, <4>1 DEF SinglePreset, TimerCounts
      <4>4. timers'[t].input
        BY <1>1, <4>2 DEF SetInputOn, GetOrCreateTimer, Timers
      <4>5. age'[t] = age[t]
        BY <1>0, <2>2, <4>4 DEF ApplyToTimer, TypeOK
      <4> QED  BY <1>1, <4>1, <4>2, <4>3, <4>5 DEF TimerCounts, SetInputOn, GetOrCreateTimer, Timers, NoTimer
    <3>2. CASE Branch[next].type = "ResetTimer"
      <4>1. timers'[t] = ResetTimer(timers[t])
        BY <1>0, <2>2, <3>2 DEF ApplyToTimer, TypeOK
      <4>2. ~timers'[t].input
        BY <1>1, <4>1 DEF ResetTimer, TimerCounts, NoTimer, Timers
      <4>3. age'[t] = 0
        BY <1>0, <2>2, <4>2 DEF ApplyToTimer, TypeOK
      <4> QED  BY <1>1, <4>1, <4>3 DEF TimerCounts, ResetTimer, Timers, NoTimer
    <3> QED  BY <2>2, <3>1, <3>2
  <2>3. CASE Branch[next].id # t /\ Branch[next].type \in {"StartTimer", "ResetTimer"}
             /\ ApplyToTimer(Branch[next])
    <3>1. timers'[t] = timers[t] /\ age'[t] = age[t]
      BY <1>0, <2>3 DEF ApplyToTimer, TypeOK
    <3> QED  BY <1>1, <3>1
  <2> QED  BY <1>3, <2>1, <2>2, <2>3 DEF ApplyAction
<1>4. CASE UNCHANGED <<timers, counters, age>>
  BY <1>1, <1>4
<1> QED  BY <1>2, <1>3, <1>4, OtherSteps
-----------------------------------------------------------------------------
(* Steps of the scan.                                                      *)

\* A rule is at its first leaf, or at the one behind a leaf that held.
LEMMA RuleSteps ==
  ASSUME TypeOK, Next, AtRule'
  PROVE  \/ next' = 1
         \/ LeafHolds /\ AtRule /\ next' = next + 1 /\ item' = item /\ pc' = pc /\ Condition' = Condition
<1> USE DEF kept, place, snapshots, results
<1>1. CASE LeafHolds
  <2>1. pc' = pc /\ item' = item /\ next' = next + 1
    BY <1>1 DEF LeafHolds
  <2>2. AtRule /\ Condition' = Condition
    BY <2>1 DEF AtRule, Condition
  <2> QED  BY <1>1, <2>1, <2>2
<1>2. CASE LeafIsFalse \/ LeafFails
  BY <1>2 DEF LeafIsFalse, LeafFails, AtRule, AtInterlock
<1>3. ASSUME NEW delta \in Deltas, BeginScan(delta) PROVE next' = 1
  BY <1>3 DEF BeginScan
<1>4. CASE RuleHolds \/ ApplyAction \/ BeginInterlocks \/ InterlockHolds \/ ScanReturns \/ EndScan \/ ScanThrows
  BY <1>4 DEF RuleHolds, ApplyAction, BeginInterlocks, InterlockHolds, ScanReturns, EndScan, ScanThrows, AtRule, AtInterlock
<1>5. CASE RuleDone
  BY <1>5 DEF RuleDone
<1>6. ASSUME NEW v \in InputIds, NEW value \in ValuesOf(v), SetInput(v, value) PROVE FALSE
  BY <1>6 DEF SetInput, LockIsFree, AtRule
<1>7. CASE InstallConfiguration
  BY <1>7 DEF InstallConfiguration, LockIsFree, AtRule
<1> QED  BY <1>1, <1>2, <1>3, <1>4, <1>5, <1>6, <1>7 DEF Next, ScanStep

\* A rule is passed when its condition ends, and then it has acted or not.
LEMMA PassedSteps ==
  ASSUME TypeOK, Next, NEW i \in RulesPassed'
  PROVE  /\ UNCHANGED snapshots /\ i \in DOMAIN Rules
         /\ \/ i \in RulesPassed /\ (i \in acted' <=> i \in acted)
            \/ i = item /\ AtRule /\ (LeafIsFalse \/ LeafFails \/ RuleHolds)
<1> USE DEF kept, place, snapshots, results
<1>0. i \in DOMAIN Rules /\ i \in Nat /\ i <= Len(Rules) /\ item \in Nat \ {0}
  <2>1. i \in DOMAIN Rules
    BY DEF RulesPassed
  <2> QED  BY <2>1, IsElement, IsIndex, RulesAssumption DEF RulesAssumption, TypeOK
<1>1. CASE LeafHolds
  BY <1>0, <1>1 DEF LeafHolds, RulesPassed
<1>2. CASE (LeafIsFalse \/ LeafFails) /\ AtRule
  BY <1>0, <1>2 DEF LeafIsFalse, LeafFails, RulesPassed, AtRule
<1>3. CASE (LeafIsFalse \/ LeafFails) /\ AtInterlock
  BY <1>0, <1>3 DEF LeafIsFalse, LeafFails, RulesPassed, AtInterlock, AtRule
<1>4. ASSUME NEW delta \in Deltas, BeginScan(delta) PROVE FALSE
  BY <1>0, <1>4 DEF BeginScan, RulesPassed
<1>5. CASE RuleHolds
  BY <1>0, <1>5 DEF RuleHolds, RulesPassed, AtRule
<1>6. CASE ApplyAction
  BY <1>0, <1>6 DEF ApplyAction, RulesPassed
<1>7. CASE RuleDone
  BY <1>0, <1>7 DEF RuleDone, RulesPassed
<1>8. CASE BeginInterlocks
  BY <1>0, <1>8 DEF BeginInterlocks, RulesPassed
<1>9. CASE InterlockHolds
  BY <1>0, <1>9 DEF InterlockHolds, RulesPassed, AtInterlock
<1>10. CASE ScanReturns
  BY <1>0, <1>10 DEF ScanReturns, RulesPassed
<1>11. CASE EndScan \/ ScanThrows
  BY <1>0, <1>11 DEF EndScan, ScanThrows, RulesPassed
<1>12. ASSUME NEW v \in InputIds, NEW value \in ValuesOf(v), SetInput(v, value)
       PROVE  UNCHANGED snapshots /\ i \in RulesPassed /\ (i \in acted' <=> i \in acted)
  BY <1>0, <1>12 DEF SetInput, RulesPassed
<1>13. CASE InstallConfiguration
  BY <1>0, <1>13 DEF InstallConfiguration, RulesPassed
<1>14. CASE LeafIsFalse \/ LeafFails
  BY <1>2, <1>3, <1>14 DEF LeafIsFalse, LeafFails
<1> QED
  BY <1>0, <1>1, <1>4, <1>5, <1>6, <1>7, <1>8, <1>9, <1>10, <1>11, <1>12, <1>13, <1>14 DEF Next, ScanStep

\* The same for the interlocks.
LEMMA InterlockSteps ==
  ASSUME TypeOK, Next, NEW i \in InterlocksPassed'
  PROVE  /\ UNCHANGED snapshots /\ i \in DOMAIN Interlocks
         /\ \/ i \in InterlocksPassed /\ (i \in active => i \in active')
            \/ i = item /\ AtInterlock /\ (LeafIsFalse \/ LeafFails)
            \/ i \in active'
<1> USE DEF kept, place, snapshots, results
<1>0. i \in DOMAIN Interlocks /\ i \in Nat /\ i <= Len(Interlocks) /\ item \in Nat \ {0}
  <2>1. i \in DOMAIN Interlocks
    BY DEF InterlocksPassed
  <2> QED  BY <2>1, IsElement, IsIndex, RulesAssumption DEF RulesAssumption, TypeOK
<1>1. CASE LeafHolds
  BY <1>0, <1>1 DEF LeafHolds, InterlocksPassed
<1>2. CASE (LeafIsFalse \/ LeafFails) /\ AtRule
  BY <1>0, <1>2 DEF LeafIsFalse, LeafFails, InterlocksPassed, AtRule
<1>3. CASE (LeafIsFalse \/ LeafFails) /\ AtInterlock
  BY <1>0, <1>3 DEF LeafIsFalse, LeafFails, InterlocksPassed, AtInterlock, AtRule
<1>4. ASSUME NEW delta \in Deltas, BeginScan(delta) PROVE FALSE
  BY <1>0, <1>4 DEF BeginScan, InterlocksPassed
<1>5. CASE RuleHolds \/ ApplyAction \/ RuleDone
  BY <1>0, <1>5 DEF RuleHolds, ApplyAction, RuleDone, InterlocksPassed, AtRule
<1>6. CASE BeginInterlocks
  BY <1>0, <1>6 DEF BeginInterlocks, InterlocksPassed
<1>7. CASE InterlockHolds
  BY <1>0, <1>7 DEF InterlockHolds, InterlocksPassed, AtInterlock
<1>8. CASE ScanReturns
  BY <1>0, <1>8 DEF ScanReturns, InterlocksPassed
<1>9. CASE EndScan \/ ScanThrows
  BY <1>0, <1>9 DEF EndScan, ScanThrows, InterlocksPassed
<1>10. ASSUME NEW v \in InputIds, NEW value \in ValuesOf(v), SetInput(v, value)
       PROVE  UNCHANGED snapshots /\ i \in InterlocksPassed /\ (i \in active => i \in active')
  BY <1>0, <1>10 DEF SetInput, InterlocksPassed
<1>11. CASE InstallConfiguration
  BY <1>0, <1>11 DEF InstallConfiguration, InterlocksPassed
<1>12. CASE LeafIsFalse \/ LeafFails
  BY <1>2, <1>3, <1>12 DEF LeafIsFalse, LeafFails
<1> QED
  BY <1>0, <1>1, <1>4, <1>5, <1>6, <1>7, <1>8, <1>9, <1>10, <1>11, <1>12 DEF Next, ScanStep
-----------------------------------------------------------------------------
(* Edges of the rules.                                                     *)

\* The operand of an edge that was evaluated is in the context, and what was seen low is low.
LEMMA LeafEffect ==
  ASSUME TypeOK, LeafHolds \/ LeafIsFalse
  PROVE  /\ AtRule \/ AtInterlock
         /\ Condition[next] \in Leaves /\ next \in DOMAIN Condition
         /\ context' \in [NodeIds -> BOOLEAN]
         /\ \A n \in NodeIds :
              \/ context'[n] = context[n]
              \/ (Condition[next].type = "Edge" /\ n = Condition[next].node)
         /\ low \subseteq low'
         /\ AtRule => \A n \in NodeIds : context[n] \/ n \in low => context'[n] \/ n \in low'
<1> DEFINE e == Condition[next]
<1>1. /\ AtRule \/ AtInterlock
      /\ next <= Len(Condition) /\ NoteEdge(e) /\ SeeLow(e)
  BY DEF LeafHolds, LeafIsFalse
<1>2. e \in Leaves /\ next \in DOMAIN Condition
  BY <1>1, ConditionFields
<1>3. /\ context' \in [NodeIds -> BOOLEAN]
      /\ \A n \in NodeIds :
           context'[n] = IF e.type = "Edge" /\ n = e.node /\ CanInterpretAsBool(ReadVariable(e.id))
                           THEN Truth(ReadVariable(e.id)) ELSE context[n]
  BY <1>1, <1>2, NoteEdgeEffect
<1>4. low \subseteq low'
  BY <1>1 DEF SeeLow
<1>5. ASSUME AtRule, NEW n \in NodeIds, context[n] \/ n \in low PROVE context'[n] \/ n \in low'
  <2>1. CASE e.type = "Edge" /\ n = e.node /\ CanInterpretAsBool(ReadVariable(e.id))
    <3>1. ReadVariable(e.id) \in {"true", "false"}
      BY <2>1 DEF CanInterpretAsBool
    <3>2. CASE ReadVariable(e.id) = "true"
      BY <1>3, <2>1, <3>2 DEF Truth
    <3>3. CASE ReadVariable(e.id) = "false"
      BY <1>1, <1>5, <2>1, <3>3 DEF SeeLow
    <3> QED  BY <3>1, <3>2, <3>3
  <2>2. CASE ~(e.type = "Edge" /\ n = e.node /\ CanInterpretAsBool(ReadVariable(e.id)))
    BY <1>3, <1>4, <1>5, <2>2
  <2> QED  BY <2>1, <2>2
<1>6. \A n \in NodeIds : context'[n] = context[n] \/ (e.type = "Edge" /\ n = e.node)
  BY <1>3
<1> QED  BY <1>1, <1>2, <1>3, <1>4, <1>5, <1>6

\* An operand goes into the context when a leaf is evaluated: high ones as high, and low
\* ones into low.
LEMMA HighStep == ASSUME IInv, Next PROVE HighIsKept'
<1> USE DEF kept, place, snapshots, results
<1>0. TypeOK /\ HighIsKept /\ EdgesSoFar
  BY DEF IInv
<1> SUFFICES ASSUME NEW n \in NodeIds PROVE RuleContext'[n] \/ n \in low'
  BY DEF HighIsKept
<1>00. RuleContext[n] \/ n \in low
  BY <1>0 DEF HighIsKept
<1>1. CASE (LeafHolds \/ LeafIsFalse) /\ AtRule
  <2>1. context'[n] \/ n \in low'
    BY <1>0, <1>00, <1>1, LeafEffect DEF RuleContext, AtRule
  <2>2. RuleContext' = context'
    BY <1>1 DEF LeafHolds, LeafIsFalse, RuleContext, AtRule
  <2> QED  BY <2>1, <2>2
<1>2. CASE (LeafHolds \/ LeafIsFalse) /\ AtInterlock
  <2>1. ruleEdges' = ruleEdges /\ pc' = pc
    BY <1>2 DEF LeafHolds, LeafIsFalse, AtInterlock, AtRule
  <2> QED  BY <1>0, <1>00, <1>2, <2>1, LeafEffect DEF RuleContext, AtInterlock
<1>3. CASE LeafFails
  BY <1>00, <1>3 DEF LeafFails, RuleContext
<1>4. ASSUME NEW delta \in Deltas, BeginScan(delta) PROVE RuleContext'[n] \/ n \in low'
  BY <1>00, <1>4 DEF BeginScan, RuleContext
<1>5. CASE RuleHolds
  <2>1. CASE n \in RisingNodes(Condition)
    <3>1. PICK k \in DOMAIN Condition : Rises(Condition[k]) /\ Condition[k].node = n
      BY <2>1 DEF RisingNodes
    <3>2. k < next
      BY <1>0, <1>5, ConditionFields, IsElement, IsIndex DEF RuleHolds, TypeOK
    <3>3. context[n]
      BY <1>0, <1>5, <3>1, <3>2 DEF EdgesSoFar, RuleHolds
    <3> QED  BY <1>5, <3>3 DEF RuleHolds, RuleContext
  <2>2. CASE n \notin RisingNodes(Condition)
    BY <1>00, <1>5, <2>2 DEF RuleHolds, RuleContext, AtRule
  <2> QED  BY <2>1, <2>2
<1>6. CASE ApplyAction \/ RuleDone
  BY <1>00, <1>6 DEF ApplyAction, RuleDone, RuleContext
<1>7. CASE BeginInterlocks
  BY <1>00, <1>7 DEF BeginInterlocks, RuleContext
<1>8. CASE InterlockHolds
  BY <1>00, <1>8 DEF InterlockHolds, RuleContext
<1>9. CASE ScanReturns
  BY <1>00, <1>9 DEF ScanReturns, KeptEdges, RuleContext
<1>10. CASE EndScan
  BY <1>00, <1>10 DEF EndScan, RuleContext
<1>11. ASSUME NEW v \in InputIds, NEW value \in ValuesOf(v), SetInput(v, value)
       PROVE  RuleContext'[n] \/ n \in low'
  BY <1>00, <1>11 DEF SetInput, LockIsFree, RuleContext
<1>12. CASE InstallConfiguration
  BY <1>00, <1>12 DEF InstallConfiguration, LockIsFree, RuleContext
<1>13. CASE LeafHolds \/ LeafIsFalse
  BY <1>0, <1>1, <1>2, <1>13, LeafEffect
<1>14. CASE ScanThrows
  <2>1. edges[n] \/ n \in low \/ n \in ActedNodes
    BY <1>14 DEF IInv, ThrowIsExcused, ScanThrows, AsBoolThrows, AtRule, AtInterlock
  <2>2. RuleContext' = edges /\ low' = low \cup ActedNodes
    BY <1>14 DEF ScanThrows, RuleContext
  <2> QED  BY <2>1, <2>2
<1> QED
  BY <1>3, <1>4, <1>5, <1>6, <1>7, <1>8, <1>9, <1>10, <1>11, <1>12, <1>13, <1>14 DEF Next, ScanStep

\* Only a rule that acts takes operands from low, and it adds them to the ones acted on.
LEMMA ExcuseStep == ASSUME IInv, Next PROVE ThrowIsExcused'
<1> USE DEF kept, place, snapshots, results
<1>0. TypeOK /\ HighIsKept /\ ThrowIsExcused
  BY DEF IInv
<1> SUFFICES ASSUME pc' # "returned", NEW n \in NodeIds
             PROVE  edges'[n] \/ n \in low' \/ n \in ActedNodes'
  BY DEF ThrowIsExcused
<1>1. pc # "returned" => edges[n] \/ n \in low \/ n \in ActedNodes
  BY <1>0 DEF ThrowIsExcused
<1>2. CASE pc # "returned" /\ UNCHANGED <<edges, acted>> /\ low \subseteq low'
  BY <1>1, <1>2 DEF ActedNodes
<1>3. CASE RuleHolds
  <2>1. item \in DOMAIN Rules /\ Condition = Rules[item].condition
    BY <1>0, <1>3, ConditionFields DEF RuleHolds
  <2>2. acted' = acted \cup {item} /\ low' = low \ RisingNodes(Condition) /\ edges' = edges /\ pc # "returned"
    BY <1>3 DEF RuleHolds, AtRule
  <2>3. ActedNodes' = ActedNodes \cup RisingNodes(Condition)
    BY <2>1, <2>2 DEF ActedNodes
  <2> QED  BY <1>1, <2>2, <2>3
<1>4. CASE EndScan \/ ScanThrows
  <2>1. edges' = edges /\ RuleContext' = edges'
    BY <1>4 DEF EndScan, ScanThrows, RuleContext
  <2> QED  BY <2>1, HighStep DEF HighIsKept
<1>5. CASE LeafHolds \/ LeafIsFalse
  BY <1>0, <1>2, <1>5, LeafEffect DEF LeafHolds, LeafIsFalse, AtRule, AtInterlock
<1>6. CASE \/ LeafFails \/ ApplyAction \/ RuleDone \/ BeginInterlocks \/ InterlockHolds
           \/ \E delta \in Deltas : BeginScan(delta)
  BY <1>2, <1>6 DEF LeafFails, ApplyAction, RuleDone, BeginInterlocks, InterlockHolds, BeginScan,
                    AtRule, AtInterlock
<1>7. CASE ScanReturns
  BY <1>7 DEF ScanReturns
<1>8. CASE InstallConfiguration \/ \E v \in InputIds : \E value \in ValuesOf(v) : SetInput(v, value)
  BY <1>2, <1>8 DEF InstallConfiguration, SetInput
<1> QED  BY <1>3, <1>4, <1>5, <1>6, <1>7, <1>8 DEF Next, ScanStep

\* A leaf that waits for a rising edge holds only if its operand is high and was not before.
LEMMA RisingLeaf ==
  ASSUME TypeOK, LeafHolds, AtRule, Rises(Condition[next])
  PROVE  ~context[Condition[next].node] /\ context'[Condition[next].node]
<1> DEFINE e == Condition[next]
<1>1. NoteEdge(e) /\ LeafValue(e) = AsValue(e.holds) /\ next <= Len(Condition)
  BY DEF LeafHolds
<1>2. e \in Leaves /\ e.type = "Edge" /\ e.holds /\ e.rising /\ e.node \in NodeIds
  BY <1>1, ConditionFields, LeafFields DEF Rises
<1>3. LeafValue(e) = "true"
  BY <1>1, <1>2 DEF AsValue
<1>4. CanInterpretAsBool(ReadVariable(e.id)) /\ AsValue(DetectEdge(Truth(ReadVariable(e.id)), context[e.node], e.rising)) = "true"
  BY <1>2, <1>3 DEF LeafValue
<1>5. Truth(ReadVariable(e.id)) /\ ~context[e.node]
  BY <1>2, <1>4 DEF AsValue, DetectEdge
<1>6. context'[e.node] = Truth(ReadVariable(e.id))
  BY <1>1, <1>2, <1>4, NoteEdgeEffect
<1> QED  BY <1>5, <1>6

\* A leaf whose rising edge is found saw its operand high and had noted it low.
LEMMA EdgesStep == ASSUME IInv, Next PROVE EdgesSoFar'
<1>0. TypeOK /\ HighIsKept /\ EdgesSoFar /\ TypeOK'
  BY TypeStep DEF IInv
<1> SUFFICES ASSUME AtRule', NEW k \in DOMAIN Condition', k < next', Rises(Condition'[k])
             PROVE  Condition'[k].node \in low' /\ context'[Condition'[k].node]
  BY DEF EdgesSoFar, Rises
<1>1. CASE next' = 1
  <2>1. k \in Nat \ {0}
    <3>1. item' \in DOMAIN Rules
      BY <1>0, IsIndex, RulesAssumption DEF RulesAssumption, TypeOK, AtRule
    <3>2. Condition' = Rules[item'].condition
      BY DEF Condition, AtRule
    <3> QED  BY <3>1, <3>2, RuleFields, IsElement
  <2> QED  BY <1>1, <2>1
<1>2. CASE LeafHolds /\ AtRule /\ next' = next + 1 /\ item' = item /\ pc' = pc /\ Condition' = Condition
  <2>1. item \in DOMAIN Rules /\ Condition = Rules[item].condition /\ Condition \in Seq(Leaves)
    BY <1>0, <1>2, ConditionFields
  <2>2. k \in Nat /\ next \in Nat /\ Condition[k] \in Leaves
    BY <1>0, <1>2, <2>1, IsElement DEF TypeOK
  <2>3. Condition[k].type = "Edge" /\ Condition[k].node \in NodeIds
    BY <1>2, <2>2, LeafFields DEF Rises
  <2>4. CASE k < next
    <3>1. Condition[k].node \in low /\ context[Condition[k].node]
      BY <1>0, <1>2, <2>4 DEF EdgesSoFar
    <3>2. ~(Condition[next].type = "Edge" /\ Condition[k].node = Condition[next].node)
      BY <1>0, <1>2, <2>1, <2>2, <2>3, <2>4, LeafEffect, NodesAssumption DEF NodesAssumption, OwnNodes
    <3> QED  BY <1>0, <1>2, <2>3, <3>1, <3>2, LeafEffect
  <2>5. CASE k = next
    <3>1. ~context[Condition[k].node] /\ context'[Condition[k].node]
      BY <1>0, <1>2, <2>5, RisingLeaf
    <3>2. Condition[k].node \in low
      BY <1>0, <1>2, <2>3, <3>1 DEF HighIsKept, RuleContext, AtRule
    <3> QED  BY <1>0, <1>2, <3>1, <3>2, LeafEffect
  <2> QED  BY <1>2, <2>2, <2>4, <2>5
<1> QED  BY <1>0, <1>1, <1>2, RuleSteps
-----------------------------------------------------------------------------
(* Frozen memory.                                                          *)

\* A variable that the snapshots hold is read from them, if it is a boolean.
LEMMA FrozenIsRead ==
  ASSUME NEW e, e.type = "Variable", Frozen(e.id) # "none"
  PROVE  LeafValue(e) = IF CanInterpretAsBool(Frozen(e.id)) THEN Frozen(e.id) ELSE "none"
BY DEF LeafValue, ReadVariable

\* Only the rule the scan is at acts.
LEMMA ActedStep == ASSUME IInv, Next PROVE ActedPassed'
<1> USE DEF kept, place, snapshots, results
<1>0. TypeOK /\ ActedPassed /\ acted \subseteq DOMAIN Rules /\ item \in Nat
  BY DEF IInv, TypeOK
<1> SUFFICES ASSUME NEW i \in acted' PROVE i \in RulesPassed'
  BY DEF ActedPassed
<1>1. CASE (LeafHolds \/ LeafIsFalse \/ LeafFails) /\ AtRule
  BY <1>0, <1>1 DEF LeafHolds, LeafIsFalse, LeafFails, ActedPassed, RulesPassed, AtRule
<1>2. CASE (LeafHolds \/ LeafIsFalse \/ LeafFails) /\ AtInterlock
  BY <1>0, <1>2 DEF LeafHolds, LeafIsFalse, LeafFails, ActedPassed, RulesPassed, AtRule, AtInterlock
<1>3. ASSUME NEW delta \in Deltas, BeginScan(delta) PROVE FALSE
  BY <1>0, <1>3 DEF BeginScan, ActedPassed, RulesPassed
<1>4. CASE RuleHolds
  <2>1. item \in DOMAIN Rules
    BY <1>0, <1>4, ConditionFields DEF RuleHolds
  <2>2. acted' = acted \cup {item} /\ pc' = "actions" /\ item' = item /\ pc = "condition"
    BY <1>4 DEF RuleHolds, AtRule
  <2>3. CASE i = item
    BY <1>0, <2>1, <2>2, <2>3 DEF RulesPassed
  <2>4. CASE i \in acted
    <3>1. i \in DOMAIN Rules /\ i < item /\ i \in Nat
      BY <1>0, <2>2, <2>4, IsElement, RulesAssumption DEF ActedPassed, RulesPassed, RulesAssumption
    <3> QED  BY <1>0, <2>2, <3>1 DEF RulesPassed
  <2> QED  BY <2>2, <2>3, <2>4
<1>5. CASE ApplyAction
  BY <1>0, <1>5 DEF ApplyAction, ActedPassed, RulesPassed
<1>6. CASE RuleDone
  <2>1. acted' = acted /\ pc = "actions" /\ pc' = "condition" /\ item' = item + 1
    BY <1>6 DEF RuleDone
  <2>2. i \in DOMAIN Rules /\ i <= item /\ i \in Nat
    BY <1>0, <2>1, IsElement, RulesAssumption DEF ActedPassed, RulesPassed, RulesAssumption
  <2> QED  BY <1>0, <2>1, <2>2 DEF RulesPassed
<1>7. CASE BeginInterlocks \/ InterlockHolds \/ ScanReturns
  BY <1>0, <1>7 DEF BeginInterlocks, InterlockHolds, AtInterlock, ScanReturns, ActedPassed, RulesPassed
<1>8. CASE EndScan \/ ScanThrows
  BY <1>8 DEF EndScan, ScanThrows, DropScan
<1>9. ASSUME NEW v \in InputIds, NEW value \in ValuesOf(v), SetInput(v, value) PROVE i \in RulesPassed'
  BY <1>0, <1>9 DEF SetInput, ActedPassed, RulesPassed
<1>10. CASE InstallConfiguration
  BY <1>0, <1>10 DEF InstallConfiguration, ActedPassed, RulesPassed
<1>11. CASE LeafHolds \/ LeafIsFalse \/ LeafFails
  BY <1>1, <1>2, <1>11 DEF LeafHolds, LeafIsFalse, LeafFails
<1> QED  BY <1>3, <1>4, <1>5, <1>6, <1>7, <1>8, <1>9, <1>10, <1>11 DEF Next, ScanStep

\* A leaf that holds is a variable with the value the snapshots give it.
LEMMA FrozenSoFarStep == ASSUME IInv, Next PROVE FrozenSoFar'
<1>0. TypeOK /\ FrozenSoFar /\ TypeOK'
  BY TypeStep DEF IInv
<1> SUFFICES ASSUME AtRule', NEW k \in DOMAIN Condition', k < next',
                    (Condition[k].type = "Variable" /\ Frozen(Condition[k].id) # "none")'
             PROVE  (Frozen(Condition[k].id) = AsValue(Condition[k].holds))'
  BY DEF FrozenSoFar
<1>1. CASE next' = 1
  <2>1. k \in Nat \ {0}
    <3>1. item' \in DOMAIN Rules
      BY <1>0, IsIndex, RulesAssumption DEF RulesAssumption, TypeOK, AtRule
    <3>2. Condition' = Rules[item'].condition
      BY DEF Condition, AtRule
    <3> QED  BY <3>1, <3>2, RuleFields, IsElement
  <2> QED  BY <1>1, <2>1
<1>2. CASE LeafHolds /\ AtRule /\ next' = next + 1 /\ item' = item /\ pc' = pc /\ Condition' = Condition
  <2>1. Condition \in Seq(Leaves)
    BY <1>0, <1>2, ConditionFields
  <2>2. k \in Nat /\ next \in Nat /\ Condition[k] \in Leaves
    BY <1>0, <1>2, <2>1, IsElement DEF TypeOK
  <2>3. inputSnapshot' = inputSnapshot /\ memorySnapshot' = memorySnapshot
    BY <1>2 DEF LeafHolds, snapshots
  <2>4. Condition'[k] = Condition[k] /\ Frozen(Condition[k].id)' = Frozen(Condition[k].id)
    BY <1>2, <2>3 DEF Frozen
  <2>5. CASE k < next
    <3>1. Frozen(Condition[k].id) = AsValue(Condition[k].holds)
      BY <1>0, <1>2, <2>4, <2>5 DEF FrozenSoFar
    <3> QED  BY <2>4, <3>1 DEF AsValue
  <2>6. CASE k = next
    <3>1. LeafValue(Condition[k]) = AsValue(Condition[k].holds)
      BY <1>2, <2>6 DEF LeafHolds
    <3>2. LeafValue(Condition[k]) \in {Frozen(Condition[k].id), "none"}
      BY <2>4, FrozenIsRead
    <3> QED  BY <2>4, <3>1, <3>2 DEF AsValue
  <2> QED  BY <1>2, <2>2, <2>5, <2>6
<1> QED  BY <1>0, <1>1, <1>2, RuleSteps

\* A rule acted as the snapshots say.
ActsAsFrozen(i) ==
  LET condition == Rules[i].condition
  IN (\A k \in DOMAIN condition : condition[k].type = "Variable" /\ Frozen(condition[k].id) # "none") =>
       (i \in acted <=> \A k \in DOMAIN condition : Frozen(condition[k].id) = AsValue(condition[k].holds))

\* A rule acts when all its leaves have held, and does not when one is false.
LEMMA FrozenStep == ASSUME IInv, Next PROVE MemoryIsFrozen'
<1>0. TypeOK /\ FrozenSoFar /\ MemoryIsFrozen /\ ActedPassed
  BY DEF IInv
<1> SUFFICES ASSUME NEW i \in RulesPassed' PROVE ActsAsFrozen(i)'
  BY DEF MemoryIsFrozen, ActsAsFrozen
<1>1. UNCHANGED snapshots /\ i \in DOMAIN Rules
  BY <1>0, PassedSteps
<1>2. \A v : Frozen(v)' = Frozen(v)
  BY <1>1 DEF snapshots, Frozen
<1>3. CASE i \in RulesPassed /\ (i \in acted' <=> i \in acted)
  <2>1. ActsAsFrozen(i)
    BY <1>0, <1>3 DEF MemoryIsFrozen, ActsAsFrozen
  <2> QED  BY <1>2, <1>3, <2>1 DEF ActsAsFrozen
<1>4. CASE i = item /\ AtRule /\ (LeafIsFalse \/ LeafFails \/ RuleHolds)
  <2> DEFINE condition == Rules[i].condition
  <2>1. Condition = condition /\ condition \in Seq(Leaves)
    BY <1>0, <1>4, ConditionFields
  <2> SUFFICES ASSUME \A k \in DOMAIN condition : condition[k].type = "Variable" /\ Frozen(condition[k].id) # "none"
               PROVE  i \in acted' <=> \A k \in DOMAIN condition : Frozen(condition[k].id) = AsValue(condition[k].holds)
    BY <1>2 DEF ActsAsFrozen
  <2>2. CASE RuleHolds
    <3>1. i \in acted' /\ next > Len(Condition) /\ next \in Nat \ {0}
      BY <1>0, <1>4, <2>2 DEF RuleHolds, TypeOK
    <3>2. ASSUME NEW k \in DOMAIN condition PROVE k < next
      BY <2>1, <3>1, IsElement, IsIndex
    <3> QED  BY <1>0, <1>4, <2>1, <3>1, <3>2 DEF FrozenSoFar
  <2>3. CASE LeafIsFalse
    <3>1. next \in DOMAIN condition /\ condition[next] \in Leaves /\ LeafValue(condition[next]) = AsValue(~condition[next].holds)
      BY <1>0, <2>1, <2>3, LeafEffect DEF LeafIsFalse
    <3>2. Frozen(condition[next].id) # AsValue(condition[next].holds)
      BY <3>1, FrozenIsRead, LeafFields DEF AsValue
    <3>3. i \notin acted /\ acted' = acted
      BY <1>0, <1>4, <2>3 DEF ActedPassed, RulesPassed, AtRule, LeafIsFalse, TypeOK
    <3> QED  BY <3>1, <3>2, <3>3
  <2>4. CASE LeafFails
    <3>1. next \in DOMAIN condition /\ LeafValue(condition[next]) = "none"
      BY <1>0, <1>4, <2>1, <2>4, ConditionFields DEF LeafFails
    <3>2. ~CanInterpretAsBool(Frozen(condition[next].id))
      BY <3>1, FrozenIsRead
    <3>3. i \notin acted /\ acted' = acted
      BY <1>0, <1>4, <2>4 DEF ActedPassed, RulesPassed, AtRule, LeafFails, TypeOK, results
    <3> QED  BY <3>1, <3>2, <3>3 DEF CanInterpretAsBool, AsValue
  <2> QED  BY <1>4, <2>2, <2>3, <2>4
<1> QED  BY <1>0, <1>3, <1>4, PassedSteps
-----------------------------------------------------------------------------
(* Edges of the interlocks.                                                *)

\* What the interlocks invariant says of one operand of one interlock.
Forgets(i, k, n) ==
  /\ ~edges[n]
  /\ pc \in {"condition", "actions"} => ~context[n]
  /\ pc = "interlocks" =>
       /\ ~ruleEdges[n]
       /\ (item < i \/ (item = i /\ next <= k)) => ~context[n]

\* The operand of an interlock is that of no rule, of no other interlock and of no other
\* leaf of the same interlock.
LEMMA OwnOperand ==
  ASSUME NEW i \in DOMAIN Interlocks, NEW k \in DOMAIN Interlocks[i], Interlocks[i][k].type = "Edge"
  PROVE  /\ i \in Nat \ {0} /\ k \in Nat \ {0}
         /\ Interlocks[i][k].node \in NodeIds
         /\ \A j \in DOMAIN Rules : \A l \in DOMAIN Rules[j].condition :
              Rules[j].condition[l].type = "Edge" => Rules[j].condition[l].node # Interlocks[i][k].node
         /\ \A j \in DOMAIN Interlocks : \A l \in DOMAIN Interlocks[j] :
              Interlocks[j][l].type = "Edge" /\ Interlocks[j][l].node = Interlocks[i][k].node => j = i /\ l = k
<1>1. i \in Nat \ {0} /\ Interlocks[i] \in Seq(Leaves)
  BY IsElement, RulesAssumption DEF RulesAssumption
<1>2. k \in Nat \ {0} /\ Interlocks[i][k] \in Leaves
  BY <1>1, IsElement
<1>3. Interlocks[i][k].node \in EdgeNodes(Interlocks[i])
  BY DEF EdgeNodes
<1>4. ASSUME NEW j \in DOMAIN Rules, NEW l \in DOMAIN Rules[j].condition, Rules[j].condition[l].type = "Edge"
      PROVE  Rules[j].condition[l].node # Interlocks[i][k].node
  <2>1. Rules[j].condition[l].node \in EdgeNodes(Rules[j].condition)
    BY <1>4 DEF EdgeNodes
  <2> QED  BY <1>3, <2>1, NodesAssumption DEF NodesAssumption
<1>5. ASSUME NEW j \in DOMAIN Interlocks, NEW l \in DOMAIN Interlocks[j],
             Interlocks[j][l].type = "Edge", Interlocks[j][l].node = Interlocks[i][k].node
      PROVE  j = i /\ l = k
  <2>1. Interlocks[j][l].node \in EdgeNodes(Interlocks[j])
    BY <1>5 DEF EdgeNodes
  <2>2. j = i
    BY <1>3, <1>5, <2>1, NodesAssumption DEF NodesAssumption
  <2> QED  BY <1>5, <2>2, NodesAssumption DEF NodesAssumption, OwnNodes
<1> QED  BY <1>1, <1>2, <1>4, <1>5, LeafFields

\* The rules note their own operands only, and each interlock its own: the edges that are
\* kept have none of the interlocks'.
LEMMA ForgetStep == ASSUME IInv, Next PROVE InterlocksForget'
<1> USE DEF kept, place, snapshots, results
<1>0. TypeOK /\ InterlocksForget
  BY DEF IInv
<1> SUFFICES ASSUME NEW i \in DOMAIN Interlocks, NEW k \in DOMAIN Interlocks[i], Interlocks[i][k].type = "Edge"
             PROVE  Forgets(i, k, Interlocks[i][k].node)'
  BY DEF InterlocksForget, Forgets
<1> DEFINE n == Interlocks[i][k].node
<1>00. Forgets(i, k, n) /\ n \in NodeIds /\ i \in Nat \ {0} /\ k \in Nat \ {0} /\ item \in Nat /\ next \in Nat
  BY <1>0, OwnOperand DEF InterlocksForget, Forgets, TypeOK
<1>1. CASE (LeafHolds \/ LeafIsFalse) /\ AtRule
  <2>1. context'[n] = context[n]
    BY <1>0, <1>00, <1>1, LeafEffect, ConditionFields, OwnOperand
  <2>2. edges' = edges /\ pc' \in {"condition", "actions"} /\ pc = "condition"
    BY <1>1 DEF LeafHolds, LeafIsFalse, AtRule
  <2> QED  BY <1>00, <2>1, <2>2 DEF Forgets
<1>2. CASE (LeafHolds \/ LeafIsFalse) /\ AtInterlock
  <2>1. edges' = edges /\ ruleEdges' = ruleEdges /\ pc' = "interlocks" /\ pc = "interlocks"
    BY <1>2 DEF LeafHolds, LeafIsFalse, AtInterlock, AtRule
  <2>2. CASE item' < i \/ (item' = i /\ next' <= k)
    <3>1. item < i \/ (item = i /\ next <= k /\ next # k)
      BY <1>00, <1>2, <2>2 DEF LeafHolds, LeafIsFalse, AtInterlock, AtRule
    <3>2. ~context[n]
      BY <1>00, <2>1, <3>1 DEF Forgets
    <3>3. context'[n] = context[n]
      <4>1. /\ item \in DOMAIN Interlocks /\ Condition = Interlocks[item] /\ next \in DOMAIN Condition
            /\ context'[n] = context[n] \/ (Condition[next].type = "Edge" /\ n = Condition[next].node)
        BY <1>0, <1>00, <1>2, LeafEffect, ConditionFields
      <4>2. ~(item = i /\ next = k)
        BY <1>00, <3>1
      <4> QED  BY <4>1, <4>2, OwnOperand
    <3> QED  BY <1>00, <2>1, <3>2, <3>3 DEF Forgets
  <2>3. CASE ~(item' < i \/ (item' = i /\ next' <= k))
    BY <1>00, <2>1, <2>3 DEF Forgets
  <2> QED  BY <2>2, <2>3
<1>3. CASE LeafFails
  BY <1>00, <1>3 DEF LeafFails, Forgets, AtRule, AtInterlock
<1>4. ASSUME NEW delta \in Deltas, BeginScan(delta) PROVE Forgets(i, k, n)'
  BY <1>00, <1>4 DEF BeginScan, Forgets
<1>5. CASE RuleHolds \/ ApplyAction \/ RuleDone
  BY <1>00, <1>5 DEF RuleHolds, ApplyAction, RuleDone, AtRule, Forgets
<1>6. CASE BeginInterlocks
  BY <1>00, <1>6 DEF BeginInterlocks, Forgets
<1>7. CASE InterlockHolds
  BY <1>00, <1>7 DEF InterlockHolds, AtInterlock, Forgets
<1>8. CASE ScanReturns
  BY <1>00, <1>8 DEF ScanReturns, KeptEdges, Forgets
<1>9. CASE EndScan \/ ScanThrows
  BY <1>00, <1>9 DEF EndScan, ScanThrows, Forgets
<1>10. ASSUME NEW v \in InputIds, NEW value \in ValuesOf(v), SetInput(v, value) PROVE Forgets(i, k, n)'
  BY <1>00, <1>10 DEF SetInput, LockIsFree, Forgets
<1>11. CASE InstallConfiguration
  BY <1>00, <1>11 DEF InstallConfiguration, LockIsFree, Forgets
<1>12. CASE LeafHolds \/ LeafIsFalse
  BY <1>0, <1>1, <1>2, <1>12, LeafEffect
<1> QED  BY <1>3, <1>4, <1>5, <1>6, <1>7, <1>8, <1>9, <1>10, <1>11, <1>12 DEF Next, ScanStep

\* An interlock on rising edges of inputs that are true is active.
IsActive(i) ==
  (\A k \in DOMAIN Interlocks[i] : Rises(Interlocks[i][k]) /\ Frozen(Interlocks[i][k].id) = "true") => i \in active

\* An interlock on rising edges cannot end with a false leaf while its operands are true.
LEMMA InterlockStep == ASSUME IInv, Next PROVE RisingInterlockHolds'
<1>0. TypeOK /\ InterlocksForget /\ RisingInterlockHolds
  BY DEF IInv
<1> SUFFICES ASSUME NEW i \in InterlocksPassed' PROVE IsActive(i)'
  BY DEF RisingInterlockHolds, IsActive
<1>1. UNCHANGED snapshots /\ i \in DOMAIN Interlocks
  BY <1>0, InterlockSteps
<1>2. \A v : Frozen(v)' = Frozen(v)
  BY <1>1 DEF snapshots, Frozen
<1>3. CASE i \in InterlocksPassed /\ (i \in active => i \in active')
  <2>1. IsActive(i)
    BY <1>0, <1>3 DEF RisingInterlockHolds, IsActive
  <2> QED  BY <1>2, <1>3, <2>1 DEF IsActive
<1>4. CASE i = item /\ AtInterlock /\ (LeafIsFalse \/ LeafFails)
  <2> DEFINE condition == Interlocks[i]
             e == condition[next]
  <2>1. Condition = condition /\ next \in DOMAIN condition /\ e \in Leaves
    BY <1>0, <1>4, ConditionFields DEF LeafIsFalse, LeafFails
  <2> SUFFICES ASSUME Rises(e), Frozen(e.id) = "true" PROVE FALSE
    BY <1>2, <2>1 DEF IsActive
  <2>2. e.type = "Edge" /\ e.rising /\ e.holds /\ e.node \in NodeIds
    BY <2>1, LeafFields DEF Rises
  <2>3. ~context[e.node]
    BY <1>0, <1>1, <1>4, <2>1, <2>2 DEF InterlocksForget, AtInterlock, TypeOK
  <2>4. LeafValue(e) = AsValue(DetectEdge(TRUE, context[e.node], e.rising))
    BY <2>2 DEF LeafValue, ReadVariable, CanInterpretAsBool, Truth
  <2>5. LeafValue(e) = "true"
    BY <2>2, <2>3, <2>4 DEF DetectEdge, AsValue
  <2> QED  BY <1>4, <2>1, <2>2, <2>5 DEF LeafIsFalse, LeafFails, AsValue
<1>5. CASE i \in active'
  BY <1>5 DEF IsActive
<1> QED  BY <1>0, <1>3, <1>4, <1>5, InterlockSteps

-----------------------------------------------------------------------------
(* The theorems.                                                           *)

\* What does not change stays true.
LEMMA Stutters == ASSUME IInv, UNCHANGED vars PROVE IInv'
<1> USE DEF vars, kept, place, snapshots, results
<1>1. TypeOK' /\ CountersReset' /\ TimersCount'
  BY DEF IInv, TypeOK, CountersReset, TimersCount
<1>2. HighIsKept' /\ ThrowIsExcused'
  BY DEF IInv, HighIsKept, ThrowIsExcused, RuleContext, ActedNodes
<1>3. EdgesSoFar' /\ FrozenSoFar'
  BY DEF IInv, EdgesSoFar, FrozenSoFar, AtRule, Condition, Frozen
<1>4. ActedPassed' /\ MemoryIsFrozen'
  BY DEF IInv, ActedPassed, MemoryIsFrozen, RulesPassed, Frozen
<1>5. InterlocksForget' /\ RisingInterlockHolds'
  BY DEF IInv, InterlocksForget, RisingInterlockHolds, InterlocksPassed, Frozen
<1> QED  BY <1>1, <1>2, <1>3, <1>4, <1>5 DEF IInv

\* The inductive invariant: what the scan has found so far, what it keeps for the next
\* one, and what the timers have counted.
THEOREM Invariance == Spec => []IInv
<1>1. Init => IInv
  BY InitHolds
<1>2. IInv /\ [Next]_vars => IInv'
  <2>1. ASSUME IInv, Next PROVE IInv'
    BY <2>1, TypeStep, CountersStep, TimersStep, HighStep, ExcuseStep, EdgesStep, ActedStep, FrozenSoFarStep,
       FrozenStep, ForgetStep, InterlockStep DEF IInv
  <2> QED  BY <2>1, Stutters
<1> QED  BY <1>1, <1>2, PTL DEF Spec

\* Timers, counters, edges and the place of the scan keep their types, and no counter
\* counts further than one, whatever the program.
THEOREM TypesHold == Spec => []TypeOK
<1>1. IInv => TypeOK
  BY DEF IInv
<1> QED  BY <1>1, Invariance, PTL

\* A timer started with one preset is done only after its input was ON for that long.
THEOREM TimersHonourPresets == Spec => []TimerHonoursPreset
<1>1. IInv => TimerHonoursPreset
  <2> SUFFICES ASSUME IInv, NEW t \in TimerIds \ DeclaredTimers, timers[t].done, SinglePreset(t)
               PROVE  age[t] >= timers[t].preset
    BY DEF TimerHonoursPreset, SinglePreset
  <2>1. timers[t] \in Timers /\ age[t] \in 0..Horizon
    BY DEF IInv, TypeOK
  <2>2. timers[t].elapsed <= age[t] /\ timers[t].elapsed = timers[t].preset
    BY DEF IInv, TimersCount
  <2> QED  BY <2>1, <2>2, TimeAssumption DEF Timers, TimeAssumption
<1> QED  BY <1>1, Invariance, PTL

\* A rule that waits for rising edges acts once for each time it saw their operands low.
THEOREM EachRiseActsOnce == Spec => []EdgesRiseOnce
<1>1. IInv => EdgesRiseOnce
  <2> SUFFICES ASSUME IInv, AtRule, next > Len(Condition), NEW n \in RisingNodes(Condition)
               PROVE  n \in low
    BY DEF EdgesRiseOnce
  <2>1. PICK k \in DOMAIN Condition : Rises(Condition[k]) /\ Condition[k].node = n
    BY DEF RisingNodes
  <2>2. k < next
    BY ConditionFields, IsElement, IsIndex DEF IInv, TypeOK
  <2> QED  BY <2>1, <2>2 DEF IInv, EdgesSoFar
<1> QED  BY <1>1, Invariance, PTL

\* A rule whose condition is about variables acts as the snapshots say, whatever the rules
\* before it have written.
THEOREM RulesSeeFrozenMemory == Spec => []MemoryIsFrozen
<1>1. IInv => MemoryIsFrozen
  BY DEF IInv
<1> QED  BY <1>1, Invariance, PTL

\* An interlock on rising edges stays active while its operands are true.
THEOREM RisingInterlocksHold == Spec => []RisingInterlockHolds
<1>1. IInv => RisingInterlockHolds
  BY DEF IInv
<1> QED  BY <1>1, Invariance, PTL
=============================================================================
