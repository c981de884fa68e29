----------------------------- MODULE MCScanLogic -----------------------------
(* A program whose rules wait for edges, for each other's memory and for a  *)
(* timer, with a condition that is cut short, a rule that may not be        *)
(* evaluated at first and one that throws once its text is set.             *)
EXTENDS ScanLogic

CONSTANTS start, stop, mode, busy, ready, delay, idle, cycles, riseOfStart, riseOfStop, riseInterlock

If(condition, actions, elseActions) == [condition |-> condition, actions |-> actions, elseActions |-> elseActions]
Var(v, holds) == [type |-> "Variable", id |-> v, holds |-> holds]
Rising(v, node) == [type |-> "Edge", id |-> v, node |-> node, rising |-> TRUE, holds |-> TRUE]
Done(t) == [type |-> "TimerDone", id |-> t, holds |-> TRUE]
Set(v, value) == [type |-> "SetMemory", id |-> v, value |-> value]

MCRules == <<
  If(<<Rising(start, riseOfStart)>>,
     <<Set(busy, "true"), [type |-> "StartTimer", id |-> delay, preset |-> 3],
       [type |-> "IncrementCounter", id |-> cycles]>>, <<>>),
  If(<<Var(busy, TRUE)>>, <<Set(ready, "false")>>, <<Set(ready, "true")>>),
  If(<<Done(delay), Var(busy, TRUE)>>,
     <<Set(busy, "false"), [type |-> "ResetTimer", id |-> delay]>>, <<>>),
  If(<<Var(mode, TRUE)>>, <<>>, <<>>),
  If(<<Var(ready, FALSE), Rising(stop, riseOfStop)>>,
     <<Set(busy, "false"), [type |-> "StartTimer", id |-> idle, preset |-> 2],
       [type |-> "ResetCounter", id |-> cycles]>>, <<>>) >>

MCInterlocks == << <<Rising(stop, riseInterlock)>>,
                   << [type |-> "CounterDone", id |-> cycles, holds |-> TRUE], Var(ready, FALSE)>> >>
=============================================================================
