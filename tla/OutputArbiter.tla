---------------------------- MODULE OutputArbiter ----------------------------
(***************************************************************************)
(* OutputArbiter: what one scan decides for every output, as operators on  *)
(* the proposals of the scan, the values retained from the last one, the   *)
(* configured failsafe values and the interlocks that fire.                *)
(*                                                                         *)
(* A dictionary of values is a function on Outputs with NoValue for an     *)
(* absent key; the interlocks are a sequence, in the order of their list.  *)
(***************************************************************************)
EXTENDS Integers, Sequences

CONSTANTS
  Outputs,  \* output variables
  Values,   \* the values an output may take
  NoValue   \* absent from a dictionary

ASSUME NoValueAssumption == NoValue \notin Values

ValueOrNone == Values \cup {NoValue}

\* OutputPriority, the two levels the runtime uses and the highest.
AutomaticControl == 2
ManualForcedSafeCommand == 5
EmergencySafetyInterlock == 6

\* OutputProposal. The source tells two proposals of a list apart.
ProposalsOf(sources) ==
  [output : Outputs, value : Values, priority : 0..EmergencySafetyInterlock,
   source : sources]

Interlocks == Seq([affects : SUBSET Outputs, safe : Values])

-----------------------------------------------------------------------------
(* Arbitrate.                                                              *)

For(proposals, o) == {p \in proposals : p.output = o}

Top(proposals, o) ==
  {p \in For(proposals, o) : \A q \in For(proposals, o) : q.priority <= p.priority}

Proposed(proposals, o) == For(proposals, o) # {}

\* A tie at the highest priority, whatever the values are.
Conflicted(proposals, o) == \E p, q \in Top(proposals, o) : p # q

\* The first of the list among the highest; a conflict never lets it through.
Winner(proposals, o) == CHOOSE p \in Top(proposals, o) : TRUE

-----------------------------------------------------------------------------
(* Resolve.                                                                *)

\* The fired interlocks on an output; fired are the active and the unresolved ones.
Firing(interlocks, fired, o) == {i \in fired : o \in interlocks[i].affects}

First(indices) == CHOOSE i \in indices : \A j \in indices : i <= j

Decision(value, forced) == [value |-> value, forced |-> forced]

\* Mutated form: a tie lets one of the tied proposals through.
DecideProposed_FirstWins(proposals, o, failsafe, interlocks, fired) ==
  IF Firing(interlocks, fired, o) # {}
    THEN Decision(interlocks[First(Firing(interlocks, fired, o))].safe, FALSE)
    ELSE Decision(Winner(proposals, o).value,
                  Winner(proposals, o).priority = ManualForcedSafeCommand)

\* Mutated form: an interlock keeps the mark of the force it overrides.
DecideProposed_KeepsMark(proposals, o, failsafe, interlocks, fired) ==
  IF Firing(interlocks, fired, o) # {}
    THEN Decision(interlocks[First(Firing(interlocks, fired, o))].safe,
                  Winner(proposals, o).priority = ManualForcedSafeCommand)
  ELSE IF Conflicted(proposals, o)
    THEN Decision(failsafe[o], FALSE)
    ELSE Decision(Winner(proposals, o).value,
                  Winner(proposals, o).priority = ManualForcedSafeCommand)

\* An interlock beats everything, then a conflict takes the failsafe value (NoValue is the
\* configuration error: no decision), then the highest priority decides.
DecideProposed(proposals, o, failsafe, interlocks, fired) ==
  IF Firing(interlocks, fired, o) # {}
    THEN Decision(interlocks[First(Firing(interlocks, fired, o))].safe, FALSE)
  ELSE IF Conflicted(proposals, o)
    THEN Decision(failsafe[o], FALSE)
    ELSE Decision(Winner(proposals, o).value,
                  Winner(proposals, o).priority = ManualForcedSafeCommand)

\* Mutated form: an output without a proposal or a retained value gets no decision.
DecideUnproposed_NoFailsafe(o, last, failsafe) == Decision(last[o], FALSE)

\* No proposal: the retained value, else the failsafe one, else a configuration error.
DecideUnproposed(o, last, failsafe) ==
  Decision(IF last[o] # NoValue THEN last[o] ELSE failsafe[o], FALSE)

\* The interlocks are applied to the outputs that were proposed only.
Resolve(proposals, defined, last, failsafe, interlocks, fired) ==
  [o \in Outputs |->
     IF Proposed(proposals, o) THEN DecideProposed(proposals, o, failsafe, interlocks, fired)
     ELSE IF o \in defined THEN DecideUnproposed(o, last, failsafe)
     ELSE Decision(NoValue, FALSE)]

\* The outputs a configuration error is reported for.
Unresolved(proposals, defined, decisions) ==
  {o \in Outputs : (Proposed(proposals, o) \/ o \in defined) /\ decisions[o].value = NoValue}
=============================================================================
