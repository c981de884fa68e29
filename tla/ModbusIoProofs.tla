---------------------------- MODULE ModbusIoProofs ----------------------------
(***************************************************************************)
(* ModbusIo's safety properties for every set of variables and maps, every *)
(* threshold and every number of attempts.                                 *)
(*                                                                         *)
(* The argument: IInv is inductive. That RetryWaiting is backed by an open *)
(* circuit needs no clock: the count falls only with a success, a success  *)
(* needs a driver that is Connected, and only a failure that reaches the   *)
(* threshold makes it wait.                                                *)
(***************************************************************************)
EXTENDS ModbusIo, FiniteSetTheorems, TLAPS

\* The failures of a cycle are counted in naturals: finitely many inputs have no address.
LEMMA UnboundCount == Cardinality(Unbound) \in Nat
  <1>1. IsFiniteSet(Unbound)
    BY InputsAssumption, FS_Subset DEF Unbound
  <1>2. QED
    BY <1>1, FS_CardinalityType

\* The count never leaves its range.
LEMMA CountedType ==
  ASSUME failures \in 0..FailureThreshold, NEW n \in Nat
  PROVE  Counted(n) \in 0..FailureThreshold
  BY ThresholdAssumption DEF Counted

\* The list of outputs is not empty, and its members are the outputs.
LEMMA OutputsList ==
  /\ Len(Outputs) \in Nat \ {0}
  /\ \A k \in 1..Len(Outputs) : Outputs[k] \in OutputSet
  <1>1. Outputs \in Seq(OutputSet) /\ Outputs # <<>>
    BY OutputsAssumption
  <1>2. QED
    BY <1>1

\* A bridge that was just built satisfies the invariant.
LEMMA InitIInv == Init => IInv
  <1> SUFFICES ASSUME Init PROVE IInv
    OBVIOUS
  <1>1. TypeOK
    <2>1. failures \in 0..FailureThreshold /\ attempt \in 0..MaxConnectAttempts
      BY ThresholdAssumption, AttemptsAssumption DEF Init
    <2>2. next \in 1..Len(Outputs)
      BY OutputsList DEF Init
    <2>3. device \in [OutputSet -> Kinds \cup {"unwritten"}]
      BY DEF Init
    <2>4. QED
      BY <2>1, <2>2, <2>3 DEF Init, TypeOK
  <1>2. CycleInv /\ DriverStateIsBacked
    BY DEF Init, CycleInv, DriverStateIsBacked
  <1>3. QED
    BY <1>1, <1>2 DEF IInv

\* What happens around a cycle keeps the invariant.
LEMMA SurroundingsIInv == IInv /\ (Surroundings \/ LateWriteEnds) => IInv'
  <1> SUFFICES ASSUME IInv, Surroundings \/ LateWriteEnds PROVE IInv'
    OBVIOUS
  <1> USE DEF IInv, TypeOK, CycleInv, DriverStateIsBacked, driver, reading, writing
  <1>1. ASSUME NEW quality \in {"up", "slow", "down"}, LinkChanges(quality) PROVE IInv'
    BY <1>1 DEF LinkChanges
  <1>2. ASSUME NEW kind \in Kinds, RuntimeShows(kind) PROVE IInv'
    BY <1>2 DEF RuntimeShows, Kinds
  <1>3. ASSUME NEW w \in late, LateWriteLands(w) PROVE IInv'
    BY <1>3 DEF LateWriteLands
  <1>4. ASSUME NEW w \in late, LateWriteIsOver(w) PROVE IInv'
    BY <1>4 DEF LateWriteIsOver
  <1>5. QED
    BY <1>1, <1>2, <1>3, <1>4 DEF Surroundings, LateWriteEnds

\* So does a cycle until its bindings are resolved.
LEMMA ConnectingIInv == IInv /\ (BeginCycle \/ ConnectSucceeds \/ ConnectFails \/ ResolveBindings) => IInv'
  <1> SUFFICES ASSUME IInv, BeginCycle \/ ConnectSucceeds \/ ConnectFails \/ ResolveBindings
               PROVE  IInv'
    OBVIOUS
  <1> USE DEF IInv, TypeOK, CycleInv, DriverStateIsBacked, driver, reading, writing, Goto
  <1>1. CASE BeginCycle
    BY <1>1, AttemptsAssumption DEF BeginCycle, Begin
  <1>2. CASE ConnectSucceeds
    BY <1>2, ThresholdAssumption DEF ConnectSucceeds
  <1>3. CASE ConnectFails
    BY <1>3, AttemptsAssumption DEF ConnectFails, ConnectFailsOf
  <1>4. CASE ResolveBindings
    <2>1. Counted(Cardinality(Unbound)) \in 0..FailureThreshold
      BY UnboundCount, CountedType
    <2>2. failures' = Counted(Cardinality(Unbound))
      BY <1>4 DEF ResolveBindings, Resolve
    <2>3. TypeOK' /\ CycleInv'
      BY <1>4, <2>1 DEF ResolveBindings, Resolve
    <2>4. state' = "RetryWaiting" => failures' >= FailureThreshold
      <3>1. ASSUME Unbound # {}, Opens(Cardinality(Unbound)) PROVE failures' >= FailureThreshold
        BY <2>2, <3>1 DEF Opens
      <3>2. ASSUME state = "RetryWaiting" PROVE failures' >= FailureThreshold
        BY <2>2, <3>2, UnboundCount, ThresholdAssumption DEF Counted
      <3>3. QED
        BY <1>4, <3>1, <3>2 DEF ResolveBindings, Resolve
    <2>5. state' = "Connected" => client' # "none"
      BY <1>4 DEF ResolveBindings, Resolve
    <2>6. QED
      BY <2>3, <2>4, <2>5
  <1>5. QED
    BY <1>1, <1>2, <1>3, <1>4

\* So do the reads: one that succeeds needs a Connected driver, one that fails only counts.
LEMMA ReadingIInv ==
  IInv /\ ((\E i \in Inputs : ReadSucceeds(i) \/ ReadFails(i)) \/ ReadsEnd \/ ReadIsGivenUp) => IInv'
  <1> SUFFICES ASSUME IInv,
                      (\E i \in Inputs : ReadSucceeds(i) \/ ReadFails(i)) \/ ReadsEnd \/ ReadIsGivenUp
               PROVE  IInv'
    OBVIOUS
  <1> USE DEF IInv, TypeOK, CycleInv, DriverStateIsBacked, driver, reading, writing, Goto
  <1>1. ASSUME NEW i \in Inputs, ReadSucceeds(i) PROVE IInv'
    BY <1>1, ThresholdAssumption DEF ReadSucceeds, MaySucceed, CanSend
  <1>2. ASSUME NEW i \in Inputs, ReadFails(i) PROVE IInv'
    <2>1. Counted(1) \in 0..FailureThreshold
      BY CountedType
    <2>2. failures >= FailureThreshold => Counted(1) >= FailureThreshold
      BY ThresholdAssumption DEF Counted
    <2>3. QED
      BY <1>2, <2>1, <2>2 DEF ReadFails
  <1>3. CASE ReadsEnd
    BY <1>3 DEF ReadsEnd, SetInputs
  <1>4. CASE ReadIsGivenUp
    BY <1>4 DEF ReadIsGivenUp, SetInputs
  <1>5. QED
    BY <1>1, <1>2, <1>3, <1>4

\* The next output to write is one, and writing it leaves the device with typed outputs.
LEMMA OutputType ==
  ASSUME IInv, cycle = "write"
  PROVE  /\ Output \in OutputSet /\ taken \in Kinds
         /\ [device EXCEPT ![Output] = taken] \in [OutputSet -> Kinds \cup {"unwritten"}]
  <1>1. Output \in OutputSet
    BY OutputsList DEF IInv, TypeOK, Output
  <1>2. taken \in Kinds
    BY DEF IInv, CycleInv
  <1>3. device \in [OutputSet -> Kinds \cup {"unwritten"}]
    BY DEF IInv, TypeOK
  <1>4. QED
    BY <1>1, <1>2, <1>3

\* So do the writes, which have outputs to write.
LEMMA WritingIInv == IInv /\ (TakeOutputs \/ WriteSucceeds \/ WriteFails \/ WriteTimesOut) => IInv'
  <1> SUFFICES ASSUME IInv, TakeOutputs \/ WriteSucceeds \/ WriteFails \/ WriteTimesOut
               PROVE  IInv'
    OBVIOUS
  <1>1. cycle = "write" =>
          /\ Output \in OutputSet /\ taken \in Kinds
          /\ [device EXCEPT ![Output] = taken] \in [OutputSet -> Kinds \cup {"unwritten"}]
    BY OutputType
  <1>2. 1 \in 1..Len(Outputs) /\ (next # Len(Outputs) => next + 1 \in 1..Len(Outputs))
    BY OutputsList DEF IInv, TypeOK
  <1> USE DEF IInv, TypeOK, CycleInv, DriverStateIsBacked, driver, reading, writing, Goto
  <1>3. CASE TakeOutputs
    BY <1>2, <1>3 DEF TakeOutputs, Take
  <1>4. CASE WriteSucceeds
    <2>1. device' \in [OutputSet -> Kinds \cup {"unwritten"}]
      BY <1>1, <1>4 DEF WriteSucceeds
    <2>2. next' \in 1..Len(Outputs) /\ cycle' \in {"idle", "write"} /\ tardy' \in BOOLEAN
      BY <1>2, <1>4 DEF WriteSucceeds
    <2>3. failures' \in 0..FailureThreshold /\ state' = "Connected" /\ client' # "none"
      BY <1>4, ThresholdAssumption DEF WriteSucceeds, MaySucceed, CanSend
    <2>4. QED
      BY <1>4, <2>1, <2>2, <2>3 DEF WriteSucceeds
  <1>5. CASE WriteFails
    <2>1. device' \in [OutputSet -> Kinds \cup {"unwritten"}]
      BY <1>1, <1>5 DEF WriteFails, StopsWriting
    <2>2. QED
      BY <1>2, <1>5, <2>1 DEF WriteFails, StopsWriting
  <1>6. CASE WriteTimesOut
    <2>1. [output |-> Output, kind |-> taken] \in [output : OutputSet, kind : Kinds]
      BY <1>1, <1>6 DEF WriteTimesOut, StopsWriting
    <2>2. QED
      BY <1>2, <1>6, <2>1 DEF WriteTimesOut, StopsWriting
  <1>7. QED
    BY <1>3, <1>4, <1>5, <1>6

\* The invariant holds in every reachable state, whatever the link and the runtime do.
THEOREM Invariance == Spec => []IInv
  <1>1. Init => IInv
    BY InitIInv
  <1>2. IInv /\ [Next]_vars => IInv'
    <2> SUFFICES ASSUME IInv, [Next]_vars PROVE IInv'
      OBVIOUS
    <2>1. CASE Next
      BY <2>1, SurroundingsIInv, ConnectingIInv, ReadingIInv, WritingIInv DEF Next, Cycle
    <2>2. CASE UNCHANGED vars
      BY <2>2 DEF IInv, TypeOK, CycleInv, DriverStateIsBacked, vars, driver, reading, writing
    <2>3. QED
      BY <2>1, <2>2
  <1>3. QED
    BY <1>1, <1>2, PTL DEF Spec

\* Type correctness: a cycle never makes more attempts to connect than it may.
THEOREM TypeCorrect == Spec => []TypeOK
  <1>1. IInv => TypeOK
    BY DEF IInv
  <1>2. QED
    BY <1>1, Invariance, PTL

\* A driver that says Connected holds a client, one that waits has an open circuit behind it.
THEOREM StateIsBacked == Spec => []DriverStateIsBacked
  <1>1. IInv => DriverStateIsBacked
    BY DEF IInv
  <1>2. QED
    BY <1>1, Invariance, PTL
=============================================================================
