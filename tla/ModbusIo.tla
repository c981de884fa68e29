------------------------------- MODULE ModbusIo -------------------------------
(***************************************************************************)
(* The Modbus bridge: the I/O cycle of ModbusIoService, ModbusTcpDriver    *)
(* with its CircuitBreaker, the connection they hold and the device.       *)
(*                                                                         *)
(* One cycle configures the driver, connects it unless it says Connected,  *)
(* reads the inputs one by one into the runtime's image, takes the         *)
(* runtime's outputs and writes them one by one. Between any two of these  *)
(* awaits the link changes, the runtime halts or resumes, or a write that  *)
(* was abandoned at its timeout reaches the device.                        *)
(*                                                                         *)
(* An input is known by whether the image shows a value of the device or   *)
(* the failsafe value, an output by whether a scan computed it.            *)
(***************************************************************************)
EXTENDS Naturals, Sequences, FiniteSets

CONSTANTS
  Inputs,            \* input variables of the active program
  Outputs,           \* its output variables, in the order they are written
  Maps,              \* the sets of variables a program's Modbus map may bind
  FailureThreshold,  \* CircuitBreaker.FailureThreshold
  MaxConnectAttempts \* ModbusOptions.MaxConnectAttempts

OutputSet == {Outputs[k] : k \in DOMAIN Outputs}

ASSUME OutputsAssumption == Outputs \in Seq(OutputSet) /\ Outputs # <<>>
ASSUME InputsAssumption == IsFiniteSet(Inputs)
ASSUME MapsAssumption == Maps \subseteq SUBSET (Inputs \cup OutputSet)
ASSUME ThresholdAssumption == FailureThreshold \in Nat \ {0}
ASSUME AttemptsAssumption == MaxConnectAttempts \in Nat \ {0}

VARIABLES
  bound,     \* _bindings: the variables that have an address
  state,     \* ModbusTcpDriver._state
  failures,  \* CircuitBreaker._failureCount, up to the threshold
  client,    \* _client: "none", a connection that is "live", or one that is "broken"
  link,      \* the network: "up", "slow" (operations may time out) or "down"
  cycle,     \* control state of RunCycleAsync
  attempt,   \* connection attempts of this cycle
  tardy,     \* the deadline of the reads, or of the writes, may have passed
  toRead,    \* the bound inputs this cycle has still to read
  got,       \* the inputs it has read
  image,     \* the inputs PlcRuntimeService._inputs has a value of the device for
  shown,     \* the outputs of the runtime's snapshot: none yet, computed or failsafe
  taken,     \* the outputs this cycle writes
  next,      \* the position of the next output to write
  device,    \* the outputs of the device
  late       \* writes abandoned at their timeout that are still under way

driver == <<state, failures, client>>
reading == <<toRead, got>>
writing == <<taken, next>>
vars == <<bound, driver, link, cycle, attempt, tardy, reading, image, shown, writing, device, late>>

Kinds == {"live", "failsafe"}
Unbound == Inputs \ bound

Init ==
  /\ bound \in Maps
  /\ state = "Disconnected" /\ failures = 0 /\ client = "none" /\ link = "up"
  /\ cycle = "idle" /\ attempt = 0 /\ tardy = FALSE
  /\ toRead = {} /\ got = {} /\ image = {}
  /\ shown = "none" /\ taken = "none" /\ next = 1
  /\ device = [o \in OutputSet |-> "unwritten"] /\ late = {}

-----------------------------------------------------------------------------
(* What happens around the cycle.                                          *)

\* A connection that lived through an outage may be broken for good.
LinkChanges(quality) ==
  /\ link # quality /\ link' = quality
  /\ client' \in IF client = "live" /\ quality = "down" THEN {"live", "broken"} ELSE {client}
  /\ UNCHANGED <<bound, state, failures, cycle, attempt, tardy, reading, image, shown, writing,
                 device, late>>

\* The runtime publishes failsafe outputs when it halts and computed ones when it scans.
RuntimeShows(kind) ==
  /\ shown # kind /\ shown' = kind
  /\ UNCHANGED <<bound, driver, link, cycle, attempt, tardy, reading, image, writing, device, late>>

\* The library goes on with an abandoned write: it may reach the device, more than once if
\* it is retried, until it is over.
LateWriteLands(w) ==
  /\ link # "down"
  /\ device' = [device EXCEPT ![w.output] = w.kind]
  /\ UNCHANGED <<bound, driver, link, cycle, attempt, tardy, reading, image, shown, writing, late>>

LateWriteIsOver(w) ==
  /\ late' = late \ {w}
  /\ UNCHANGED <<bound, driver, link, cycle, attempt, tardy, reading, image, shown, writing, device>>

-----------------------------------------------------------------------------
(* The driver.                                                             *)

Counted(n) == IF failures + n > FailureThreshold THEN FailureThreshold ELSE failures + n

\* OnFailure opens the circuit at the threshold; IsOpen, asked at once, says so.
Opens(n) == Counted(n) >= FailureThreshold

\* EnsureConnectedOrThrow, then the operation on the wire.
CanSend == state = "Connected" /\ client = "live"
MaySucceed == CanSend /\ link # "down"
MayFail == ~CanSend \/ link # "up"

-----------------------------------------------------------------------------
(* RunCycleAsync.                                                          *)

Goto(here, there) == cycle = here /\ cycle' = there

Begin(connects) ==
  /\ Goto("idle", IF connects THEN "connect" ELSE "resolve")
  /\ bound' \in Maps
  /\ attempt' = 0
  /\ UNCHANGED <<driver, link, tardy, reading, image, shown, writing, device, late>>

\* Mutated form: only a driver that was never connected is connected.
BeginCycle_FaultedIsFinal == Begin(state = "Disconnected")

\* ReconfigureDriver takes the map of the program that is active now; EnsureConnected
\* connects unless the driver says it is connected.
BeginCycle == Begin(state # "Connected")

\* ConnectAsync; the client it replaces is not disposed.
ConnectSucceeds ==
  /\ Goto("connect", "resolve")
  /\ link # "down"
  /\ client' = "live" /\ state' = "Connected" /\ failures' = 0
  /\ UNCHANGED <<bound, link, attempt, tardy, reading, image, shown, writing, device, late>>

ConnectFailsOf(limit) ==
  /\ cycle = "connect" /\ link # "up"
  /\ state' = "Faulted"
  /\ attempt' = attempt + 1
  /\ IF attempt' = limit THEN cycle' = "idle" /\ image' = {} ELSE UNCHANGED <<cycle, image>>
  /\ UNCHANGED <<bound, failures, client, link, tardy, reading, shown, writing, device, late>>

\* Mutated form: one attempt too many.
ConnectFails_OneMore == ConnectFailsOf(MaxConnectAttempts + 1)

\* After the last attempt every input takes its failsafe value (ApplyInputFailsafe).
ConnectFails == ConnectFailsOf(MaxConnectAttempts)

Resolve(waits) ==
  /\ Goto("resolve", "read")
  /\ failures' = Counted(Cardinality(Unbound))
  /\ state' = IF waits THEN "RetryWaiting" ELSE state
  /\ toRead' = Inputs \cap bound /\ got' = {} /\ tardy' = FALSE
  /\ UNCHANGED <<bound, client, link, attempt, image, shown, writing, device, late>>

\* Mutated form: the driver waits after any failure, whether the circuit is open or not.
ResolveBindings_AnyFailure == Resolve(Unbound # {})

\* A failure is recorded for each input without an address.
ResolveBindings == Resolve(Unbound # {} /\ Opens(Cardinality(Unbound)))

\* ReadBindingAsync: the value, with RecordSuccess, or FailRead, which leaves the state.
ReadSucceeds(i) ==
  /\ cycle = "read" /\ i \in toRead /\ MaySucceed
  /\ toRead' = toRead \ {i} /\ got' = got \cup {i}
  /\ failures' = 0 /\ tardy' = (tardy \/ link # "up")
  /\ UNCHANGED <<bound, state, client, link, cycle, attempt, image, shown, writing, device, late>>

ReadFails(i) ==
  /\ cycle = "read" /\ i \in toRead /\ MayFail
  /\ toRead' = toRead \ {i}
  /\ failures' = Counted(1) /\ tardy' = (tardy \/ link # "up")
  /\ UNCHANGED <<bound, state, client, link, cycle, attempt, got, image, shown, writing, device, late>>

\* Mutated form: an input that was not read keeps its value.
SetInputs_KeepsUnread(read) == image' = image \cup read

\* The image of the runtime: what was read, the failsafe value of every other input.
SetInputs(read) == image' = read

ReadsEnd ==
  /\ Goto("read", "outputs")
  /\ toRead = {}
  /\ SetInputs(got)
  /\ tardy' = FALSE
  /\ UNCHANGED <<bound, driver, link, attempt, reading, shown, writing, device, late>>

\* The deadline of the whole read, seen before the next binding, or an answer that makes the
\* driver throw what it does not count as a failure: what was read is given up.
ReadIsGivenUp ==
  /\ Goto("read", "outputs")
  /\ toRead # {}
  /\ tardy \/ (CanSend /\ link # "up")
  /\ SetInputs({})
  /\ toRead' = {} /\ got' = {} /\ tardy' = FALSE
  /\ UNCHANGED <<bound, driver, link, attempt, shown, writing, device, late>>

Take(some) ==
  /\ Goto("outputs", IF some THEN "write" ELSE "idle")
  /\ taken' = shown /\ next' = 1
  /\ UNCHANGED <<bound, driver, link, attempt, tardy, reading, image, shown, device, late>>

\* Mutated form: outputs are written only while the runtime runs.
TakeOutputs_OnlyRunning == Take(shown = "live")

\* GetOutputs: whatever the runtime shows now, whether it runs or not.
TakeOutputs == Take(shown # "none")

Output == Outputs[next]

\* WriteBindingAsync and RecordWrite.
WriteSucceeds ==
  /\ cycle = "write" /\ Output \in bound /\ MaySucceed
  /\ device' = [device EXCEPT ![Output] = taken]
  /\ failures' = 0
  /\ IF next = Len(Outputs)
       THEN cycle' = "idle" /\ next' = 1 /\ tardy' = FALSE
       ELSE next' = next + 1 /\ tardy' = (tardy \/ link # "up") /\ UNCHANGED cycle
  /\ UNCHANGED <<bound, state, client, link, attempt, reading, image, shown, taken, late>>

StopsWriting == Goto("write", "idle") /\ tardy' = FALSE /\ next' = 1

\* An output without an address, a failed write or the deadline of the whole write ends the
\* loop: what follows is not written. A failure may come after the device obeyed.
WriteFails ==
  /\ StopsWriting
  /\ Output \notin bound \/ MayFail \/ tardy
  /\ device' \in IF Output \in bound /\ MaySucceed /\ MayFail
                   THEN {device, [device EXCEPT ![Output] = taken]} ELSE {device}
  /\ UNCHANGED <<bound, driver, link, attempt, reading, image, shown, taken, late>>

\* RunWithTimeoutAsync gives a write up but cannot cancel it.
WriteTimesOut ==
  /\ StopsWriting
  /\ Output \in bound /\ CanSend /\ link # "up"
  /\ late' = late \cup {[output |-> Output, kind |-> taken]}
  /\ UNCHANGED <<bound, driver, link, attempt, reading, image, shown, taken, device>>

Cycle ==
  \/ BeginCycle \/ ConnectSucceeds \/ ConnectFails
  \/ ResolveBindings \/ ReadsEnd \/ ReadIsGivenUp
  \/ \E i \in Inputs : ReadSucceeds(i) \/ ReadFails(i)
  \/ TakeOutputs \/ WriteSucceeds \/ WriteFails \/ WriteTimesOut

LateWriteEnds == \E w \in late : LateWriteIsOver(w)

Surroundings ==
  \/ \E quality \in {"up", "slow", "down"} : LinkChanges(quality)
  \/ \E kind \in Kinds : RuntimeShows(kind)
  \/ \E w \in late : LateWriteLands(w)

Next == Cycle \/ LateWriteEnds \/ Surroundings

\* Every operation of a cycle ends, at the latest at its timeout, and so does every write
\* left behind, whose retries are bounded. Nothing is assumed of the link or the runtime.
Spec == Init /\ [][Next]_vars /\ WF_vars(Cycle) /\ WF_vars(LateWriteEnds)

-----------------------------------------------------------------------------
(* Properties.                                                             *)

\* Every variable keeps its type; the attempts of a cycle never exceed their limit.
TypeOK ==
  /\ bound \in Maps
  /\ state \in {"Disconnected", "Connected", "RetryWaiting", "Faulted"}
  /\ failures \in 0..FailureThreshold
  /\ client \in {"none", "live", "broken"} /\ link \in {"up", "slow", "down"}
  /\ cycle \in {"idle", "connect", "resolve", "read", "outputs", "write"}
  /\ attempt \in 0..MaxConnectAttempts /\ tardy \in BOOLEAN
  /\ toRead \subseteq Inputs /\ got \subseteq Inputs /\ image \subseteq Inputs
  /\ shown \in Kinds \cup {"none"} /\ taken \in Kinds \cup {"none"}
  /\ next \in 1..Len(Outputs)
  /\ device \in [OutputSet -> Kinds \cup {"unwritten"}]
  /\ late \subseteq [output : OutputSet, kind : Kinds]

\* The state the driver reports is backed by what it holds: Connected by a client, live or
\* not, and RetryWaiting by a circuit that reached its threshold and no success since.
DriverStateIsBacked ==
  /\ state = "Connected" => client # "none"
  /\ state = "RetryWaiting" => failures >= FailureThreshold

\* What a cycle relies on at two of its points: an attempt to connect is left while it
\* connects, and there are outputs to write while it writes.
CycleInv ==
  /\ cycle = "connect" => attempt < MaxConnectAttempts
  /\ cycle = "write" => taken \in Kinds

\* The inductive invariant.
IInv == TypeOK /\ CycleInv /\ DriverStateIsBacked

\* A device that is gone for good is noticed: in the end every input shows its failsafe
\* value, none an old value that passes for a good one (ModbusIoService: anti-stale inputs).
LossIsSeen == <>[](link = "down") => <>[](image = {})

\* Fewer inputs without an address than failures that open the circuit. With more, every
\* cycle finds the driver waiting: no input is read and no output written.
FewUnbound(map) == Cardinality(Inputs \ map) < FailureThreshold

\* Once the connection stays good, whatever happened before it, every input the program
\* maps shows values of the device again, and goes on doing so.
InputsReturn ==
  \A map \in {m \in Maps : FewUnbound(m)} :
    <>[](bound = map /\ link = "up" /\ client = "live") => <>[](Inputs \cap map \subseteq image)

\* The outputs that no output without an address precedes.
Served(map) == {Outputs[k] : k \in {n \in DOMAIN Outputs : \A j \in 1..n : Outputs[j] \in map}}

\* A runtime that stays halted is obeyed: over a good connection the device ends, and stays,
\* in the failsafe values, whatever writes were abandoned on the way.
FailsafeReachesDevice ==
  \A map \in {m \in Maps : FewUnbound(m)} :
    <>[](bound = map /\ link = "up" /\ client = "live" /\ shown = "failsafe")
      => \A o \in Served(map) : <>[](device[o] = "failsafe")

\* The bridge reconnects: once the network is back for good, a connection works again.
\* Refuted: a failed read leaves the driver Connected, and a connected driver is not
\* connected again.
ConnectionRecovers == <>[](link = "up") => <>[](client = "live")

\* Late writes are dropped: while the runtime is halted no output of the device takes a
\* computed value. Refuted, without a run: the outputs are taken before the writes are
\* awaited.
LateWritesAreDropped ==
  [][shown = "failsafe" => \A o \in OutputSet : device'[o] = "live" => device[o] = "live"]_vars
=============================================================================
