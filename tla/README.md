# AtlasSoftPLC: formal models

TLA+ models of AtlasSoftPLC, a soft PLC in C# (.NET 8): a scan loop that reads inputs, evaluates
rules, arbitrates outputs and publishes them, a watchdog that faults it, a web application that
commands it, a Modbus bridge that connects it to devices and an SQLite file that keeps its users
and programs. The models are translated from the code; TLC checks them on small instances and
TLAPS proves all of the safety properties for every value of the constants.

    tlc -config runtime_core.cfg MCPlcRuntime.tla       # a run
    tlapm PlcRuntimeProofs.tla                          # a proof

Paths below are relative to the repository; `Runtime` stands for `src/AtlasSoftPlc.Runtime`.

## The system

| Component | State it keeps | Operations | Talks to |
|---|---|---|---|
| `PlcRuntimeService` (`Runtime/Hosting`) | command channel, `_state`, `_scanGeneration`, program and configuration references, `_memory`, `_inputs`, `_forcedOutputs`, last inputs and outputs | post a command, install a configuration, set inputs; the loop drains commands, scans, publishes, applies failsafe outputs | scan coordinator (under `lock(_coordinator)`), state store, watchdog, notifier, audit sink |
| `WatchdogService`, `RuntimeStateStore` (`RuntimeState.cs`) | armed flag, last heartbeat; the published snapshot | arm, heartbeat, evaluate; update, read | the timer calls back into the runtime |
| `ScanCoordinator` (`Runtime/Engine`) | last decided outputs, edge state, timers and counters, scan number | `Scan` | executor, interlock evaluation, arbiter |
| `OutputArbiter` | none | `Arbitrate`, `Resolve` | |
| `LogicExecutor`, `ExpressionEngine` | none (contexts of one scan) | evaluate a rule, apply its actions | timers, counters, memory |
| `TimerManager`, `CounterManager` | timer and counter blocks | create, advance, start, reset, count, read | |
| `ModbusIoService` (`Services`) | driver, last health | one I/O cycle: connect, read inputs, write outputs | runtime, driver, simulation service |
| `ModbusTcpDriver`, `CircuitBreaker`, `RegisterConverter` | connection state, bindings, failure count and open window | connect, read, write, health | the device over TCP |
| `SimulationService` | program library, active program, variables, input values | load a program, set an input, start, stop | runtime |
| `AuthService`, `UserSeeder` | failures and windows in memory, users in SQLite | authenticate, seed | user store |
| Persistence (`SchemaMigrator`, repositories) | SQLite tables, shared by the processes on a file | migrate, save, read | application services |
| Validation, logic builder, explainer, catalogue | none | pure functions of a program or a text | |
| Web application | sessions | controllers, SignalR hub | all the services |

How they interact. The loop thread, the watchdog's timer and web threads (controllers, the
simulation service, the Modbus bridge) share the fields of `PlcRuntimeService`. Some accesses are
under `lock(_coordinator)`; the decision whether a scan still counts, its publication, all of the
watchdog's path and the state and generation fields are not. The coordinator is entered under the
lock only, but its state outlives stops, faults, configurations and discarded scans.

What is hard, and the properties that make each part correct:

- *Runtime.* Three threads interleave at single reads and writes; a scan may be overtaken by a
  fault or an installation, or hang while it owns the lock. It must never run without a program,
  show the failsafe outputs whenever it does not run, drop overtaken scans, fault hung ones, and
  end every `Stop` in failsafe outputs.
- *Arbitration.* Proposals tie, forces and interlocks overlap, and a value once decided is
  retained for as long as nobody proposes another. Each value must have an admissible origin, each
  defined output a decision or an error, and the mark *forced* must be true.
- *Timers, counters, rules.* State carried from scan to scan, keyed by identifiers that programs
  share, and read and written in the middle of a scan.
- *Modbus.* Lost connections, timeouts whose operation goes on, outputs read before an await and
  written after it, bindings replaced between cycles.
- *Simulation service.* A load mixes queued commands with immediate changes of shared state, and
  refills the very dictionary the loop enumerates. Between loads service and runtime must agree,
  and the last command must win.
- *Authentication.* Check and update of the counters are separate steps of concurrent requests; a
  lockout must hold against all of them but those that were past the check.
- *Persistence.* Migrating and seeding take several transactions, other processes take theirs in
  between, and each may die in the middle. Migrations must run once and in order all the same.

`PROJECT.json` lists every component, its sources and what is modelled of it, and the hazards with
their lines.

## Modules

| Module | Models | Proofs |
|---|---|---|
| `PlcRuntime` (`MCPlcRuntime`) | runtime loop, watchdog, store, web threads; implements `FailsafeRuntime` | `PlcRuntimeProofs` |
| `FailsafeRuntime` | what `PlcRuntimeService` promises of the outputs everybody reads | `PlcRuntimeProofs` |
| `OutputArbiter` | arbitration, as operators | `ScanCoordinatorProofs` |
| `ScanCoordinator` (`MCScanCoordinator`) | what is carried from scan to scan; extends `OutputArbiter` | `ScanCoordinatorProofs` |
| `ModbusIo` (`MCModbusIo`) | the I/O cycle, the driver, its circuit breaker, the connection, the device | `ModbusIoProofs` |
| `RegisterConverter` (through `MCModbusIo`) | typed values to registers and back, as operators | `RegisterConverterProofs` |
| `ScanLogic` (`MCScanLogic`) | rules, edges, memory, timers, counters and interlock conditions of a scan | `ScanLogicProofs` |
| `Simulation` (`MCSimulation`) | `SimulationService` composed with a coarser runtime loop and their shared dictionary | `SimulationProofs` |
| `Login` (`MCLogin`) | rate limit, lockout and verification by concurrent requests | `LoginProofs` |
| `Startup` (`MCStartup`) | migration and seeding by processes on one file; implements `SchemaHistory` | `StartupProofs` |
| `SchemaHistory` | what `SchemaMigrator` promises: versions applied once and in order | |

### PlcRuntime

One variable per field of the service, the store and the watchdog; `loop`, `watchdog` and
`installer` are the program counters of the loop thread, the timer callback and the web thread
inside `InstallConfiguration`. A step is what the code does between two accesses another thread
may see: `TransitionState` is two steps (state, generation), arming is two (flag, heartbeat), a
scan's publication is three (memory; inputs and outputs; store), the lock-free failsafe is four
(two reads, the field, the store). Code inside one lock is a single step where no lock-free reader
looks at what it changes; `InstallConfiguration` is two because the watchdog reads definitions and
failsafe values without the lock.

Abstractions:

- Outputs are their provenance: built by a scan (of which program, inputs and forces) or by the
  failsafe path (from which definitions and which failsafe values).
- The generation counter is `genChanged`: whether it differs from what the scan in flight
  captured, all the code compares.
- Time is the age of the heartbeat: *fresh*, or *late* when it grew older than the timeout.
- `SetInputs` merges a dictionary; the model gives the merged image.
- `RuntimeStateStore.Update` runs under the store's lock and is a step; its reads of `_state` and
  `_lastOutputs` happen in it.
- Metrics, notifications, audit records and `SetRuntimeMode` are left out: nothing reads them back.
- A scan throws before its decision point or not at all. The `catch` covers the publication too, but
  nothing in it throws: the store copies dictionaries nobody writes any more, and the notifier that
  is registered (`src/Hubs/RuntimeHub.cs`) is asynchronous, so that its exceptions stay in tasks the
  runtime drops.

### FailsafeRuntime

What the runtime promises, without locks, commands, configurations or places in the code: a scan is
*committed* when its result will be published whatever happens, a thread is *halting* from the
moment it has left Running until it has published failsafe outputs, and a halt is *late* if a scan
was committed when it came. Its steps are `Start`, `Halt`, `Commit`, `Show` (the committed scan's
outputs) and `Settle` (the end of a halt: failsafe outputs, or an excuse). Each excuse is one the
code needs: without any of them, or with a narrower one, TLC finds a step that is none of these.

`PlcRuntime!ImplementsFailsafeRuntime` maps the store's outputs to `shown`, the three places of a
publication to `committed`, `raced` to `late`, and to `halting` the loop from its transition to
its failsafe (`Quieting`) and the timer callback in the same places (`Faulting`). The steps that
are not stuttering are `TransitionState` (`Start` or `Halt`), `WatchdogFault`, `DecideScan`,
`UpdateMetrics`, `PublishFailsafe` and `WatchdogPublish`.

### OutputArbiter and ScanCoordinator

`OutputArbiter` says what a scan decides for each output. Dictionaries are functions with
`NoValue` for a missing key; a decision with `NoValue` is the configuration error, which the
runtime drops. `ScanCoordinator` adds `_lastDecidedOutputs`, the forces and the published outputs,
with the runtime's transitions as single steps. The rules of a configuration are the sets of
proposals they may emit; a scan takes any of them, any set of interlocks that fire (active or not
evaluable: the arbiter treats both alike) and any set of forces that have expired. A discarded
scan (`OvertakenScan`) changes what the coordinator keeps and publishes nothing. `basis` and
`scanned` are history: what each value was decided from.

### ModbusIo

A step is what `RunCycleAsync` and the driver do between two awaits: begin a cycle (new bindings,
health), one connection attempt, one read, one write. Around them the link changes between *up*,
*slow* (an operation may succeed, fail or time out) and *down*, an outage may break a connection
for good, the runtime publishes computed or failsafe outputs, and a write abandoned at its timeout
lands, perhaps more than once, or is lost.

Abstractions:

- Values are their origin: an input shows a value of the device or the failsafe value, an output
  was computed by a scan or is a failsafe value. Registers and scaling are left out.
- `ConnectAsync` is one step: nobody else looks at `Connecting`.
- `tardy` says whether the deadline of the reads (or writes) may have passed. The code looks at it
  before each variable, so a deadline gives the rest of the inputs up or ends the writes. An answer
  that makes the driver throw what it does not know gives the rest of the inputs up as well.
- A program is loaded between cycles (`BeginCycle` takes any map); the set of variables stays.
- The device accepts every mapped address: `Maps` are the bindings with a valid one.
- The time for which the circuit is open is left out: `IsOpen` is asked only right after a failure
  reached the threshold, and the bridge never asks the breaker before it connects.

### RegisterConverter

`TryToRegisters` and `TryFromRegisters` for values of one, two and four registers, signed and
unsigned, in the three byte orders. A byte has `Byte` values instead of 256, so that every value of
every width can be enumerated; a floating-point value is its bit pattern, which the code casts to
the integer of the same size. The conversion keeps no state: `RoundTrips` of `MCModbusIo` looks at
it in the initial state of the bridge that uses it.

### ScanLogic

`LogicExecutor.Execute` and `EvaluateInterlocks`, leaf by leaf and action by action: `pc`, `item`
and `next` say whether the scan is at a condition of a rule, at its actions or at an interlock, at
which rule or interlock, and at which leaf or action. A scan begins by advancing the timers and
declaring the program's timers and counters, and takes its snapshots of inputs and memory; the
rules run in their order and write `written`; the edges of the context replace those of the scan
before when the scan returns. All of it is under `lock(_coordinator)`: inputs change and
configurations are installed only between scans, or between the return of one and its end, where
its memory is published or discarded. Timers, counters and edges are kept either way. Most errors
are values: a variable that is not there, or a text under an AND, a NOT or an edge, makes the
condition fail, and the rule does nothing. A text that is the whole condition is not looked at
before `AsBool` converts it, and makes the scan throw (`ScanThrows`): what the actions have done to
timers and counters stays, the memory and the edges of the scan are lost.

Abstractions: a condition is an AND of leaves, a leaf a variable, an edge or a block's `Done`,
possibly negated; AND stops at the first leaf that is false or fails, so which edges are noted is
the code's. A variable reads a boolean, a text that spells none, or nothing. OR, comparisons, arithmetic
and the outputs are left out (the last are `ScanCoordinator`'s). Only the blocks rules can create
are there: TON timers, and CTU counters of preset 0. `age` (for how long a timer's input has been
ON) and `low` (operands a rule saw low, or never saw, since a rule acted on their edge in a scan
that did not throw) are history. That a throw faults the runtime is `PlcRuntime`'s: here the next
scan begins after somebody has resumed it. The assumptions are that operands have ids of their own (`ExpressionNode.Id` is a new
`Guid`), that the program declares timers and counters it mentions, and that time is followed for
as long as the longest preset (`Horizon`, a bound).

### Simulation

The composition of `SimulationService` and the runtime. The service's thread holds its lock through
`LoadProgram` and `TrySetInput` (`pc`), while *Start* and *Stop* post without it. What a load does
to the runtime is three separate things: the `Stop` and the `Resume` go into the queue, the
installation is immediate, and the dictionary of variables, which the runtime uses as its
definitions, is cleared and refilled one variable at a time. Enumerating it meanwhile gives a part
of it, or throws and ends the loop thread (`loop = "dead"`). By default .NET then stops the host too;
the model says only that the loop is over, and no property speaks of what follows. The watchdog,
which enumerates the same dictionary, is left out.

The loop is `PlcRuntime`'s made coarser: a command is one step, a scan is the lock, the decision
and the publication, and watchdog, forces and the generation check are left out. An output is
*unset*, *live* or *failsafe*. `last` (the last `Stop` or `Resume` anybody posted) and `touched`
(inputs set by hand since the load) are history. `QueueBound` keeps the queue finite; a request
that finds it full waits, which the code's unbounded channel never makes it do.

### Login

Every dictionary operation of `Authenticate` is one step of the request (`ConcurrentDictionary` is
atomic), the look at the lockout, the verification of the password and the failure it counts are
three. Time is left to chance: a window or a lockout may end at any moment (`WindowEnds`,
`LockoutEnds`), and a restart forgets both dictionaries. Failures are counted up to the maximum and
attempts up to one more than allowed: beyond that the code does the same with every number. A
`MaxFailedAttempts` of 1 is left out because the first failure never locks, so it means 2.
`guesses`, `relapse` and `overtaken` are history. A name is what it is up to case, as `AuthService` keys it.

### Startup and SchemaHistory

Each process on the file has its own `pc`: it reads the applied versions, applies the rest one
transaction at a time, seeds the users if there are none, and at the first request seeds and reads
the library. A statement outside a transaction commits on its own. A transaction takes the write
lock of the file when it begins (`BEGIN IMMEDIATE`, the default of Microsoft.Data.Sqlite), a
statement that waits too long for it ends a process that starts, and only the request if it saves
the library (the next request finds what was saved before), an exception rolls back, and a process
may crash at any step and start again. A script that adds columns fails on a schema that has them; the
others are idempotent, and it is the primary key of `SchemaMigrations` that stops them. Rows are
counted per demo, since each build of a demo gets a new id; the contents of rows are left out.

`SchemaHistory` is the promise with one step, *the next version takes effect and is recorded*; the
refinement maps `applied` and `scripts` to themselves and everything else to stuttering.

## Runs

| Run | Question | Instance |
|---|---|---|
| `runtime_core` | safety of every interleaving, snapshots that pair outputs with their inputs, do the threads implement `FailsafeRuntime`? | one configuration, one input value and the empty image, operator commands with pause and manual inputs, queue of 1; the refinement is one of its properties |
| `runtime_forces` | do forces target defined outputs? | two configurations with different outputs, queue of 1; watchdog idle (`TimelySpec`) |
| `runtime_live` | is a hung scan faulted, and does a stop take effect? | `FairSpec`, start and stop commands, queue of 1 |
| `scan_outputs` | basis, decisions, marks, forces | two configurations on two outputs, contradicting rules, overlapping interlocks, one configuration without failsafe values |
| `scan_logic` | do timers keep their preset, edges rise once, rules see frozen memory, rising interlocks stay, also when scans are discarded or throw? | two inputs and one that is a text, two memory variables, two timers of which one is declared, a counter, five rules, two interlocks; 1 or 2 ms between scans, timers watched for 3 |
| `simulation` | do service and runtime agree, does the last command win, does a loaded program run? | two programs with an input and an output each, queue of 3 |
| `modbus_io` | is a loss noticed, do inputs return, do failsafe outputs arrive; do registers read back what was written? | two inputs, two outputs, all of them mapped or one of each; threshold and attempts of 2; bytes of four values |
| `login` | does a lockout hold, and how many guesses does the race let through? | three requests, two users of which one is stored, two addresses, limits of 3; symmetry in requests and addresses |
| `startup` | migrations once and in order, seeding that leaves a prefix, everyone serves | two processes, four versions of which the third adds columns, two users, two demos |

The bounds suffice because most threads are fixed (one loop, one timer, one installer and one
holder of the service's lock at a time) and the properties relate at most two configurations, two
outputs and two competing sources. A queue of 1 suffices for the order of commands in `PlcRuntime`:
a client posts the next one as soon as the loop has taken the last, so every sequence of commands
occurs, and each of them meets every step of the watchdog and of an installation. In `simulation`
the queue must hold the `Stop` and the `Resume` of a load with a command of somebody else before,
between or after them: 3. Two inputs make a read that fails halfway, two outputs a write that
does, and a threshold of 2 lets one failure count without opening the circuit. Three requests are
one that locks and two overtaken by it, and limits of 3 let a failure count that neither is the
first nor locks. Two processes are all that a transaction and a stale list can concern; four
versions leave one before and one after the script that fails when repeated. In `scan_logic` a
preset of 3 is reached in two scans or three, and a horizon of 3 tells it from less. The proofs
drop the bounds of everything they cover.

`simulation` does not check deadlock: a load may kill the loop, and a full queue then stays full.
The symmetry of `login` is sound because no property or fairness names a request or an address.

Runs that refute a comment, a document or a test of the repository:

| Run | What the code does |
|---|---|
| `interlock_holds` | An active interlock is not applied to an output nobody proposes in this scan. The comment that claims it stands on a method only tests call; `Resolve`, which the scans call, does the same job. |
| `modbus_reconnect` | A failed read leaves the driver Connected, so a broken connection is never replaced. |
| `load_is_safe` | The `Stop` of a load is handled after the definitions were replaced: outputs of the program before keep their computed values. |

### Seen while modelling, without a run

Stated in a module and refuted by TLC:

- `PlcRuntime!NoLatePublication`: a fault after a scan's decision point is overwritten by the
  scan's outputs.
- `PlcRuntime!EveryHungScanIsFaulted`: a `Resume` between the watchdog's fault and its disarming
  starts a scan nobody watches.
- `PlcRuntime!MemoryIsOfProgram`: a scan of the old program writes its memory into the new one's.
- `ScanCoordinator!ForceIsReleased`: a forced value stays after the force is cleared, if nobody
  proposes the output.
- `ModbusIo!LateWritesAreDropped`: outputs are taken once and written over several awaits, also
  after the runtime has halted.

In the runtime: the timer may evaluate between `_armed = true` and the stamp of the heartbeat, and
fault a runtime whose first scan has not begun; the watchdog's failsafe may combine the definitions
of one configuration with the failsafe values of another; after a stop and a resume an output
nobody proposes shows the value from before the stop.

In a scan: the preset of a declared timer goes back to 0 at every scan, so it is done at once
unless its rule starts it again in each; the first scan after a stop counts the whole stop as the
time since the last; a counter counts one edge and no more until it is reset, because nothing
lowers its input; a condition that is nothing but a variable of type String throws, and an edge a
rule acted on in that scan acts again once the runtime is resumed; an interlock on a falling edge never fires, because interlocks see the edges the
rules have noted, which do not hold their operands.

In the simulation service: adding a variable while the loop enumerates the dictionary makes the
enumeration throw, nothing but a cancellation is caught, and the loop ends; a manual input from
before a load of the same program may come back from the queue after the load has reset it, which
is why `ManualInputsWin` speaks of inputs set since.

In the Modbus driver: with as many unmapped inputs as open the circuit (three) the bridge reads and
writes nothing, which is why `InputsReturn` and `FailsafeReachesDevice` speak of maps with fewer
(`FewUnbound`); an output behind an unmapped one is never written, which is why the second speaks
of `Served` outputs; `WordSwap` swaps the bytes of registers that are read and not of those that
are written, so `RoundTrips` leaves it out for more than one register.

At the start: a seeding that was interrupted is never completed, since the table is not empty any
more; two processes that seed the library together leave a copy each; and the one that reads it
while the other is seeding keeps a part of it until it ends.

## Fairness

`FairSpec` of `PlcRuntime` assumes that the loop thread and the timer callbacks keep running, that
a web thread leaves the lock, and that a heartbeat nobody renews grows old while a scan is in
flight. The loop is strongly fair because it waits for a lock: .NET monitors grant a lock that is
released again and again, and every owner but a hung scan releases it. Nothing is assumed of
clients, of `Age` outside a scan, of the end of a scan or of the service's shutdown. A scan may
hang for ever; `StopTakesEffect` says so itself: its premise is that the loop leaves every scan.

`Spec` of `ModbusIo` assumes that a cycle under way goes on (every await has a timeout, and the
background service starts the next cycle) and that a write left behind is over some time, since
its retries are bounded. Nothing is assumed of the link or the runtime: the liveness properties
name the link and the connection they need as premises, so they hold whatever happened before.

`FairSpec` of `Simulation` assumes that the loop thread goes on, scans included, and that a request
that holds the service's lock does; no request need ever come. `FairSpec` of `Startup` assumes
strong fairness of each process's own steps: a process runs, the system restarts one that failed,
and the write lock it waits for is given up again and again, since every transaction is short and
rolled back when its process dies. `EveryoneServes` says itself that processes must stop dying.

## Proofs

`PlcRuntimeProofs`: `IInv` is inductive. The published outputs alone are not: that they are
failsafe ones when the runtime does not run depends on what each thread is in the middle of
(`LockInv`, `CauseInv`), on where a program is known to be installed (`ProgramInv`), on the fact
that only a Running runtime or an overtaken scan publishes (`PublishInv`), and on what the last
outputs and the store hold during a publication (`FailsafeInv`). From it follow type correctness,
`RunningHasProgram`, `FailsafeWhileNotRunning`, `ForcesAreDefined` and the action property
`LiveOnlyWhileRunning` (computed outputs reach the store only while the runtime is Running, or when
the fault came after the decision point), for any configurations, outputs, inputs, commands and
queue bound.
`SnapshotIsCoherent` needs one invariant more, `CoherentInv`: the inputs are written before the
outputs and both before the store, and only failsafe outputs come from elsewhere in between.
`Refinement` shows step by step that the threads implement `FailsafeRuntime`; the hard steps are
the three that publish. `PublishInv` says that what is committed is of a Running runtime or late,
and `FailsafeInv` what the fields hold then: outside a publication live outputs are already in the
store, so the watchdog can only repeat them, and a committed scan whose outputs were overwritten
finds failsafe ones in the store or a halt that is about to put them there. `PromiseSuffices` shows
that the promise is worth having: whatever implements it, not this runtime alone, shows failsafe
outputs when it is out of Running, no halt is under way and none was late (`SettledIsSafe`).

`ScanCoordinatorProofs`: among the seven priorities a proposed output always has a highest
proposal (`TopExists`), without a conflict it is the only one (`WinnerIsUnopposed`), and of the
interlocks that fire one is first (`FirstIsFirst`, by well-foundedness of the naturals). So a scan
leaves every output *sound* (`ScanOutputIsSound`: a typed decision whose value has a basis), and
`IInv` is inductive: only scans change what is retained, and they record the basis with it.
`MarkInv` strengthens `MarkedIsForced`: a mark is published only with the retained decision that
carries it. `ForcesWin` adds that the proposal of an active force is the only highest one
(`ForceIsTop`). The assumptions are those the modules name: `NoConfig` and `NoValue` are no
configuration and no value, a force's source is no rule, rules propose with the priority of
automatic control, interlocks, failsafe values and outputs have their types.

`ModbusIoProofs`: `IInv` adds to the types what a cycle relies on at two of its points (`CycleInv`:
an attempt to connect is left while it connects, and there are outputs while it writes). That
*RetryWaiting* is backed by an open circuit needs no clock: the count falls only with a success, a
success needs a driver that is Connected, and only a failure that reaches the threshold makes it
wait. From it follow `TypeOK` and `DriverStateIsBacked`, for any finite set of inputs, any outputs
and maps, any threshold and any number of attempts.

`StartupProofs`: the heart of `IInv` is that the lock has one holder (in `TypeOK`) and that what a
process skipped is in the file: every version up to the one it handled last was applied when it
read the list or has been since, and the file never loses one. So the version a process is about to
commit is not applied and all the smaller ones are, `applied` is always `1..Len(scripts)`, and the
commit is `SchemaHistory`'s step (`Refinement`); recorded duplicates and repeated scripts end in a
rollback. For the users, `UsersArePrefix` says the rows are a prefix of the seed at least as long as
what each process has saved. For the copies, those of a demo and the processes that are about to
save it are no more than the processes: a process starts to save only an empty library. Any number
of processes, versions, users and demos.

`LoginProofs`: `LockHolds` is inductive with the types, since the step that locks is the one that
records who was past the check. `GuessesBounded` needs the accounting of `GuessesAccounted`: before
a lockout the wrong passwords are at most the failures counted and those about to be, and after it
they and the requests still verifying are fewer than the limit and all requests together. Any
requests, users, addresses and limits (the maximum of failures being at least 2).

`SimulationProofs`: the invariants speak of the last command of a kind in the queue (`IsLast`,
`NoneOf`), and lemmas say what `Append` and `Tail` do to it. `SwitchesDecide`: the last `Stop` or
`Resume` in the queue is the last one posted, or, when there is none, the state is what it made it.
`ManualDecides` is the same for the value of an input, whether it waits in the queue or was
written. `LoadIsUnderWay` follows a load from place to place, and `HaltedIsSafe` says what of the
outputs is computed at each place of the loop. Any programs, variables and queue bound.

`ScanLogicProofs`: a rule acts after its last leaf, so the invariant must say what is known of the
leaves passed so far, and so must one for each kind of leaf: the rising edges found were low before
and are high now (`EdgesSoFar`), the variables found to hold do so in the snapshots
(`FrozenSoFar`). What carries from scan to scan is `HighIsKept` (an operand the rules have not seen
low since a rule acted on it is one they saw high when they last looked, whether that scan was
published or not, unless it threw: `ThrowIsExcused`), `InterlocksForget` (the kept edges never hold an interlock's operand) and
`TimersCount` (a timer started with one preset has elapsed no more than its age). From them follow
`TypeOK`, with counters of at most 1, `TimerHonoursPreset`, `EdgesRiseOnce`, `MemoryIsFrozen` and
`RisingInterlockHolds`, for any rules, interlocks, presets and times.

`RegisterConverterProofs`: with the lemmas that quotient and remainder are unique and that dividing
twice is dividing by the product, the words of a value give it back (`WordsInverse`), reversing
them twice changes nothing (`ReversedTwice`) and neither does casting to unsigned and back
(`CastsInverse`). So `RoundTrips` holds for bytes of any size, not only the four values TLC tries.

Only model-checked:

- the liveness properties (`HungScanIsFaulted`, `StopTakesEffect`, `LossIsSeen`, `InputsReturn`,
  `FailsafeReachesDevice`, `LoadedProgramRuns`, `EveryoneServes`), since liveness under fairness is
  beyond TLAPS;
- that the three claims of the repository are refuted, which is an execution each.

## Not modelled

- Validation: pure checks of a program that no runtime path calls; an installed program is
  whatever the library holds.
- Logic builder, natural-language intents, explainer: text in, text or a program out.
- The web application beyond its calls to the runtime, cookies, roles and password hashes; the
  views and the timeline of the simulation service. The JavaScript under `src/wwwroot` is a
  vendored validation library and a file of comments.
- The Modbus test server and the virtual device: demonstrations and thin wrappers.
- TOF, TP and CTD blocks, OR, comparisons, arithmetic and the parsing of literals: rules create
  none of the first, and the rest are pure evaluation.
- Formatting, logging, audit, notification, the numbers of metrics and catalogue data; the
  repositories' single statements.

## Plan

1. `PlcRuntime`, `OutputArbiter`, `ScanCoordinator`, `ModbusIo` and their proofs: done.
2. Timers, counters, rules and memory across scans (`ScanLogic`), register conversion
   (`RegisterConverter`): done, with their proofs.
3. Loading programs against the runtime's queue (`Simulation`), lockout under concurrent requests
   (`Login`), migration and seeding with crashes (`Startup`, refining `SchemaHistory`): done, with
   their proofs.
4. `FailsafeRuntime`, which `PlcRuntime` refines: done, proved.

Worth doing next: validation against arbitration (a program the rules accept has no unresolved
output); the shutdown of the Modbus bridge; and OR conditions in `ScanLogic`. `Simulation` does not
implement `FailsafeRuntime`: its loop stops and shows failsafe outputs in one step, and the outputs
of a program that was replaced keep their values (`load_is_safe`).
