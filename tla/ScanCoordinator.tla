--------------------------- MODULE ScanCoordinator ---------------------------
(***************************************************************************)
(* ScanCoordinator and its OutputArbiter from one scan to the next: what   *)
(* an output shows when forces come and go, interlocks fire, the runtime   *)
(* stops, faults and resumes, and configurations are replaced.             *)
(*                                                                         *)
(* The coordinator keeps the outputs it last decided (_lastDecidedOutputs) *)
(* for the whole life of the service. The runtime's transitions and        *)
(* publications are single steps here; PlcRuntime interleaves their parts. *)
(* The rules are abstracted to the sets of proposals they may emit;        *)
(* an interlock fires when it is active or cannot be evaluated.            *)
(***************************************************************************)
EXTENDS OutputArbiter

CONSTANTS
  Configs,       \* installable configurations
  NoConfig,      \* nothing installed yet
  Sources,       \* rule actions that propose
  ForceSource,   \* the source of a manual force's proposal
  OutputsOf,     \* the outputs a configuration defines
  FailsafeOf,    \* its failsafe values, NoValue where it configures none
  InterlocksOf,  \* its interlocks
  LogicOf,       \* the sets of proposals its rules may emit in a scan
  DefaultOf      \* FailsafePolicy.Default, by output

ASSUME ConfigsAssumption == NoConfig \notin Configs
ASSUME SourcesAssumption == ForceSource \notin Sources
ASSUME OutputsOfAssumption == OutputsOf \in [Configs -> SUBSET Outputs]
ASSUME FailsafeOfAssumption == FailsafeOf \in [Configs -> [Outputs -> ValueOrNone]]
ASSUME InterlocksOfAssumption ==
  \A c \in Configs : InterlocksOf[c] \in Interlocks
\* LogicExecutor gives every proposal of a rule the priority AutomaticControl.
ASSUME LogicOfAssumption ==
  \A c \in Configs : \A logic \in LogicOf[c] :
    logic \subseteq {p \in ProposalsOf(Sources) : p.priority = AutomaticControl}
ASSUME DefaultOfAssumption == DefaultOf \in [Outputs -> Values]

VARIABLES
  state,      \* _state
  config,     \* the installed configuration
  forced,     \* _forcedOutputs
  retained,   \* _lastDecidedOutputs: the decisions of the last scan
  published,  \* RuntimeSnapshot.Outputs
  scanned,    \* history: configuration of the last scan, NoConfig before the first
  errors,     \* ScanResult.Errors of the last scan, which the runtime does not read
  basis       \* history: what the value of each output was decided from

decided == <<retained, scanned, errors, basis>>
vars == <<state, config, forced, published, decided>>

Nothing == [o \in Outputs |-> Decision(NoValue, FALSE)]

\* Why an output has its value, from the scan that decided it: the configuration, the
\* interlocks that fired on it and, if there is none, the highest proposals.
Basis(c, top, fired) == [config |-> c, top |-> top, fired |-> fired]
NoBasis == Basis(NoConfig, {}, {})

Init ==
  /\ state = "Stopped" /\ config = NoConfig
  /\ forced = [o \in Outputs |-> NoValue]
  /\ retained = Nothing /\ published = Nothing
  /\ scanned = NoConfig /\ errors = {} /\ basis = [o \in Outputs |-> NoBasis]

-----------------------------------------------------------------------------
(* The runtime around the scan.                                            *)

\* Mutated form: the forces of the replaced configuration stay.
Install_KeepsForces(c) ==
  /\ config' = c
  /\ UNCHANGED <<state, forced, published, decided>>

Install(c) ==
  /\ config' = c
  /\ forced' = [o \in Outputs |-> NoValue]
  /\ UNCHANGED <<state, published, decided>>

Resume ==
  /\ config # NoConfig
  /\ state' = "Running"
  /\ UNCHANGED <<config, forced, published, decided>>

\* ApplyFailsafeOutputsCore: every defined output, its failsafe value or the default.
FailsafeOutputs ==
  [o \in Outputs |->
     Decision(IF config = NoConfig \/ o \notin OutputsOf[config] THEN NoValue
              ELSE IF FailsafeOf[config][o] = NoValue THEN DefaultOf[o]
              ELSE FailsafeOf[config][o], FALSE)]

\* Stop and shutdown clear the forces.
Stop ==
  /\ state' = "Stopped"
  /\ forced' = [o \in Outputs |-> NoValue]
  /\ published' = FailsafeOutputs
  /\ UNCHANGED <<config, decided>>

\* Pause, a scan that throws and a watchdog timeout keep them.
Halt(target) ==
  /\ state = "Running" \/ target = "Stopped"
  /\ state' = target
  /\ published' = FailsafeOutputs
  /\ UNCHANGED <<config, forced, decided>>

\* SetForce ignores a variable that is no output of the installed configuration.
SetForce(o, v) ==
  /\ config # NoConfig /\ o \in OutputsOf[config]
  /\ forced' = [forced EXCEPT ![o] = v]
  /\ UNCHANGED <<state, config, published, decided>>

ClearForce(o) ==
  /\ forced' = [forced EXCEPT ![o] = NoValue]
  /\ UNCHANGED <<state, config, published, decided>>

-----------------------------------------------------------------------------
(* A scan.                                                                 *)

ForceProposal(o, v, priority) ==
  [output |-> o, value |-> v, priority |-> priority, source |-> ForceSource]

\* Mutated form: a force enters the arbitration with the priority of the rules.
ForceProposals_Automatic(forces) ==
  {ForceProposal(o, forces[o], AutomaticControl) : o \in {x \in Outputs : forces[x] # NoValue}}

ForceProposals(forces) ==
  {ForceProposal(o, forces[o], ManualForcedSafeCommand) :
     o \in {x \in Outputs : forces[x] # NoValue}}

\* ScanCoordinator.Scan: some forces may have expired before, fired is what the
\* evaluation of the interlocks gave.
ScanStep(logic, fired, expired) ==
  LET forces    == [o \in Outputs |-> IF o \in expired THEN NoValue ELSE forced[o]]
      proposals == logic \cup ForceProposals(forces)
      decisions == Resolve(proposals, OutputsOf[config], [o \in Outputs |-> retained[o].value],
                           FailsafeOf[config], InterlocksOf[config], fired)
  IN  /\ forced' = forces
      /\ retained' = decisions
      /\ errors' = Unresolved(proposals, OutputsOf[config], decisions)
      /\ scanned' = config
      /\ basis' = [o \in Outputs |->
           IF Proposed(proposals, o)
             THEN LET firing == Firing(InterlocksOf[config], fired, o)
                  IN  Basis(config, IF firing = {} THEN Top(proposals, o) ELSE {}, firing)
           ELSE IF o \in OutputsOf[config] /\ retained[o].value = NoValue
             THEN Basis(config, {}, {})
           ELSE basis[o]]

SomeScan(fired) ==
  /\ state = "Running"
  /\ \E logic \in LogicOf[config],
        expired \in SUBSET {o \in Outputs : forced[o] # NoValue} :
       ScanStep(logic, fired, expired)

\* The interlocks that are active or cannot be evaluated in a scan.
FiredSets == IF config = NoConfig THEN {} ELSE SUBSET DOMAIN InterlocksOf[config]

\* A scan whose result is published.
Scan(fired) ==
  /\ SomeScan(fired)
  /\ published' = retained'
  /\ UNCHANGED <<state, config>>

\* The watchdog faults the runtime while the scan runs: the result is discarded, what the
\* coordinator keeps is not.
OvertakenScan(fired) ==
  /\ SomeScan(fired)
  /\ state' = "Faulted"
  /\ published' = FailsafeOutputs
  /\ UNCHANGED config

Next ==
  \/ \E c \in Configs : Install(c)
  \/ Resume
  \/ Stop
  \/ \E target \in {"Stopped", "Faulted"} : Halt(target)
  \/ \E o \in Outputs, v \in Values : SetForce(o, v)
  \/ \E o \in Outputs : ClearForce(o)
  \/ \E fired \in FiredSets : Scan(fired)
  \/ \E fired \in FiredSets : OvertakenScan(fired)

Spec == Init /\ [][Next]_vars
-----------------------------------------------------------------------------
(* Properties.                                                             *)

Decisions == [value : ValueOrNone, forced : BOOLEAN]
Indices == UNION {DOMAIN InterlocksOf[c] : c \in Configs}
Bases == [config : Configs \cup {NoConfig}, top : SUBSET ProposalsOf(Sources \cup {ForceSource}),
          fired : SUBSET Indices]

\* Every field holds a value of its type; forces target outputs the configuration defines.
TypeOK ==
  /\ state \in {"Stopped", "Running", "Faulted"}
  /\ config \in Configs \cup {NoConfig} /\ scanned \in Configs \cup {NoConfig}
  /\ forced \in [Outputs -> ValueOrNone]
  /\ retained \in [Outputs -> Decisions] /\ published \in [Outputs -> Decisions]
  /\ errors \subseteq Outputs
  /\ basis \in [Outputs -> Bases]
  /\ state = "Running" => config # NoConfig
  /\ \A o \in Outputs : forced[o] # NoValue => config # NoConfig /\ o \in OutputsOf[config]

Unopposed(top, v) == \E p \in top : top = {p} /\ p.value = v

\* The value v of output o is the safe value of the first interlock that fired, or that of a
\* proposal nobody opposed at its priority, or the failsafe value.
HasBasis(o, v, b) ==
  IF b.fired # {}
    THEN \E i \in b.fired : (\A j \in b.fired : i <= j) /\ v = InterlocksOf[b.config][i].safe
    ELSE \/ Unopposed(b.top, v)
         \/ /\ b.config # NoConfig
            /\ ~ \E p \in b.top : b.top = {p}
            /\ v = FailsafeOf[b.config][o]

\* However long a value is retained, over stops, faults and other configurations, it has a
\* basis (OutputArbiter: a tie never lets the first proposal win).
ValueHasBasis ==
  \A o \in Outputs : retained[o].value # NoValue => HasBasis(o, retained[o].value, basis[o])

\* A scan decides every output its configuration defines, or reports it; with a failsafe
\* value for each output there is nothing to report.
EveryOutputDecided ==
  scanned # NoConfig =>
    \A o \in OutputsOf[scanned] :
      /\ retained[o].value = NoValue => o \in errors
      /\ o \in errors => FailsafeOf[scanned][o] = NoValue

DecidedByForce(b) == b.fired = {} /\ \E p \in b.top : b.top = {p} /\ p.source = ForceSource

\* An output is published as forced only if a force decided it: one that an interlock
\* overrides is not marked.
MarkedIsForced == \A o \in Outputs : published[o].forced => DecidedByForce(basis[o])

\* What makes the four invariants inductive: a mark is published only with the retained
\* decision that carries it.
MarkInv ==
  \A o \in Outputs : /\ published[o].forced => retained[o].forced
                     /\ retained[o].forced => DecidedByForce(basis[o])

IInv == TypeOK /\ ValueHasBasis /\ EveryOutputDecided /\ MarkInv

PublishedScan == \E fired \in FiredSets : Scan(fired)

ForceIsShown ==
  \A o \in Outputs :
    \/ forced'[o] = NoValue
    \/ published'[o].value = forced'[o]
    \/ basis'[o].fired # {}
    \/ ~PublishedScan

\* A published scan shows every active force, unless an interlock fires on its output.
ForceWins == [][ForceIsShown]_vars

-----------------------------------------------------------------------------
(* What the comments and tests claim, and TLC refutes: InterlockHolds in a  *)
(* run, ForceIsReleased without one.                                       *)

\* OutputArbiter: an active interlock forces its SafeValue on the outputs it affects.
InterlockHolds ==
  [][\A fired \in FiredSets, o \in Outputs :
       LET firing == Firing(InterlocksOf[config], fired, o) IN
         Scan(fired) /\ o \in OutputsOf[config] /\ firing # {} =>
           published'[o].value = InterlocksOf[config][First(firing)].safe]_vars

\* ClearForce and expiry restore automatic control: no later scan shows what a force that
\* is gone decided.
ForceIsReleased ==
  [][\A o \in Outputs : PublishedScan /\ forced'[o] = NoValue => ~DecidedByForce(basis'[o])]_vars
=============================================================================
