----------------------- MODULE ScanCoordinatorProofs -----------------------
(***************************************************************************)
(* The arbitration of a scan and what it keeps from one scan to the next,  *)
(* for any outputs, values, configurations, rules and interlocks.          *)
(*                                                                         *)
(* The argument: among finitely many priority levels a proposed output     *)
(* always has a highest proposal (TopExists), and the first of the fired   *)
(* interlocks exists (FirstIsFirst); so a scan gives each output a typed   *)
(* decision. IInv is then inductive: only a scan changes what is retained, *)
(* and it records the basis together with the value.                       *)
(***************************************************************************)
EXTENDS ScanCoordinator, TLAPS, WellFoundedInduction

-----------------------------------------------------------------------------
(* The operators of the arbitration.                                       *)

\* An output somebody proposed has a highest proposal.
LEMMA TopExists ==
  ASSUME NEW sources, NEW proposals \in SUBSET ProposalsOf(sources), NEW o, Proposed(proposals, o)
  PROVE  Top(proposals, o) # {}
  <1> DEFINE S == For(proposals, o)
  <1>1. S # {} /\ \A p \in S : p.priority \in 0..6
    BY DEF Proposed, For, ProposalsOf, EmergencySafetyInterlock
  <1>2. \E p \in S : \A q \in S : q.priority <= p.priority
    <2> HIDE DEF S
    <2>1. CASE \E p \in S : p.priority = 6
      BY <1>1, <2>1
    <2>2. CASE \A p \in S : p.priority \in 0..5
      <3>1. CASE \E p \in S : p.priority = 5
        BY <2>2, <3>1
      <3>2. CASE \E p \in S : p.priority = 4 /\ \A q \in S : q.priority <= 4
        BY <3>2
      <3>3. CASE \A p \in S : p.priority \in 0..3
        <4>1. CASE \E p \in S : p.priority = 3
          BY <3>3, <4>1
        <4>2. CASE \E p \in S : p.priority = 2 /\ \A q \in S : q.priority <= 2
          BY <4>2
        <4>3. CASE \A p \in S : p.priority \in 0..1
          BY <1>1, <4>3
        <4>4. QED
          BY <3>3, <4>1, <4>2, <4>3
      <3>4. QED
        BY <2>2, <3>1, <3>2, <3>3
    <2>3. QED
      BY <1>1, <2>1, <2>2
  <1>3. QED
    BY <1>2 DEF Top

\* Without a conflict the winner is the only highest proposal, whatever the list's order.
LEMMA WinnerIsUnopposed ==
  ASSUME NEW sources, NEW proposals \in SUBSET ProposalsOf(sources), NEW o,
         Proposed(proposals, o), ~Conflicted(proposals, o)
  PROVE  /\ Top(proposals, o) = {Winner(proposals, o)}
         /\ Winner(proposals, o) \in proposals
  <1>1. Winner(proposals, o) \in Top(proposals, o)
    BY TopExists DEF Winner
  <1>2. \A p \in Top(proposals, o) : p = Winner(proposals, o)
    BY <1>1 DEF Conflicted
  <1>3. Top(proposals, o) \subseteq proposals
    BY DEF Top, For
  <1>4. QED
    BY <1>1, <1>2, <1>3

\* Of any set of interlocks that fired one comes first.
LEMMA FirstIsFirst ==
  ASSUME NEW indices \in SUBSET Nat, indices # {}
  PROVE  First(indices) \in indices /\ \A j \in indices : First(indices) <= j
  <1>1. PICK i \in indices : \A j \in indices : <<j, i>> \notin OpToRel(<, Nat)
    BY NatLessThanWellFounded, WFMin
  <1>2. \A j \in indices : ~(j < i)
    BY <1>1, Zenon DEF OpToRel
  <1>3. \A j \in indices : i <= j
    BY <1>2
  <1>4. QED
    BY <1>3 DEF First

-----------------------------------------------------------------------------
(* One scan.                                                               *)

\* What a scan decides from.
Proposals(logic, forces) == logic \cup ForceProposals(forces)

\* The proposals of a scan are well typed, and a force's is the only one of its priority.
LEMMA ScanProposals ==
  ASSUME NEW c \in Configs, NEW logic \in LogicOf[c], NEW forces \in [Outputs -> ValueOrNone]
  PROVE  /\ Proposals(logic, forces) \in SUBSET ProposalsOf(Sources \cup {ForceSource})
         /\ \A p \in Proposals(logic, forces) :
              \/ p.priority = AutomaticControl /\ p.source # ForceSource
              \/ p.priority = ManualForcedSafeCommand /\ p.source = ForceSource
  <1>1. logic \subseteq {p \in ProposalsOf(Sources) : p.priority = AutomaticControl}
    BY LogicOfAssumption
  <1>2. \A p \in ForceProposals(forces) :
          /\ p \in ProposalsOf({ForceSource})
          /\ p.priority = ManualForcedSafeCommand /\ p.source = ForceSource
    BY DEF ForceProposals, ForceProposal, ProposalsOf, ValueOrNone, ManualForcedSafeCommand,
           EmergencySafetyInterlock
  <1>3. QED
    BY <1>1, <1>2, SourcesAssumption DEF Proposals, ProposalsOf

\* What the scan gives one output, with the basis it records.
LEMMA ScanOutput ==
  ASSUME TypeOK, NEW logic \in LogicOf[config], NEW fired \in SUBSET DOMAIN InterlocksOf[config],
         NEW expired \in SUBSET Outputs, config \in Configs, ScanStep(logic, fired, expired),
         NEW o \in Outputs
  PROVE  LET all == Proposals(logic, forced')
             firing == Firing(InterlocksOf[config], fired, o)
         IN  \/ /\ Proposed(all, o) /\ firing # {}
                /\ retained'[o] = Decision(InterlocksOf[config][First(firing)].safe, FALSE)
                /\ basis'[o] = Basis(config, {}, firing)
             \/ /\ Proposed(all, o) /\ firing = {} /\ Conflicted(all, o)
                /\ retained'[o] = Decision(FailsafeOf[config][o], FALSE)
                /\ basis'[o] = Basis(config, Top(all, o), {})
             \/ /\ Proposed(all, o) /\ firing = {} /\ ~Conflicted(all, o)
                /\ retained'[o] = Decision(Winner(all, o).value,
                                           Winner(all, o).priority = ManualForcedSafeCommand)
                /\ basis'[o] = Basis(config, Top(all, o), {})
             \/ /\ ~Proposed(all, o) /\ o \in OutputsOf[config] /\ retained[o].value = NoValue
                /\ retained'[o] = Decision(FailsafeOf[config][o], FALSE)
                /\ basis'[o] = Basis(config, {}, {})
             \/ /\ ~Proposed(all, o) /\ o \in OutputsOf[config] /\ retained[o].value # NoValue
                /\ retained'[o] = Decision(retained[o].value, FALSE)
                /\ basis'[o] = basis[o]
             \/ /\ ~Proposed(all, o) /\ o \notin OutputsOf[config]
                /\ retained'[o] = Decision(NoValue, FALSE)
                /\ basis'[o] = basis[o]
  BY DEF ScanStep, Proposals, Resolve, DecideProposed, DecideUnproposed

\* The fired interlocks of an output are positions in the list, and safe values are values.
LEMMA FiringIsSafe ==
  ASSUME NEW c \in Configs, NEW fired \in SUBSET DOMAIN InterlocksOf[c], NEW o,
         Firing(InterlocksOf[c], fired, o) # {}
  PROVE  LET firing == Firing(InterlocksOf[c], fired, o)
         IN  /\ First(firing) \in firing /\ \A j \in firing : First(firing) <= j
             /\ InterlocksOf[c][First(firing)].safe \in Values
  <1> DEFINE firing == Firing(InterlocksOf[c], fired, o)
  <1>1. InterlocksOf[c] \in Seq([affects : SUBSET Outputs, safe : Values])
    BY InterlocksOfAssumption DEF Interlocks
  <1>2. firing \subseteq DOMAIN InterlocksOf[c] /\ firing \in SUBSET Nat
    BY <1>1 DEF Firing
  <1>3. First(firing) \in firing /\ \A j \in firing : First(firing) <= j
    <2>1. firing # {}
      OBVIOUS
    <2> HIDE DEF firing
    <2>2. QED
      BY <1>2, <2>1, FirstIsFirst
  <1>4. \A i \in DOMAIN InterlocksOf[c] : InterlocksOf[c][i].safe \in Values
    <2> DEFINE T == [affects : SUBSET Outputs, safe : Values]
    <2>1. \A t \in T : t.safe \in Values
      OBVIOUS
    <2>2. \A i \in DOMAIN InterlocksOf[c] : InterlocksOf[c][i] \in T
      <3>1. InterlocksOf[c] \in Seq(T)
        BY <1>1
      <3> HIDE DEF T
      <3>2. \A i \in 1..Len(InterlocksOf[c]) : InterlocksOf[c][i] \in T
        BY <3>1
      <3>3. DOMAIN InterlocksOf[c] = 1..Len(InterlocksOf[c])
        BY <3>1
      <3>4. QED
        BY <3>2, <3>3
    <2>3. QED
      BY <2>1, <2>2
  <1>5. First(firing) \in DOMAIN InterlocksOf[c]
    BY <1>2, <1>3
  <1>6. InterlocksOf[c][First(firing)].safe \in Values
    BY <1>4, <1>5
  <1>7. QED
    BY <1>3, <1>6

\* What the invariant says of one output: its decision r and its basis b.
Sound(o, r, b) ==
  /\ r \in Decisions /\ b \in Bases
  /\ r.forced => DecidedByForce(b)
  /\ r.value # NoValue => HasBasis(o, r.value, b)

\* A decision that no force marks is sound when its value has the basis.
LEMMA UnmarkedIsSound ==
  ASSUME NEW o, NEW v \in ValueOrNone, NEW b \in Bases, v # NoValue => HasBasis(o, v, b)
  PROVE  Sound(o, Decision(v, FALSE), b)
  BY DEF Sound, Decision, Decisions

\* The safe value of the first fired interlock.
LEMMA SafeIsSound ==
  ASSUME NEW c \in Configs, NEW fired \in SUBSET DOMAIN InterlocksOf[c], NEW o,
         Firing(InterlocksOf[c], fired, o) # {}
  PROVE  LET firing == Firing(InterlocksOf[c], fired, o)
         IN  Sound(o, Decision(InterlocksOf[c][First(firing)].safe, FALSE), Basis(c, {}, firing))
  <1> DEFINE firing == Firing(InterlocksOf[c], fired, o)
             b == Basis(c, {}, firing)
             v == InterlocksOf[c][First(firing)].safe
  <1>1. First(firing) \in firing /\ (\A j \in firing : First(firing) <= j) /\ v \in Values
    BY FiringIsSafe
  <1>2. firing \in SUBSET Indices
    BY DEF Firing, Indices
  <1>3. b \in Bases
    BY <1>2 DEF Bases, Basis
  <1>4. b.config = c /\ b.fired = firing
    BY DEF Basis
  <1>5. HasBasis(o, v, b)
    <2> HIDE DEF firing, b
    <2>1. b.fired # {}
      BY <1>1, <1>4
    <2>2. QED
      BY <1>1, <1>4, <2>1 DEF HasBasis
  <1>6. QED
    <2> HIDE DEF v, b
    <2>1. v \in ValueOrNone
      BY <1>1 DEF ValueOrNone
    <2>2. Sound(o, Decision(v, FALSE), b)
      BY <1>3, <1>5, <2>1, UnmarkedIsSound
    <2>3. QED
      BY <2>2 DEF v, b

\* The failsafe value, for want of a single highest proposal.
LEMMA FailsafeIsSound ==
  ASSUME NEW c \in Configs, NEW o \in Outputs,
         NEW top \in SUBSET ProposalsOf(Sources \cup {ForceSource}), ~ \E p \in top : top = {p}
  PROVE  Sound(o, Decision(FailsafeOf[c][o], FALSE), Basis(c, top, {}))
  <1> DEFINE b == Basis(c, top, {})
  <1>1. b \in Bases
    BY DEF Bases, Basis
  <1>2. b.config = c /\ b.top = top /\ b.fired = {}
    BY DEF Basis
  <1>3. FailsafeOf[c][o] \in ValueOrNone
    BY FailsafeOfAssumption
  <1>4. HasBasis(o, FailsafeOf[c][o], b)
    BY <1>2, ConfigsAssumption DEF HasBasis
  <1>5. QED
    <2> HIDE DEF b
    <2>1. Sound(o, Decision(FailsafeOf[c][o], FALSE), b)
      BY <1>1, <1>3, <1>4, UnmarkedIsSound
    <2>2. QED
      BY <2>1 DEF b

\* The value of the only highest proposal, marked if that is a force's.
LEMMA WinnerIsSound ==
  ASSUME NEW c \in Configs, NEW o \in Outputs,
         NEW p \in ProposalsOf(Sources \cup {ForceSource}),
         p.priority = ManualForcedSafeCommand => p.source = ForceSource
  PROVE  Sound(o, Decision(p.value, p.priority = ManualForcedSafeCommand), Basis(c, {p}, {}))
  <1> DEFINE b == Basis(c, {p}, {})
             r == Decision(p.value, p.priority = ManualForcedSafeCommand)
  <1>1. b \in Bases
    BY DEF Bases, Basis
  <1>2. b.top = {p} /\ b.fired = {}
    BY DEF Basis
  <1>3. p.value \in Values
    BY DEF ProposalsOf
  <1>4. /\ r.value = p.value /\ r \in Decisions
        /\ r.forced = (p.priority = ManualForcedSafeCommand)
    BY <1>3 DEF Decision, Decisions, ValueOrNone
  <1>5. HasBasis(o, p.value, b)
    BY <1>2 DEF HasBasis, Unopposed
  <1>6. r.forced => DecidedByForce(b)
    BY <1>2, <1>4 DEF DecidedByForce
  <1>7. QED
    <2> HIDE DEF r, b
    <2>1. Sound(o, r, b)
      BY <1>1, <1>4, <1>5, <1>6 DEF Sound
    <2>2. QED
      BY <2>1 DEF r, b

\* A scan leaves every output sound, and one it defines without a value only if the
\* configuration has no failsafe value for it.
LEMMA ScanOutputIsSound ==
  ASSUME IInv, config \in Configs, NEW logic \in LogicOf[config],
         NEW fired \in SUBSET DOMAIN InterlocksOf[config], NEW expired \in SUBSET Outputs,
         ScanStep(logic, fired, expired), NEW o \in Outputs
  PROVE  /\ Sound(o, retained'[o], basis'[o])
         /\ (o \in OutputsOf[config] \/ Proposed(Proposals(logic, forced'), o))
              /\ retained'[o].value = NoValue => FailsafeOf[config][o] = NoValue
  <1> DEFINE all == Proposals(logic, forced')
             firing == Firing(InterlocksOf[config], fired, o)
  <1>1. forced' \in [Outputs -> ValueOrNone]
    BY DEF IInv, TypeOK, ScanStep, ValueOrNone
  <1>2. /\ all \in SUBSET ProposalsOf(Sources \cup {ForceSource})
        /\ \A p \in all : \/ p.priority = AutomaticControl /\ p.source # ForceSource
                          \/ p.priority = ManualForcedSafeCommand /\ p.source = ForceSource
    BY <1>1, ScanProposals
  <1>3. Top(all, o) \in SUBSET ProposalsOf(Sources \cup {ForceSource})
    BY <1>2 DEF Top, For
  <1> HIDE DEF all, firing
  <1>4. CASE Proposed(all, o) /\ firing # {}
    <2>1. /\ retained'[o] = Decision(InterlocksOf[config][First(firing)].safe, FALSE)
          /\ basis'[o] = Basis(config, {}, firing)
      BY <1>4, ScanOutput DEF IInv, all, firing
    <2>2. /\ Sound(o, Decision(InterlocksOf[config][First(firing)].safe, FALSE),
                       Basis(config, {}, firing))
          /\ InterlocksOf[config][First(firing)].safe \in Values
      BY <1>4, SafeIsSound, FiringIsSafe DEF firing
    <2>3. retained'[o].value # NoValue
      BY <2>1, <2>2, NoValueAssumption DEF Decision
    <2>4. QED
      BY <2>1, <2>2, <2>3
  <1>5. CASE Proposed(all, o) /\ firing = {} /\ Conflicted(all, o)
    <2>1. /\ retained'[o] = Decision(FailsafeOf[config][o], FALSE)
          /\ basis'[o] = Basis(config, Top(all, o), {})
      BY <1>5, ScanOutput DEF IInv, all, firing
    <2>2. ~ \E p \in Top(all, o) : Top(all, o) = {p}
      BY <1>5 DEF Conflicted
    <2>3. Sound(o, Decision(FailsafeOf[config][o], FALSE), Basis(config, Top(all, o), {}))
      BY <1>3, <2>2, FailsafeIsSound
    <2>4. retained'[o].value = FailsafeOf[config][o]
      BY <2>1 DEF Decision
    <2>5. QED
      BY <2>1, <2>3, <2>4
  <1>6. CASE Proposed(all, o) /\ firing = {} /\ ~Conflicted(all, o)
    <2> DEFINE p == Winner(all, o)
    <2>1. /\ retained'[o] = Decision(p.value, p.priority = ManualForcedSafeCommand)
          /\ basis'[o] = Basis(config, Top(all, o), {})
      BY <1>6, ScanOutput DEF IInv, all, firing
    <2>2. Top(all, o) = {p} /\ p \in all
      BY <1>2, <1>6, WinnerIsUnopposed, Zenon
    <2> HIDE DEF p
    <2>3. p \in ProposalsOf(Sources \cup {ForceSource})
      BY <1>2, <2>2
    <2>4. p.priority = ManualForcedSafeCommand => p.source = ForceSource
      BY <1>2, <2>2 DEF ManualForcedSafeCommand, AutomaticControl
    <2>5. Sound(o, Decision(p.value, p.priority = ManualForcedSafeCommand), Basis(config, {p}, {}))
      BY <2>3, <2>4, WinnerIsSound
    <2>6. p.value # NoValue
      BY <2>3, NoValueAssumption DEF ProposalsOf
    <2>7. retained'[o].value = p.value
      BY <2>1 DEF Decision
    <2>8. QED
      BY <2>1, <2>2, <2>5, <2>6, <2>7
  <1>7. CASE ~Proposed(all, o) /\ o \in OutputsOf[config] /\ retained[o].value = NoValue
    <2>1. /\ retained'[o] = Decision(FailsafeOf[config][o], FALSE)
          /\ basis'[o] = Basis(config, {}, {})
      BY <1>7, ScanOutput DEF IInv, all
    <2>2. Sound(o, Decision(FailsafeOf[config][o], FALSE), Basis(config, {}, {}))
      BY FailsafeIsSound
    <2>3. retained'[o].value = FailsafeOf[config][o]
      BY <2>1 DEF Decision
    <2>4. QED
      BY <2>1, <2>2, <2>3
  <1>8. CASE ~Proposed(all, o) /\ o \in OutputsOf[config] /\ retained[o].value # NoValue
    <2>1. /\ retained'[o] = Decision(retained[o].value, FALSE)
          /\ basis'[o] = basis[o]
      BY <1>8, ScanOutput DEF IInv, all
    <2>2. retained[o] \in Decisions /\ basis[o] \in Bases
      BY DEF IInv, TypeOK
    <2>3. retained[o].value \in ValueOrNone
      BY <2>2 DEF Decisions
    <2>4. HasBasis(o, retained[o].value, basis[o])
      BY <1>8 DEF IInv, ValueHasBasis
    <2>5. Sound(o, Decision(retained[o].value, FALSE), basis[o])
      BY <2>2, <2>3, <2>4, UnmarkedIsSound
    <2>6. retained'[o].value = retained[o].value
      BY <2>1 DEF Decision
    <2>7. QED
      BY <1>8, <2>1, <2>5, <2>6
  <1>9. CASE ~Proposed(all, o) /\ o \notin OutputsOf[config]
    <2>1. /\ retained'[o] = Decision(NoValue, FALSE)
          /\ basis'[o] = basis[o]
      BY <1>9, ScanOutput DEF IInv, all
    <2>2. basis[o] \in Bases
      BY DEF IInv, TypeOK
    <2>3. Sound(o, Decision(NoValue, FALSE), basis[o])
      BY <2>2, UnmarkedIsSound DEF ValueOrNone
    <2>4. QED
      BY <1>9, <2>1, <2>3 DEF all
  <1>10. QED
    BY <1>4, <1>5, <1>6, <1>7, <1>8, <1>9 DEF all

\* A scan keeps what the invariant says of the coordinator's own state.
LEMMA ScanKeeps ==
  ASSUME IInv, config \in Configs, NEW fired \in SUBSET DOMAIN InterlocksOf[config],
         SomeScan(fired)
  PROVE  /\ forced' \in [Outputs -> ValueOrNone]
         /\ \A o \in Outputs : forced'[o] # NoValue => o \in OutputsOf[config]
         /\ retained' \in [Outputs -> Decisions] /\ basis' \in [Outputs -> Bases]
         /\ errors' \subseteq Outputs /\ scanned' = config
         /\ ValueHasBasis' /\ EveryOutputDecided'
         /\ \A o \in Outputs : retained'[o].forced => DecidedByForce(basis'[o])
  <1>1. PICK logic \in LogicOf[config], expired \in SUBSET Outputs :
          ScanStep(logic, fired, expired)
    BY DEF SomeScan
  <1>2. \A o \in Outputs :
          /\ Sound(o, retained'[o], basis'[o])
          /\ (o \in OutputsOf[config] \/ Proposed(Proposals(logic, forced'), o))
               /\ retained'[o].value = NoValue => FailsafeOf[config][o] = NoValue
    BY <1>1, ScanOutputIsSound
  <1>3. /\ forced' \in [Outputs -> ValueOrNone]
        /\ \A o \in Outputs : forced'[o] # NoValue => o \in OutputsOf[config]
    BY <1>1 DEF IInv, TypeOK, ScanStep, ValueOrNone
  <1>4. retained' \in [Outputs -> Decisions] /\ basis' \in [Outputs -> Bases]
    <2>1. retained' = [o \in Outputs |-> retained'[o]] /\ basis' = [o \in Outputs |-> basis'[o]]
      BY <1>1 DEF ScanStep, Resolve
    <2>2. QED
      BY <1>2, <2>1 DEF Sound
  <1>5. /\ scanned' = config
        /\ errors' = Unresolved(Proposals(logic, forced'), OutputsOf[config], retained')
    BY <1>1 DEF ScanStep, Proposals
  <1>6. errors' \subseteq Outputs
    BY <1>5 DEF Unresolved
  <1>7. ValueHasBasis' /\ \A o \in Outputs : retained'[o].forced => DecidedByForce(basis'[o])
    BY <1>2 DEF ValueHasBasis, Sound
  <1>8. EveryOutputDecided'
    <2>1. OutputsOf[config] \subseteq Outputs
      BY OutputsOfAssumption
    <2>2. QED
      BY <1>2, <1>5, <2>1 DEF EveryOutputDecided, Unresolved
  <1>9. QED
    BY <1>3, <1>4, <1>5, <1>6, <1>7, <1>8

\* The failsafe outputs are decisions no force marks.
LEMMA FailsafeOutputsTyped ==
  ASSUME config \in Configs \cup {NoConfig}
  PROVE  FailsafeOutputs \in [Outputs -> Decisions] /\ \A o \in Outputs : ~FailsafeOutputs[o].forced
  BY FailsafeOfAssumption, DefaultOfAssumption
     DEF FailsafeOutputs, Decision, Decisions, ValueOrNone

-----------------------------------------------------------------------------
(* The invariant.                                                          *)

\* A coordinator that was just built retains nothing.
LEMMA InitIInv == Init => IInv
  <1>1. Init => TypeOK
    BY DEF Init, TypeOK, Nothing, Decision, Decisions, Bases, Basis, NoBasis, ValueOrNone
  <1>2. Init => ValueHasBasis /\ EveryOutputDecided /\ MarkInv
    BY DEF Init, Nothing, Decision, ValueHasBasis, EveryOutputDecided, MarkInv
  <1>3. QED
    BY <1>1, <1>2 DEF IInv

\* A step that leaves what the coordinator decided alone, and publishes nothing or the
\* failsafe outputs, keeps all but the types.
LEMMA QuietKeeps ==
  ASSUME IInv, UNCHANGED decided, UNCHANGED published \/ published' = FailsafeOutputs
  PROVE  ValueHasBasis' /\ EveryOutputDecided' /\ MarkInv'
  <1>1. ValueHasBasis' /\ EveryOutputDecided'
    BY DEF IInv, decided, ValueHasBasis, EveryOutputDecided
  <1>2. \A o \in Outputs : published'[o].forced => published[o].forced
    BY FailsafeOutputsTyped DEF IInv, TypeOK
  <1>3. MarkInv'
    BY <1>2 DEF IInv, decided, MarkInv
  <1>4. QED
    BY <1>1, <1>3

\* Scans record the basis of what they decide, and nothing else changes a decision.
LEMMA NextIInv == IInv /\ [Next]_vars => IInv'
  <1> SUFFICES ASSUME IInv, [Next]_vars PROVE IInv'
    OBVIOUS
  <1>1. TypeOK /\ NoConfig \notin Configs
    BY ConfigsAssumption DEF IInv
  <1>2. FailsafeOutputs \in [Outputs -> Decisions] /\ \A o \in Outputs : ~FailsafeOutputs[o].forced
    BY <1>1, FailsafeOutputsTyped DEF TypeOK
  <1>3. ASSUME NEW c \in Configs, Install(c) PROVE IInv'
    <2>1. TypeOK'
      BY <1>1, <1>3 DEF Install, TypeOK, decided, ValueOrNone
    <2>2. QED
      BY <1>3, <2>1, QuietKeeps DEF Install, IInv
  <1>4. CASE Resume
    <2>1. TypeOK'
      BY <1>1, <1>4 DEF Resume, TypeOK, decided
    <2>2. QED
      BY <1>4, <2>1, QuietKeeps DEF Resume, IInv
  <1>5. CASE Stop
    <2>1. TypeOK'
      BY <1>1, <1>2, <1>5 DEF Stop, TypeOK, decided, ValueOrNone
    <2>2. QED
      BY <1>5, <2>1, QuietKeeps DEF Stop, IInv
  <1>6. ASSUME NEW target \in {"Stopped", "Faulted"}, Halt(target) PROVE IInv'
    <2>1. TypeOK'
      BY <1>1, <1>2, <1>6 DEF Halt, TypeOK, decided
    <2>2. QED
      BY <1>6, <2>1, QuietKeeps DEF Halt, IInv
  <1>7. ASSUME NEW o \in Outputs, NEW v \in Values, SetForce(o, v) PROVE IInv'
    <2>1. TypeOK'
      BY <1>1, <1>7 DEF SetForce, TypeOK, decided, ValueOrNone
    <2>2. QED
      BY <1>7, <2>1, QuietKeeps DEF SetForce, IInv
  <1>8. ASSUME NEW o \in Outputs, ClearForce(o) PROVE IInv'
    <2>1. TypeOK'
      BY <1>1, <1>8 DEF ClearForce, TypeOK, decided, ValueOrNone
    <2>2. QED
      BY <1>8, <2>1, QuietKeeps DEF ClearForce, IInv
  <1>9. ASSUME NEW fired \in FiredSets, SomeScan(fired), UNCHANGED config,
               published' = retained' \/ published' = FailsafeOutputs,
               state' \in {"Running", "Faulted"}
        PROVE  IInv'
    <2>1. config \in Configs /\ fired \in SUBSET DOMAIN InterlocksOf[config]
      BY <1>1, <1>9 DEF SomeScan, TypeOK, FiredSets
    <2>2. /\ forced' \in [Outputs -> ValueOrNone]
          /\ \A o \in Outputs : forced'[o] # NoValue => o \in OutputsOf[config]
          /\ retained' \in [Outputs -> Decisions] /\ basis' \in [Outputs -> Bases]
          /\ errors' \subseteq Outputs /\ scanned' = config
          /\ ValueHasBasis' /\ EveryOutputDecided'
          /\ \A o \in Outputs : retained'[o].forced => DecidedByForce(basis'[o])
      BY <1>9, <2>1, ScanKeeps
    <2>3. TypeOK'
      BY <1>1, <1>2, <1>9, <2>1, <2>2 DEF TypeOK
    <2>4. MarkInv'
      BY <1>2, <1>9, <2>2 DEF MarkInv
    <2>5. QED
      BY <2>2, <2>3, <2>4 DEF IInv
  <1>10. ASSUME NEW fired \in FiredSets, Scan(fired) PROVE IInv'
    BY <1>9, <1>10 DEF Scan, SomeScan
  <1>11. ASSUME NEW fired \in FiredSets, OvertakenScan(fired) PROVE IInv'
    BY <1>9, <1>11 DEF OvertakenScan
  <1>12. CASE UNCHANGED vars
    <2>1. TypeOK'
      BY <1>1, <1>12 DEF vars, decided, TypeOK
    <2>2. QED
      BY <1>12, <2>1, QuietKeeps DEF vars, decided, IInv
  <1>13. QED
    BY <1>3, <1>4, <1>5, <1>6, <1>7, <1>8, <1>10, <1>11, <1>12 DEF Next

\* The inductive invariant holds in every reachable state.
THEOREM Invariance == Spec => []IInv
  <1>1. QED
    BY InitIInv, NextIInv, PTL DEF Spec

\* Every field keeps its type, and forces target outputs the configuration defines.
THEOREM TypeCorrect == Spec => []TypeOK
  <1>1. IInv => TypeOK
    BY DEF IInv
  <1>2. QED
    BY <1>1, Invariance, PTL

\* Every retained value has a basis, however long ago it was decided.
THEOREM ValuesHaveBasis == Spec => []ValueHasBasis
  <1>1. IInv => ValueHasBasis
    BY DEF IInv
  <1>2. QED
    BY <1>1, Invariance, PTL

\* A scan decides or reports every output its configuration defines.
THEOREM OutputsAreDecided == Spec => []EveryOutputDecided
  <1>1. IInv => EveryOutputDecided
    BY DEF IInv
  <1>2. QED
    BY <1>1, Invariance, PTL

\* An output is published as forced only if a force decided it.
THEOREM MarkedOutputsAreForced == Spec => []MarkedIsForced
  <1>1. IInv => MarkedIsForced
    BY DEF IInv, MarkInv, MarkedIsForced
  <1>2. QED
    BY <1>1, Invariance, PTL

-----------------------------------------------------------------------------
(* Forces.                                                                 *)

\* The proposal of an active force is the only highest one on its output.
LEMMA ForceIsTop ==
  ASSUME NEW c \in Configs, NEW logic \in LogicOf[c], NEW forces \in [Outputs -> ValueOrNone],
         NEW o \in Outputs, forces[o] # NoValue
  PROVE  LET all == Proposals(logic, forces)
             p == ForceProposal(o, forces[o], ManualForcedSafeCommand)
         IN  Top(all, o) = {p} /\ Proposed(all, o)
  <1> DEFINE all == Proposals(logic, forces)
             p == ForceProposal(o, forces[o], ManualForcedSafeCommand)
  <1>1. p \in ForceProposals(forces)
    BY DEF ForceProposals
  <1>2. p \in all /\ p.output = o /\ p.priority = 5
    BY <1>1 DEF Proposals, ForceProposal, ManualForcedSafeCommand
  <1>3. \A q \in all : q.priority = 2 \/ q \in ForceProposals(forces)
    BY LogicOfAssumption DEF Proposals, AutomaticControl
  <1>4. \A q \in ForceProposals(forces) : q.priority = 5 /\ (q.output = o => q = p)
    BY DEF ForceProposals, ForceProposal, ManualForcedSafeCommand
  <1> HIDE DEF all, p
  <1>5. For(all, o) = {q \in all : q.output = o}
    BY DEF For
  <1>6. p \in Top(all, o)
    BY <1>2, <1>3, <1>4, <1>5 DEF Top
  <1>7. \A q \in Top(all, o) : q = p
    BY <1>2, <1>3, <1>4, <1>5 DEF Top
  <1>8. QED
    BY <1>2, <1>5, <1>6, <1>7 DEF Proposed, all, p

\* A published scan shows every active force, unless an interlock fires on its output.
THEOREM ForcesWin == Spec => ForceWins
  <1>1. IInv /\ [Next]_vars => [ForceIsShown]_vars
    <2> SUFFICES ASSUME IInv, [Next]_vars PROVE ForceIsShown
      OBVIOUS
    <2> SUFFICES ASSUME NEW o \in Outputs, forced'[o] # NoValue, NEW fired \in FiredSets,
                        Scan(fired), basis'[o].fired = {}
                 PROVE  published'[o].value = forced'[o]
      BY DEF PublishedScan, ForceIsShown
    <2>1. config \in Configs /\ fired \in SUBSET DOMAIN InterlocksOf[config]
      BY ConfigsAssumption DEF IInv, TypeOK, Scan, SomeScan, FiredSets
    <2>2. PICK logic \in LogicOf[config], expired \in SUBSET Outputs :
            ScanStep(logic, fired, expired)
      BY DEF Scan, SomeScan
    <2>3. forced' \in [Outputs -> ValueOrNone]
      BY <2>2 DEF IInv, TypeOK, ScanStep, ValueOrNone
    <2> DEFINE all == Proposals(logic, forced')
               p == ForceProposal(o, forced'[o], ManualForcedSafeCommand)
    <2>4. Top(all, o) = {p} /\ Proposed(all, o)
      BY <2>1, <2>3, ForceIsTop
    <2>5. p.value = forced'[o]
      BY DEF ForceProposal
    <2> HIDE DEF all, p
    <2>6. ~Conflicted(all, o) /\ Winner(all, o) = p
      BY <2>4 DEF Conflicted, Winner
    <2>7. \/ basis'[o] = Basis(config, {}, Firing(InterlocksOf[config], fired, o))
             /\ Firing(InterlocksOf[config], fired, o) # {}
          \/ retained'[o] = Decision(Winner(all, o).value,
                                     Winner(all, o).priority = ManualForcedSafeCommand)
      BY <2>1, <2>2, <2>4, <2>6, ScanOutput DEF IInv, all
    <2>8. retained'[o].value = p.value
      BY <2>6, <2>7 DEF Basis, Decision
    <2>9. QED
      BY <2>5, <2>8 DEF Scan
  <1>2. QED
    BY <1>1, Invariance, PTL DEF Spec, ForceWins
=============================================================================
