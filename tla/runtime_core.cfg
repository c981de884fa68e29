SPECIFICATION Spec
CONSTANTS
  c1 = c1
  c2 = c2
  o1 = o1
  o2 = o2
  i1 = i1
  NoConfig = NoConfig
  NoInput = NoInput
  Configs = {c1}
  Outputs = {o1}
  OutputsOf <- MCOutputsOf
  InputValues = {i1}
  Posted <- MCOperator
  QueueBound = 1
INVARIANTS TypeOK RunningHasProgram FailsafeWhileNotRunning SnapshotIsCoherent
PROPERTY ImplementsFailsafeRuntime
