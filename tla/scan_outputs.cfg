SPECIFICATION Spec
CONSTANTS
  c1 = c1
  c2 = c2
  o1 = o1
  o2 = o2
  on = on
  off = off
  r1 = r1
  r2 = r2
  NoConfig = NoConfig
  NoValue = NoValue
  ForceSource = ForceSource
  Configs = {c1, c2}
  Outputs = {o1, o2}
  Values = {on, off}
  Sources = {r1, r2}
  OutputsOf <- MCOutputsOf
  FailsafeOf <- MCFailsafeOf
  InterlocksOf <- MCInterlocksOf
  LogicOf <- MCLogicOf
  DefaultOf <- MCDefaultOf
INVARIANTS TypeOK ValueHasBasis EveryOutputDecided MarkedIsForced
PROPERTY ForceWins
