SPECIFICATION TimelySpec
CONSTANTS
  c1 = c1
  c2 = c2
  o1 = o1
  o2 = o2
  i1 = i1
  NoConfig = NoConfig
  NoInput = NoInput
  Configs = {c1, c2}
  Outputs = {o1, o2}
  OutputsOf <- MCOutputsOf
  InputValues = {}
  Posted <- MCForces
  QueueBound = 1
INVARIANT ForcesAreDefined
