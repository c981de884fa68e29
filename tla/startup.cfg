SPECIFICATION FairSpec
CONSTANTS
  p1 = p1
  p2 = p2
  admin = admin
  operator = operator
  tank = tank
  irrigation = irrigation
  NoProcess = NoProcess
  Processes = {p1, p2}
  LatestVersion = 4
  AddsColumns = {3}
  Seed <- MCSeed
  Demos <- MCDemos
INVARIANTS TypeOK ServesLatestSchema SeedIsPrefix CopiesAreBounded LibraryNotEmpty
PROPERTIES SchemaIsVersioned EveryoneServes
