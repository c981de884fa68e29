SPECIFICATION Spec
CONSTANTS
  i1 = i1
  i2 = i2
  p1 = p1
  p2 = p2
  Inputs = {i1, i2}
  Outputs <- MCOutputs
  Maps <- MCMaps
  FailureThreshold = 2
  MaxConnectAttempts = 2
  Byte = 4
INVARIANTS TypeOK DriverStateIsBacked RoundTrips
PROPERTIES LossIsSeen InputsReturn FailsafeReachesDevice
