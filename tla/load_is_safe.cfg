SPECIFICATION Spec
CONSTANTS
  tank = tank
  irrigation = irrigation
  level = level
  pump = pump
  timer = timer
  valve = valve
  NoProgram = NoProgram
  NoInput = NoInput
  Programs = {tank, irrigation}
  InputsOf <- MCInputsOf
  OutputsOf <- MCOutputsOf
  QueueBound = 3
INVARIANT LoadIsSafe
\* A load may kill the loop, and then a full queue stays full.
CHECK_DEADLOCK FALSE
