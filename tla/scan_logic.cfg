SPECIFICATION Spec
CONSTANTS
  start = start
  stop = stop
  mode = mode
  busy = busy
  ready = ready
  delay = delay
  idle = idle
  cycles = cycles
  riseOfStart = riseOfStart
  riseOfStop = riseOfStop
  riseInterlock = riseInterlock
  InputIds = {start, stop, mode}
  TextIds = {mode}
  MemoryIds = {busy, ready}
  TimerIds = {delay, idle}
  CounterIds = {cycles}
  NodeIds = {riseOfStart, riseOfStop, riseInterlock}
  DeclaredTimers = {idle}
  DeclaredCounters = {cycles}
  Rules <- MCRules
  Interlocks <- MCInterlocks
  Deltas = {1, 2}
  Horizon = 3
INVARIANTS TypeOK TimerHonoursPreset EdgesRiseOnce MemoryIsFrozen RisingInterlockHolds
