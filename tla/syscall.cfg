SPECIFICATION Spec
CONSTANTS
  HALF = 64
  TicksPerSecond = 2
  Numbers = {1, 2, 3, 4, 13, 16, 20, 24, 29, 37, 45, 64, 4095}
  Arguments = {0, 1, 4094}
  MaxText = 1
  MaxCalls = 2
  MaxTicks = 2
INVARIANTS TypeOK RegistersKept StatisticsAgree
CHECK_DEADLOCK FALSE
