SPECIFICATION Spec
CHECK_DEADLOCK FALSE
CONSTANTS
  Cells = {1, 2}
  Described = {}
  BaseOf <- MCBaseOf
  SeatCounts = {6}
  MaxSeats = 6
  MaxAttempts = 1
  Width = 2
  WalkBatch = 2
  BreakerMinN = 1
  BreakerRate = 50
  Budget = 50
  StallPasses = 2
  MaxFaults = 0
INVARIANTS
  OnlyBudgetStalls
