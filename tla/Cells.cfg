SPECIFICATION FairSpec
CHECK_DEADLOCK FALSE
CONSTANTS
  Cells = {1, 2}
  Described = {1}
  BaseOf <- MCBaseOf
  SeatCounts = {4, 6}
  MaxSeats = 6
  MaxAttempts = 1
  Width = 2
  WalkBatch = 1
  BreakerMinN = 1
  BreakerRate = 50
  Budget = 50
  StallPasses = 2
  MaxFaults = 1
INVARIANTS
  CompleteCountsEveryVerdict
  ScoringFollowsExtraction
  WidenedOnce
  HooksNeverFault
  StallExplained
PROPERTIES
  BreakerHalts
  DriverReturns
