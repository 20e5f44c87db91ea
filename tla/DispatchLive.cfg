SPECIFICATION FairSpec
CHECK_DEADLOCK FALSE
CONSTANTS
  d1 = d1 d2 = d2 A = A B = B a1 = a1 a2 = a2 b1 = b1 j1 = j1 j2 = j2 c1 = c1 c2 = c2
  Drivers = {d1, d2}
  Runs = {A, B}
  Units = {a1, b1}
  Judges = {j1}
  NoJudge = NoJudge
  NoRun = NoRun
  Drives <- MCDrives
  CohortOf <- TwoCohorts
  RunOf <- LiveRunOf
  JudgeOf <- LiveJudgeOf
  Cost <- LiveCost
  Ceiling = 2
  Width = 1
  Divisor = 2
  OomLimit = 1
PROPERTIES
  LeaseResolves
