SPECIFICATION Spec
CHECK_DEADLOCK FALSE
CONSTANTS
  d1 = d1 d2 = d2 A = A B = B a1 = a1 a2 = a2 b1 = b1 j1 = j1 j2 = j2 c1 = c1 c2 = c2
  Drivers = {d1, d2}
  Runs = {A, B}
  Units = {a1, a2, b1}
  Judges = {j1, j2}
  NoJudge = NoJudge
  NoRun = NoRun
  Drives <- MCDrives
  CohortOf <- OneCohort
  RunOf <- MCRunOf
  JudgeOf <- MCJudgeOf
  Cost <- MCCost
  Ceiling = 2
  Width = 2
  Divisor = 2
  OomLimit = 1
SYMMETRY Arms
INVARIANTS
  SpendWithinCeiling
  SpendCoversClaims
  PanelKeepsAJudge
  WidthUsable
