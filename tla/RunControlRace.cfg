SPECIFICATION Spec
CONSTANTS
  Procs = {p1, p2}
  Units = {u1, u2}
  RowIds = {r1, r2, r3}
  MaxQueued = 1
  MaxKills = 0
PROPERTIES
  StatusFollowsEdges
  CountedStays
SYMMETRY ProcSymmetry
