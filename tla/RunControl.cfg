SPECIFICATION FairSpec
CONSTANTS
  Procs = {p1}
  Units = {u1, u2}
  RowIds = {r1, r2, r3, r4}
  MaxQueued = 2
  MaxKills = 1
INVARIANTS
  NoClaimPastPause
PROPERTIES
  PauseTakesEffect
  RequestsAreHonoured
