SPECIFICATION FairSpec
CHECK_DEADLOCK FALSE
CONSTANTS
  Callers = {c1, c2}
  Depth = 2
  Batch = 2
  Hooks = {"exits", "returns"}
  MaxCalls = 3
  MaxTxs = 1
  MaxFaults = 2
  MaxKills = 1
INVARIANTS
  DepthMeansDurable
  FailuresAreOwn
  CloseFlushes
PROPERTIES
  RefusedOnceBroken
  KeepsPromise
  CallsReturn
