SPECIFICATION Spec
CHECK_DEADLOCK FALSE
CONSTANTS
  Classes = {a}
  Files = {f}
  Big = {f}
  MaxUploads = 1
  MaxImports = 0
  MaxFaults = 0
INVARIANTS
  PurgedClassLeavesNoScan
