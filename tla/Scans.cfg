SPECIFICATION FairSpec
CHECK_DEADLOCK FALSE
CONSTANTS
  Classes = {a, b}
  Files = {f}
  Big = {}
  MaxUploads = 2
  MaxImports = 1
  MaxFaults = 1

PROPERTIES
  PurgeSparesNamedBlobs
  ReportedPurgeIsWhole
  QueuedFilesAreTaken
