SPECIFICATION FairSpec
CONSTANTS
  Connections = {d1, d2, d3}
  Capacity = 2
  DiskUnits = 1
  Faults = {"thread", "send", "exception", "crash"}
INVARIANTS
  TypeOK
  PermitsAccounted
  TempFilesOwned
  AnswersInStep
PROPERTIES
  NoThreadStuck
