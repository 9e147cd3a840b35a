SPECIFICATION Spec
CONSTANTS
  Calls <- MCCalls
  Tools <- MCTools
  Usages <- MCUsages
  Timeout = 1
  Grace = 1
  SpawnTimeout = 0
  Drain = 1
  MaxLines = 3
  PipeSize = 1
  MaxTime = 6
INVARIANTS SubstitutionFails
