SPECIFICATION ProcessesSpec
CONSTANTS
  Calls <- MCCalls
  Tools <- MCTools
  Usages <- MCUsages
  Timeout = 2
  Grace = 1
  SpawnTimeout = 0
  Drain = 1
  MaxLines = 3
  PipeSize = 1
  MaxTime = 7
  Pids = {1, 2, 3, 4}
  Self = 1
  MaxBirths = 5
  MaxPasses = 2
  Reuse = TRUE
  Forests <- MCForests
INVARIANTS VerdictHolds OnlyTheTree WholeTreeDies
PROPERTIES ChildHandled ProcessesAnswer
