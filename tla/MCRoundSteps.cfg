\* Two rounds of one shard of up to two ideas; one fault, one note or one idea set aside.
SPECIFICATION LiveSpec
CONSTANTS
  MaxRounds = 2
  FirstTarget = 2
  Shards = {1}
  PerUnit = 2
  MaxIdeas = 3
  Labels = {1}
  PerRound = 1
  MaxTries = 1
  Cooldown = 1
  Notes = {n1}
  MaxFaults = 1
  MaxArchives = 1
  NotesAt <- WhereNotesAreRead
  ArchivesAt <- WhereIdeasAreRead
INVARIANTS NotesKept WorkDoneOnce MergedIntoOne ClusteringCoversPool SeedNamesOneWave
PROPERTIES PlanReplayed RunEnds
ACTION_CONSTRAINT ScientistActsOnce
CHECK_DEADLOCK FALSE
