\* One note, and a supervisor that dies between the claim and the save.
SPECIFICATION Spec
CONSTANTS
  MaxRounds = 1
  FirstTarget = 1
  Shards = {1}
  PerUnit = 1
  MaxIdeas = 2
  Labels = {1}
  PerRound = 1
  MaxTries = 1
  Cooldown = 1
  Notes = {n1}
  MaxFaults = 1
  MaxArchives = 0
  NotesAt <- WhereNotesAreRead
  ArchivesAt <- WhereIdeasAreRead
INVARIANTS NotesSurvive
CHECK_DEADLOCK FALSE
