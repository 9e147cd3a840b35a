\* One checkpoint and one more, one route; one fault, one note, one idea set aside.
SPECIFICATION FairSpec
CONSTANTS
  MaxRounds = 2
  FirstTarget = 1
  Approaches = {1}
  PerCall = 1
  MaxIdeas = 3
  Limit = 2
  Readiness = {"source_supported", "contradicted"}
  Grades = {0}
  Notes = {n1}
  MaxFaults = 1
  MaxArchives = 1
INVARIANTS PaidOnce ResultsHold
PROPERTIES RunReports
ACTION_CONSTRAINT ScientistActsWhereRead
CHECK_DEADLOCK FALSE
