\* Three units for two slots, each call costing one unit of a dollar ceiling of three: a
\* worker waits for a slot, one retries while another is unbooked; one death, one continue.
SPECIFICATION FairSpec
CONSTANTS
  Units = {u1, u2, u3}
  Parallel = 2
  Costs = {1}
  BudgetUsd = 3
  MaxBudget = 5
  MaxSteps = 1
  MaxCrashes = 1
  MaxContinues = 1
INVARIANTS LedgerHolds ReportAffordable
PROPERTIES RunEnds KeepsCeiling
