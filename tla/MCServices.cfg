SPECIFICATION ServicesSpec
CONSTANTS
  Workshops = {w1}
  Users = {"u1", "admin"}
  Admins = {"admin"}
  Notes = {"", "narrower"}
  Timeout = 2
  Slack = 1
  AnswerGrace = 2
  MaxCalls = 2
  MaxFaults = 1
  TicketIds = {"t1", "t2"}
  StreamRuns = {"r1", "r2"}
  Issuers = {"i1", "i2"}
  Ttl = 1
  TicketTime = 1
  MaxOutages = 2
  MaxAsks = 1
  EngineMayFail = TRUE
  SettingsBodies <- MCSettingsBodies
  Requests <- MCRequests
  OldSettings <- MCOldSettings
  OldRuns <- MCOldRuns
  CalledRoles = {"generation", "ranking"}
  Harnesses = {"claude"}
  Drops <- MCDrops
  MaxRuns = 2
  MaxSaves = 1
  MaxUpgrades = 1
  FirstArchive <- MCArchive
  Passes = {"p1", "p2"}
  Hids = {"h1", "h2"}
  MaxPasses = 3
  MaxChanges = 1
  MaxDeaths = 1
  ShelfIds = {"h1", "h2"}
  MaxProjections = 2
  RunShapes <- MCRunShapes
INVARIANTS SupervisorSafe ShelfSafe EstimatesSafe
PROPERTIES WorkshopSafe TicketsSafe ModelsSafe ImportsSafe PartsAnswer
CHECK_DEADLOCK FALSE
