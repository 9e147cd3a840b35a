\* Two runs and two requests at once, which nothing keeps apart: launches, resumes and
\* a shutdown race for one lane.
\* Four ideas and two rounds, a resumed round, settled ratings after one match;
\* three ideas over three rounds, two families, two deaths or calls lost.
SPECIFICATION SafetySpec
CONSTANTS
  r1 = r1
  r2 = r2
  q1 = q1
  q2 = q2
  Runs = {r1, r2}
  Slots = {q1, q2}
  Asked = {"launch", "pause", "resume", "park"}
  Patient = FALSE
  MaxProcs = 2
  MaxRequests = 3
  MaxFaults = 0
  MaxDeletes = 1
  MaxIdeas = 4
  Clusters = {1}
  MaxRounds = 2
  MaxResumes = 1
  PerRound = 2
  TopK = 2
  KSettleAfter = 1
  NewcomerMatches = 2
  InitialElo = 12000
  Gain <- MCGain
  PoolIds = {1, 2, 3}
  Families = {"f", "g"}
  LastRound = 3
  GraftEnabled = TRUE
  QuorumK = 3
  Window = 1
  GraftCooldown = 1
  HhiThreshold = 500
  Slack0 = 0
  BirthRate = 0
  MaxDiverseFaults = 2
SYMMETRY Alike
INVARIANTS RatingsHold GraftsHold
PROPERTIES LaneSafe PlansHold
CHECK_DEADLOCK FALSE
