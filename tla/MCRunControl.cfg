\* One run and every kind of request, one at a time: a run launched, paused, resumed,
\* ended, continued and deleted over three processes, with one fault.
SPECIFICATION FairSpec
CONSTANTS
  r1 = r1
  r2 = r2
  q1 = q1
  q2 = q2
  Runs = {r1}
  Slots = {q1}
  Asked = {"launch", "pause", "stop", "finish", "resume", "continue", "force_stop", "park"}
  Patient = TRUE
  MaxProcs = 3
  MaxRequests = 4
  MaxFaults = 1
  MaxDeletes = 1
INVARIANTS OneDriver PausedIsIdle
PROPERTIES ShutdownParksTheDead DesertedRunsAreBuried StopEndsTheRun
CHECK_DEADLOCK FALSE
